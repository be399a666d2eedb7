---------------------------- MODULE MemoryProof ----------------------------
(***************************************************************************)
(* Pages, slab objects and address spaces, for memories and programs of    *)
(* any size.  The page tables are related to a map from roots and page     *)
(* numbers to the contents of pages; then every operation on tables is an  *)
(* operation on that map.                                                  *)
(***************************************************************************)
EXTENDS Memory, TLAPS, WellFoundedInduction, FiniteSetTheorems, SequenceTheorems

-----------------------------------------------------------------------------
(* Natural numbers.                                                        *)

\* A set of natural numbers that is not empty has a least element: what the
\* searches for the first free id and the first matching entry rely on.
LEMMA LeastNatural ==
    ASSUME NEW T \in SUBSET Nat, T # {}
    PROVE  \E x \in T : \A y \in T : x <= y
<1>1. \E x \in T : \A y \in T : <<y, x>> \notin OpToRel(<, Nat)
    BY NatLessThanWellFounded, WFMin
<1>2. \A x, y \in Nat : y < x => <<y, x>> \in OpToRel(<, Nat)
    BY DEF OpToRel
<1>3. PICK R : /\ \E x \in T : \A y \in T : <<y, x>> \notin R
               /\ \A x, y \in Nat : y < x => <<y, x>> \in R
    BY <1>1, <1>2, Zenon
<1>4. PICK x \in T : \A y \in T : <<y, x>> \notin R
    BY <1>3
<1>5. ASSUME NEW y \in T PROVE x <= y
  <2>1. x \in Nat /\ y \in Nat /\ ~(y < x)
    BY <1>3, <1>4
  <2> QED
    BY <2>1
<1> QED
    BY <1>5

\* A remainder changes nothing below the modulus: a counter that does not reach
\* its width just counts.
LEMMA SmallRemainder ==
    ASSUME NEW b \in Nat, NEW x \in Nat, x < b
    PROVE  x % b = x
    OBVIOUS

\* Division with remainder: an offset is in one cluster or page, at one place.
LEMMA DivMod ==
    ASSUME NEW x \in Nat, NEW c \in Nat \ {0}
    PROVE  /\ x \div c \in Nat /\ x % c \in 0 .. c - 1
           /\ x = (x \div c) * c + (x % c)
    OBVIOUS

\* Fewer bytes lie in fewer clusters.
LEMMA FewerMultiples ==
    ASSUME NEW a \in Int, NEW b \in Int, NEW c \in Nat \ {0}, a * c < b * c
    PROVE  a < b
<1> SUFFICES ASSUME a >= b PROVE FALSE
    OBVIOUS
<1>1. (a - b) * c >= 0
    OBVIOUS
<1>2. (a - b) * c = a * c - b * c
    OBVIOUS
<1>3. a * c \in Int /\ b * c \in Int
    OBVIOUS
<1> QED
    BY <1>1, <1>2, <1>3

\* The quotient and the remainder are unique.
LEMMA DivUnique ==
    ASSUME NEW c \in Nat \ {0}, NEW q \in Nat, NEW r \in 0 .. c - 1, NEW x, x = q * c + r
    PROVE  x \in Nat /\ x \div c = q /\ x % c = r
<1> DEFINE Q == x \div c
           R == x % c
<1>1. x \in Nat /\ q * c \in Nat
    OBVIOUS
<1>2. Q \in Nat /\ R \in 0 .. c - 1 /\ x = Q * c + R
    BY <1>1, DivMod
<1> HIDE DEF Q, R
<1>3. Q * c \in Nat /\ (Q + 1) * c = Q * c + c /\ (q + 1) * c = q * c + c
    BY <1>2
<1>4. Q * c < (q + 1) * c /\ q * c < (Q + 1) * c
    BY <1>1, <1>2, <1>3
<1>5. Q < q + 1 /\ q < Q + 1
    BY <1>2, <1>4, FewerMultiples
<1>6. Q = q
    BY <1>2, <1>5
<1> QED
    BY <1>1, <1>2, <1>6 DEF Q, R

-----------------------------------------------------------------------------
(* Addresses.                                                              *)

Half == PAGE_SIZE \div 2

\* The constants as numbers.
LEMMA MemoryConstants ==
    /\ kmem_total_pages \in Nat \ {0} /\ page_array_pages \in Nat \ {0} /\ page_array_pages < kmem_total_pages
    /\ KERNEL_STACK_PAGES \in Nat \ {0} /\ OBJECTS_PER_PAGE \in Nat \ {0}
    /\ PAGE_SIZE \in Nat /\ PAGE_SIZE >= 2
    /\ Half \in Nat \ {0} /\ PAGE_SIZE = Half + Half
    /\ KillDuringExec \in BOOLEAN
<1>1. PAGE_SIZE \in Nat \ {0} /\ PAGE_SIZE % 2 = 0
    BY MemoryAssumption
<1>2. PAGE_SIZE = 2 * Half /\ Half \in Nat
    BY <1>1 DEF Half
<1> HIDE DEF Half
<1>3. Half # 0 /\ PAGE_SIZE = Half + Half /\ PAGE_SIZE >= 2
    BY <1>1, <1>2
<1> QED
    BY <1>1, <1>2, <1>3, MemoryAssumption

\* A multiple of c that is less than one of the others.
LEMMA QuotientLess ==
    ASSUME NEW c \in Nat \ {0}, NEW x \in Nat, NEW b \in Nat, x < b * c
    PROVE  x \div c \in Nat /\ x \div c < b
<1> DEFINE q == x \div c
<1>1. q \in Nat /\ x % c \in 0 .. c - 1 /\ x = q * c + (x % c)
    BY DivMod
<1> DEFINE qc == q * c
           bc == b * c
           r == x % c
<1>2. qc \in Nat /\ bc \in Nat
    BY <1>1
<1> HIDE DEF q, qc, bc, r
<1>3. qc < bc
    BY <1>1, <1>2 DEF qc, bc, r
<1> QED
    BY <1>1, <1>3, FewerMultiples DEF qc, bc, q

\* The prefixes of a user address: each is the one above it and an index.
LEMMA AddressParts ==
    ASSUME NEW a \in 0 .. UserEnd - 1
    PROVE  /\ \A l \in 0 .. 3 : Prefix(a, l) \in Nat /\ Index(a, l) \in Slots
           /\ \A l \in 0 .. 3 : Index(a, l) = Prefix(a, l) % PAGE_SIZE
           /\ \A l \in 0 .. 2 : Prefix(a, l + 1) = Prefix(a, l) \div PAGE_SIZE
           /\ \A l \in 0 .. 2 : Prefix(a, l) = Prefix(a, l + 1) * PAGE_SIZE + Index(a, l)
           /\ Prefix(a, 3) < Half /\ Index(a, 3) = Prefix(a, 3)
           /\ Prefix(a, 0) = a \div PAGE_SIZE
<1> DEFINE P == PAGE_SIZE
           v0 == a \div P
           v1 == v0 \div P
           v2 == v1 \div P
           v3 == v2 \div P
<1>1. P \in Nat \ {0} /\ Half \in Nat \ {0} /\ P = Half + Half
    BY MemoryConstants
<1>2. Half * P \in Nat /\ Half * P * P \in Nat /\ Half * P * P * P \in Nat
    BY <1>1
<1>3. UserEnd = Half * P * P * P * P /\ UserEnd \in Nat /\ a \in Nat /\ a < Half * P * P * P * P
    BY <1>1, <1>2 DEF UserEnd, Half
<1> HIDE DEF P
<1>4. v0 \in Nat /\ v0 < Half * P * P * P
    BY <1>1, <1>2, <1>3, QuotientLess
<1> HIDE DEF v0
<1>5. v1 \in Nat /\ v1 < Half * P * P
    BY <1>1, <1>2, <1>4, QuotientLess
<1> HIDE DEF v1
<1>6. v2 \in Nat /\ v2 < Half * P
    BY <1>1, <1>2, <1>5, QuotientLess
<1> HIDE DEF v2
<1>7. v3 \in Nat /\ v3 < Half
    BY <1>1, <1>2, <1>6, QuotientLess
<1> HIDE DEF v3
<1>8. Prefix(a, 0) = v0 /\ Prefix(a, 1) = v1 /\ Prefix(a, 2) = v2 /\ Prefix(a, 3) = v3
    BY DEF Prefix, Shift, v0, v1, v2, v3, P
<1>9. \A l \in 0 .. 3 : l = 0 \/ l = 1 \/ l = 2 \/ l = 3
    OBVIOUS
<1>10. \A l \in 0 .. 3 : Prefix(a, l) \in Nat
    BY <1>4, <1>5, <1>6, <1>7, <1>8, <1>9
<1>11. \A l \in 0 .. 3 : Index(a, l) = Prefix(a, l) % P /\ Index(a, l) \in 0 .. P - 1
    BY <1>1, <1>10, DivMod DEF Index, P
<1>12. \A l \in 0 .. 2 : Prefix(a, l + 1) = Prefix(a, l) \div P
  <2>1. \A l \in 0 .. 2 : l = 0 \/ l = 1 \/ l = 2
    OBVIOUS
  <2> QED
    BY <1>8, <2>1 DEF v1, v2, v3
<1>13. \A l \in 0 .. 2 : Prefix(a, l) = Prefix(a, l + 1) * P + Index(a, l)
  <2> SUFFICES ASSUME NEW l \in 0 .. 2 PROVE Prefix(a, l) = Prefix(a, l + 1) * P + Index(a, l)
    OBVIOUS
  <2>1. l \in 0 .. 3 /\ Prefix(a, l) \in Nat
    BY <1>10
  <2>2. Prefix(a, l) = (Prefix(a, l) \div P) * P + (Prefix(a, l) % P)
    BY <1>1, <2>1, DivMod
  <2> QED
    BY <1>11, <1>12, <2>1, <2>2
<1>14. Index(a, 3) = v3
  <2>1. v3 < P
    BY <1>1, <1>7
  <2> QED
    BY <1>1, <1>7, <1>8, <1>11, <2>1, SmallRemainder
<1> QED
    BY <1>7, <1>8, <1>10, <1>11, <1>12, <1>13, <1>14 DEF Slots, P, v0

-----------------------------------------------------------------------------
(* What a page is used for.                                                *)

Statuses == {"KPAGE_PAGE_ARRAY", "KPAGE_FREE", "KPAGE_USED"}
Allocators == {"task_struct", "range"}
ObjectSlots == 0 .. OBJECTS_PER_PAGE - 1
Slabs == [pages : Seq(Pages), free : SUBSET (Pages \X ObjectSlots)]

Mems == [status : [Pages -> Statuses], word : [Pages -> [Slots -> Int]], kmem_used_pages : Int,
         slab : [Allocators -> Slabs], panic : BOOLEAN]

UsedPages(mm) == {p \in Pages : mm.status[p] = "KPAGE_USED"}

\* A label says what a page is for: 4 is a PML4, 3 to 1 the tables below it,
\* 0 the memory of a process, each with the PML4 above it and the part of
\* the address that leads to it; 5 is any other page of a task, 6 one of a
\* slab, 7 none.
Labels == [kind : 0 .. 7, root : Pages, base : Nat]

\* Slot j of page p is an entry that belongs to the user.
IsEntry(g, p, j) == g[p].kind \in 1 .. 4 /\ (g[p].kind = 4 => j < Half)

StatusOK(mm, g) ==
    /\ mm.status[0] = "KPAGE_PAGE_ARRAY"
    /\ \A p \in Pages : g[p].kind # 7 => mm.status[p] = "KPAGE_USED"
    /\ ~ KillDuringExec => \A p \in Pages : mm.status[p] = "KPAGE_USED" => g[p].kind # 7
    /\ mm.kmem_used_pages = Cardinality(UsedPages(mm))

RootsOK(g) ==
    /\ \A p \in Pages : g[p].kind = 4 => g[p].root = p /\ g[p].base = 0
    /\ \A p \in Pages : g[p].kind \in 0 .. 4 => g[g[p].root].kind = 4

\* An entry leads to the page whose label says so.
EntriesLead(mm, g) ==
    \A p \in Pages, j \in Slots : IsEntry(g, p, j) /\ mm.word[p][j] # 0 =>
       LET q == mm.word[p][j]
       IN /\ q \in Pages
          /\ g[q].kind = g[p].kind - 1 /\ g[q].root = g[p].root /\ g[q].base = g[p].base * PAGE_SIZE + j

\* And every page with such a label has an entry that leads to it.
PagesReached(mm, g) ==
    \A q \in Pages : g[q].kind \in 0 .. 3 =>
       \E p \in Pages : /\ g[p].kind = g[q].kind + 1 /\ g[p].root = g[q].root
                        /\ g[p].base = g[q].base \div PAGE_SIZE
                        /\ IsEntry(g, p, g[q].base % PAGE_SIZE)
                        /\ mm.word[p][g[q].base % PAGE_SIZE] = q

LabelsUnique(g) ==
    \A p, q \in Pages : /\ g[p].kind \in 0 .. 4 /\ g[q].kind = g[p].kind
                        /\ g[q].root = g[p].root /\ g[q].base = g[p].base
                        => p = q

SlabsOK(mm, g) ==
    /\ \A a \in Allocators : \A i \in DOMAIN mm.slab[a].pages : g[mm.slab[a].pages[i]].kind = 6
    /\ \A p \in Pages : g[p].kind = 6 => \E a \in Allocators : \E i \in DOMAIN mm.slab[a].pages : mm.slab[a].pages[i] = p
    /\ \A a, c \in Allocators : \A i \in DOMAIN mm.slab[a].pages : \A j \in DOMAIN mm.slab[c].pages :
          mm.slab[a].pages[i] = mm.slab[c].pages[j] => a = c /\ i = j
    /\ \A a \in Allocators : mm.slab[a].free \subseteq Range(mm.slab[a].pages) \X ObjectSlots

\* M gives the contents of the page that a PML4 and a page number lead to.
ContentsAre(mm, g, M) ==
    /\ M = [x \in DOMAIN M |-> M[x]]
    /\ \A x \in DOMAIN M : \E q \in Pages : g[q].kind = 0 /\ x = <<g[q].root, g[q].base>>
    /\ \A q \in Pages : g[q].kind = 0 =>
          <<g[q].root, g[q].base>> \in DOMAIN M /\ M[<<g[q].root, g[q].base>>] = mm.word[q]

NoPanic(mm) == mm.panic = FALSE

Good(mm, g, R, O, M) ==
    /\ mm \in Mems /\ NoPanic(mm) /\ g \in [Pages -> Labels]
    /\ StatusOK(mm, g) /\ RootsOK(g) /\ EntriesLead(mm, g) /\ PagesReached(mm, g) /\ LabelsUnique(g)
    /\ SlabsOK(mm, g) /\ ContentsAre(mm, g, M)
    /\ R = {p \in Pages : g[p].kind = 4} /\ O = {p \in Pages : g[p].kind = 5}

\* The memory mm has the PML4s R, the other pages O of tasks, and maps what
\* M says.
Ok(mm, R, O, M) == \E g : Good(mm, g, R, O, M)

\* The memory of a kernel that has panicked is arbitrary.
Shaped(mm) == mm = [status |-> mm.status, word |-> mm.word, kmem_used_pages |-> mm.kmem_used_pages,
                    slab |-> mm.slab, panic |-> mm.panic]

Panicked(mm) == Shaped(mm) /\ mm.panic = TRUE

Run(page, n) == page .. page + n - 1

\* Pages are finitely many.
LEMMA PagesFinite ==
    ASSUME NEW S \in SUBSET Pages
    PROVE  IsFiniteSet(S) /\ Cardinality(S) \in Nat
<1>1. IsFiniteSet(Pages)
    BY MemoryConstants, FS_Interval DEF Pages
<1>2. IsFiniteSet(S)
    BY <1>1, FS_Subset
<1> QED
    BY <1>2, FS_CardinalityType

\* The length of a run.
LEMMA RunLength ==
    ASSUME NEW page \in Nat, NEW n \in Nat
    PROVE  IsFiniteSet(Run(page, n)) /\ Cardinality(Run(page, n)) = n
<1>1. IsFiniteSet(page .. page + n - 1)
      /\ Cardinality(page .. page + n - 1) = IF page > page + n - 1 THEN 0 ELSE (page + n - 1) - page + 1
    BY FS_Interval
<1> QED
    BY <1>1 DEF Run

\* Pages of slabs are pages.
LEMMA SlabPages ==
    ASSUME NEW mm \in Mems, NEW a \in Allocators
    PROVE  /\ mm.slab[a] \in Slabs /\ mm.slab[a].pages \in Seq(Pages) /\ mm.slab[a].free \in SUBSET (Pages \X ObjectSlots)
           /\ DOMAIN mm.slab[a].pages = 1 .. Len(mm.slab[a].pages) /\ Len(mm.slab[a].pages) \in Nat
           /\ \A i \in DOMAIN mm.slab[a].pages : mm.slab[a].pages[i] \in Pages
<1>1. mm.slab[a] \in Slabs
    BY DEF Mems
<1>2. mm.slab[a].pages \in Seq(Pages) /\ mm.slab[a].free \in SUBSET (Pages \X ObjectSlots)
    BY <1>1 DEF Slabs
<1> QED
    BY <1>1, <1>2

\* Tables and what they map stay the same while only other pages change.
LEMMA TablesKept ==
    ASSUME NEW mm, NEW x, NEW g \in [Pages -> Labels], NEW h \in [Pages -> Labels], NEW M,
           RootsOK(g), EntriesLead(mm, g), PagesReached(mm, g), LabelsUnique(g), ContentsAre(mm, g, M),
           \A p \in Pages : g[p].kind \in 0 .. 4 \/ h[p].kind \in 0 .. 4 => h[p] = g[p] /\ x.word[p] = mm.word[p]
    PROVE  RootsOK(h) /\ EntriesLead(x, h) /\ PagesReached(x, h) /\ LabelsUnique(h) /\ ContentsAre(x, h, M)
<1>1. \A p \in Pages : g[p].kind \in 0 .. 7 /\ h[p].kind \in 0 .. 7 /\ g[p].root \in Pages /\ h[p].root \in Pages
    BY DEF Labels
<1>2. RootsOK(h)
    BY <1>1 DEF RootsOK
<1>3. EntriesLead(x, h)
  <2> SUFFICES ASSUME NEW p \in Pages, NEW j \in Slots, IsEntry(h, p, j), x.word[p][j] # 0
               PROVE  LET q == x.word[p][j]
                      IN /\ q \in Pages
                         /\ h[q].kind = h[p].kind - 1 /\ h[q].root = h[p].root
                         /\ h[q].base = h[p].base * PAGE_SIZE + j
    BY DEF EntriesLead
  <2> DEFINE q == x.word[p][j]
  <2>1. h[p] = g[p] /\ x.word[p] = mm.word[p] /\ IsEntry(g, p, j) /\ g[p].kind \in 1 .. 4
    BY <1>1 DEF IsEntry
  <2>2. q = mm.word[p][j] /\ q \in Pages /\ g[q].kind = g[p].kind - 1 /\ g[q].root = g[p].root
        /\ g[q].base = g[p].base * PAGE_SIZE + j
    BY <2>1 DEF EntriesLead
  <2> HIDE DEF q
  <2>3. h[q] = g[q]
    BY <2>1, <2>2
  <2> QED
    BY <2>1, <2>2, <2>3 DEF q
<1>4. PagesReached(x, h)
  <2> SUFFICES ASSUME NEW q \in Pages, h[q].kind \in 0 .. 3
               PROVE  \E p \in Pages : /\ h[p].kind = h[q].kind + 1 /\ h[p].root = h[q].root
                                        /\ h[p].base = h[q].base \div PAGE_SIZE
                                        /\ IsEntry(h, p, h[q].base % PAGE_SIZE)
                                        /\ x.word[p][h[q].base % PAGE_SIZE] = q
    BY DEF PagesReached
  <2>1. h[q] = g[q] /\ g[q].kind \in 0 .. 3
    BY <1>1
  <2>2. PICK p \in Pages : /\ g[p].kind = g[q].kind + 1 /\ g[p].root = g[q].root
                           /\ g[p].base = g[q].base \div PAGE_SIZE
                           /\ IsEntry(g, p, g[q].base % PAGE_SIZE)
                           /\ mm.word[p][g[q].base % PAGE_SIZE] = q
    BY <2>1 DEF PagesReached
  <2>3. h[p] = g[p] /\ x.word[p] = mm.word[p]
    BY <1>1, <2>1, <2>2
  <2> QED
    BY <2>1, <2>2, <2>3 DEF IsEntry
<1>5. LabelsUnique(h)
    BY <1>1 DEF LabelsUnique
<1>6. ContentsAre(x, h, M)
    BY <1>1 DEF ContentsAre
<1> QED
    BY <1>2, <1>3, <1>4, <1>5, <1>6

SameTables(g, h) == \A p \in Pages : g[p].kind \in 0 .. 4 => h[p] = g[p]

\* The n pages from page on, used by nobody, become pages of a task.
Taken(mm, g, R, O, M, x, page, n) ==
    /\ Run(page, n) \subseteq Pages \ (R \cup O) /\ page \in Pages /\ page # 0
    /\ x.word = mm.word /\ x.slab = mm.slab
    /\ \E h : Good(x, h, R, O \cup Run(page, n), M) /\ SameTables(g, h)

\* kpage_alloc panics, or hands out a run of pages nobody uses and leaves the
\* tables as they are.
LEMMA AllocLabels ==
    ASSUME NEW mm, NEW g, NEW R, NEW O, NEW M, Good(mm, g, R, O, M), NEW n \in Nat \ {0}
    PROVE  LET a == kpage_alloc(mm, n)
           IN Panicked(a.mm) \/ Taken(mm, g, R, O, M, a.mm, a.page, n)
<1> DEFINE runs == {i \in Pages : /\ i + n <= kmem_total_pages
                                  /\ \A j \in i .. i + n - 1 : mm.status[j] = "KPAGE_FREE"}
           first == Min(runs)
           a == kpage_alloc(mm, n)
<1>1. Good(mm, g, R, O, M)
    OBVIOUS
<1>2. mm \in Mems /\ g \in [Pages -> Labels] /\ NoPanic(mm)
    BY <1>1 DEF Good
<1>3. CASE runs = {}
  <2>1. a.mm = [mm EXCEPT !.panic = TRUE]
    BY <1>3 DEF kpage_alloc
  <2>2. Panicked(a.mm)
    BY <1>2, <2>1 DEF Panicked, Shaped, Mems
  <2> QED
    BY <2>2
<1>4. CASE runs # {}
  <2>1. runs \in SUBSET Nat
    BY MemoryConstants DEF Pages
  <2>2. first \in runs
    <3>1. \E x \in runs : \A y \in runs : x <= y
      BY <1>4, <2>1, LeastNatural
    <3> HIDE DEF runs
    <3> QED
      BY <3>1 DEF Min
  <2> DEFINE F == Run(first, n)
  <2>3. /\ a.page = first
        /\ a.mm = [mm EXCEPT !.status = [i \in Pages |-> IF i \in F THEN "KPAGE_USED" ELSE mm.status[i]],
                             !.kmem_used_pages = mm.kmem_used_pages + n]
    BY <1>2, <1>4 DEF kpage_alloc, Run, Mems
  <2> HIDE DEF first, a
  <2>4. F \subseteq Pages /\ \A j \in F : mm.status[j] = "KPAGE_FREE"
    BY <2>2, MemoryConstants DEF Run, Pages
  <2> HIDE DEF runs
  <2>5. first \in Nat /\ first \in Pages /\ first \in F
    BY <2>1, <2>2, <2>4 DEF Run, runs
  <2>6. 0 \in Pages /\ 0 \notin F
    BY <1>1, <2>4, MemoryConstants DEF Good, StatusOK, Pages
  <2> HIDE DEF F
  <2> DEFINE h == [p \in Pages |-> IF p \in F THEN [kind |-> 5, root |-> 0, base |-> 0] ELSE g[p]]
             x == a.mm
  <2>7. \A p \in F : g[p].kind = 7
    BY <1>1, <2>4 DEF Good, StatusOK
  <2>8. /\ x \in Mems /\ NoPanic(x) /\ x.word = mm.word /\ x.slab = mm.slab
        /\ x.status = [i \in Pages |-> IF i \in F THEN "KPAGE_USED" ELSE mm.status[i]]
        /\ x.kmem_used_pages = mm.kmem_used_pages + n
    <3> DEFINE st == [i \in Pages |-> IF i \in F THEN "KPAGE_USED" ELSE mm.status[i]]
               c == mm.kmem_used_pages + n
    <3>1. st \in [Pages -> Statuses] /\ c \in Int
      BY <1>2 DEF Mems, Statuses, NoPanic
    <3>2. x = [mm EXCEPT !.status = st, !.kmem_used_pages = c]
      BY <2>3
    <3> HIDE DEF st, c, x
    <3>3. x \in Mems /\ NoPanic(x) /\ x.word = mm.word /\ x.slab = mm.slab /\ x.status = st
          /\ x.kmem_used_pages = c
      BY <1>2, <3>1, <3>2 DEF Mems, NoPanic
    <3> QED
      BY <3>3 DEF st, c
  <2>9. h \in [Pages -> Labels] /\ \A p \in Pages : p \notin F => h[p] = g[p]
    BY <1>2, <2>6 DEF Labels
  <2>10. \A p \in F : h[p].kind = 5
    BY <2>4
  <2> HIDE DEF h, x
  <2>11. StatusOK(x, h)
    <3>1. UsedPages(x) = UsedPages(mm) \cup F
      BY <2>4, <2>8 DEF UsedPages
    <3>2. UsedPages(mm) \cap F = {}
      BY <2>4 DEF UsedPages
    <3>3. IsFiniteSet(UsedPages(mm)) /\ Cardinality(UsedPages(mm)) \in Nat
      BY PagesFinite DEF UsedPages
    <3>4. IsFiniteSet(F) /\ Cardinality(F) = n
      BY <2>5, RunLength DEF F
    <3>5. Cardinality(UsedPages(mm) \cup F)
            = Cardinality(UsedPages(mm)) + Cardinality(F) - Cardinality(UsedPages(mm) \cap F)
      BY <3>3, <3>4, FS_Union
    <3>6. Cardinality(UsedPages(mm) \cap F) = 0 /\ mm.kmem_used_pages = Cardinality(UsedPages(mm))
      BY <1>1, <3>2, FS_EmptySet DEF Good, StatusOK
    <3>7. Cardinality(UsedPages(x)) = mm.kmem_used_pages + n
      BY <3>1, <3>3, <3>4, <3>5, <3>6
    <3> QED
      BY <1>1, <2>4, <2>6, <2>7, <2>8, <2>9, <2>10, <3>7 DEF Good, StatusOK
  <2>12. RootsOK(h) /\ EntriesLead(x, h) /\ PagesReached(x, h) /\ LabelsUnique(h) /\ ContentsAre(x, h, M)
    <3>1. \A p \in Pages : g[p].kind \in 0 .. 4 \/ h[p].kind \in 0 .. 4 => h[p] = g[p] /\ x.word[p] = mm.word[p]
      BY <2>7, <2>8, <2>9, <2>10
    <3>2. RootsOK(g) /\ EntriesLead(mm, g) /\ PagesReached(mm, g) /\ LabelsUnique(g) /\ ContentsAre(mm, g, M)
      BY <1>1 DEF Good
    <3> QED
      BY <1>2, <2>9, <3>1, <3>2, TablesKept, ZenonT(30)
  <2>13. SlabsOK(x, h)
    <3>1. \A c \in Allocators : \A i \in DOMAIN mm.slab[c].pages : mm.slab[c].pages[i] \in Pages
      BY <1>2, SlabPages
    <3> QED
      BY <1>1, <2>7, <2>8, <2>9, <2>10, <3>1 DEF Good, SlabsOK
  <2>14. R = {p \in Pages : h[p].kind = 4} /\ O \cup F = {p \in Pages : h[p].kind = 5} /\ F \cap (R \cup O) = {}
    BY <1>1, <2>4, <2>7, <2>9, <2>10 DEF Good
  <2>15. Good(x, h, R, O \cup F, M)
    BY <2>8, <2>9, <2>11, <2>12, <2>13, <2>14 DEF Good
  <2>16. SameTables(g, h)
    BY <2>7, <2>9 DEF SameTables
  <2> QED
    BY <2>3, <2>4, <2>5, <2>6, <2>8, <2>14, <2>15, <2>16 DEF x, F, a, Taken
<1> QED
    BY <1>3, <1>4

\* The same, without the labels.
LEMMA AllocTakes ==
    ASSUME NEW mm, NEW R, NEW O, NEW M, Ok(mm, R, O, M), NEW n \in Nat \ {0}
    PROVE  LET a == kpage_alloc(mm, n) IN
           \/ Panicked(a.mm)
           \/ /\ Run(a.page, n) \subseteq Pages \ (R \cup O) /\ a.page \in Pages /\ a.page # 0
              /\ a.mm.word = mm.word /\ a.mm.slab = mm.slab
              /\ Ok(a.mm, R, O \cup Run(a.page, n), M)
<1> DEFINE a == kpage_alloc(mm, n)
<1>1. PICK g : Good(mm, g, R, O, M)
    BY DEF Ok
<1>2. Panicked(a.mm) \/ Taken(mm, g, R, O, M, a.mm, a.page, n)
    BY <1>1, AllocLabels
<1> HIDE DEF a
<1> QED
    BY <1>2 DEF Ok, a, Taken

\* Only the labels of pages that are in no table change.
LEMMA Relabelled ==
    ASSUME NEW mm, NEW x \in Mems, NEW g, NEW h \in [Pages -> Labels], NEW R, NEW O, NEW Q, NEW M,
           Good(mm, g, R, O, M), NoPanic(x), StatusOK(x, h), SlabsOK(x, h),
           \A p \in Pages : g[p].kind \in 0 .. 4 \/ h[p].kind \in 0 .. 4 => h[p] = g[p] /\ x.word[p] = mm.word[p],
           Q = {p \in Pages : h[p].kind = 5}
    PROVE  Good(x, h, R, Q, M)
<1>1. g \in [Pages -> Labels]
    BY DEF Good
<1>2. RootsOK(h) /\ EntriesLead(x, h) /\ PagesReached(x, h) /\ LabelsUnique(h) /\ ContentsAre(x, h, M)
    BY <1>1, TablesKept DEF Good
<1>3. R = {p \in Pages : h[p].kind = 4}
    BY DEF Good
<1> QED
    BY <1>2, <1>3 DEF Good

ObjectsOf(p)        == {p} \X ObjectSlots
WithWord(mm, p, w)  == [mm EXCEPT !.word[p] = w]
WithEntry(mm, p, j, e) == [mm EXCEPT !.word[p][j] = e]
WithSlab(mm, a, s)  == [mm EXCEPT !.slab[a] = s]
WithFree(mm, a, f)  == [mm EXCEPT !.slab[a].free = f]
WithPages(mm, a, q) == [mm EXCEPT !.slab[a].pages = q]
Grown(mm, a, p)     == WithFree(WithPages(mm, a, <<p>> \o mm.slab[a].pages), a, ObjectsOf(p))

\* After a panic nothing takes it back.
LEMMA PanicStays ==
    ASSUME NEW mm, Panicked(mm)
    PROVE  /\ \A p, w : Panicked(WithWord(mm, p, w))
           /\ \A a, s : Panicked(WithSlab(mm, a, s))
           /\ \A a, f : Panicked(WithFree(mm, a, f))
           /\ \A a, q : Panicked(WithPages(mm, a, q))
<1>1. \A p, w : Panicked(WithWord(mm, p, w))
    BY DEF Panicked, Shaped, WithWord
<1>2. \A a, s : Panicked(WithSlab(mm, a, s))
    BY DEF Panicked, Shaped, WithSlab
<1>3. \A a, f : Panicked(WithFree(mm, a, f))
    BY DEF Panicked, Shaped, WithFree
<1>4. \A a, q : Panicked(WithPages(mm, a, q))
    BY DEF Panicked, Shaped, WithPages
<1> QED
    BY <1>1, <1>2, <1>3, <1>4

\* A page gets new contents.
LEMMA WordSet ==
    ASSUME NEW mm \in Mems, NEW p \in Pages, NEW w \in [Slots -> Int]
    PROVE  LET x == WithWord(mm, p, w) IN
           /\ x \in Mems /\ x.panic = mm.panic /\ x.slab = mm.slab
           /\ x.status = mm.status /\ x.kmem_used_pages = mm.kmem_used_pages
           /\ x.word[p] = w /\ \A q \in Pages \ {p} : x.word[q] = mm.word[q]
           /\ \A g : (StatusOK(mm, g) => StatusOK(x, g)) /\ (SlabsOK(mm, g) => SlabsOK(x, g))
<1> DEFINE x == WithWord(mm, p, w)
           ww == [mm.word EXCEPT ![p] = w]
<1>1. ww \in [Pages -> [Slots -> Int]] /\ ww[p] = w /\ \A q \in Pages \ {p} : ww[q] = mm.word[q]
    BY DEF Mems
<1>2. x = [mm EXCEPT !.word = ww]
    BY DEF Mems, WithWord
<1> HIDE DEF ww, x
<1>3. x \in Mems /\ x.panic = mm.panic /\ x.slab = mm.slab /\ x.status = mm.status
      /\ x.kmem_used_pages = mm.kmem_used_pages /\ x.word = ww
    BY <1>1, <1>2 DEF Mems
<1>4. \A g : (StatusOK(mm, g) => StatusOK(x, g)) /\ (SlabsOK(mm, g) => SlabsOK(x, g))
    BY <1>3 DEF StatusOK, SlabsOK, UsedPages
<1> QED
    BY <1>1, <1>3, <1>4 DEF x, ww

\* What a kernel stack or a buffer holds does not matter.
LEMMA OtherWritten ==
    ASSUME NEW mm, NEW g, NEW R, NEW O, NEW M, Good(mm, g, R, O, M), NEW p \in O, NEW w \in [Slots -> Int]
    PROVE  Good(WithWord(mm, p, w), g, R, O, M)
<1> DEFINE x == WithWord(mm, p, w)
<1>2. mm \in Mems /\ g \in [Pages -> Labels] /\ p \in Pages /\ g[p].kind = 5
    BY DEF Good
<1>3. /\ x \in Mems /\ x.panic = mm.panic /\ \A q \in Pages \ {p} : x.word[q] = mm.word[q]
      /\ StatusOK(mm, g) => StatusOK(x, g)
      /\ SlabsOK(mm, g) => SlabsOK(x, g)
    BY <1>2, WordSet
<1> HIDE DEF x
<1>4. NoPanic(x) /\ StatusOK(x, g) /\ SlabsOK(x, g) /\ O = {q \in Pages : g[q].kind = 5}
    BY <1>3 DEF Good, NoPanic
<1>5. \A q \in Pages : g[q].kind \in 0 .. 4 \/ g[q].kind \in 0 .. 4 => g[q] = g[q] /\ x.word[q] = mm.word[q]
    BY <1>2, <1>3
<1>6. Good(x, g, R, O, M)
    BY <1>2, <1>3, <1>4, <1>5, Relabelled
<1> QED
    BY <1>6 DEF x

\* An empty page q, used by nobody, becomes a page of a task.
ZeroTaken(mm, g, R, O, M, x, q) ==
    /\ q \in Pages \ (R \cup O) /\ q # 0
    /\ x.word[q] = Zeroed /\ x.slab = mm.slab
    /\ \A c \in Pages \ {q} : x.word[c] = mm.word[c]
    /\ \E h : Good(x, h, R, O \cup {q}, M) /\ SameTables(g, h)

\* A page for the kernel, filled with zeroes.
LEMMA ZeroedLabels ==
    ASSUME NEW mm, NEW g, NEW R, NEW O, NEW M, Good(mm, g, R, O, M)
    PROVE  LET a == AllocZeroed(mm) IN Panicked(a.mm) \/ ZeroTaken(mm, g, R, O, M, a.mm, a.page)
<1> DEFINE b == kpage_alloc(mm, 1)
           a == AllocZeroed(mm)
<1>1. b = [page |-> b.page, mm |-> b.mm]
    BY DEF kpage_alloc
<1>2. a.page = b.page /\ a.mm = WithWord(b.mm, b.page, Zeroed)
    BY <1>1 DEF AllocZeroed, WithWord
<1>3. Panicked(b.mm) \/ Taken(mm, g, R, O, M, b.mm, b.page, 1)
  <2>1. 1 \in Nat \ {0}
    OBVIOUS
  <2> QED
    BY <2>1, AllocLabels
<1> HIDE DEF a, b
<1>4. CASE Panicked(b.mm)
  <2>1. Panicked(a.mm)
    BY <1>2, <1>4, PanicStays
  <2> QED
    BY <2>1 DEF a
<1>5. CASE ~ Panicked(b.mm)
  <2>1. Run(b.page, 1) = {b.page}
    BY <1>3, <1>5, MemoryConstants DEF Run, Pages, Taken
  <2>2. Zeroed \in [Slots -> Int]
    BY DEF Zeroed
  <2> DEFINE Q == O \cup {b.page}
  <2>3. PICK h : Good(b.mm, h, R, Q, M) /\ SameTables(g, h)
    BY <1>3, <1>5, <2>1 DEF Taken
  <2>4. b.mm \in Mems /\ b.page \in Pages \ (R \cup O) /\ b.page \in Q
    BY <1>3, <1>5, <2>1, <2>3 DEF Good, Taken
  <2> HIDE DEF Q
  <2>5. Good(a.mm, h, R, Q, M)
    BY <1>2, <2>2, <2>3, <2>4, OtherWritten
  <2>6. a.mm.word[b.page] = Zeroed /\ a.mm.slab = b.mm.slab
        /\ \A q \in Pages \ {b.page} : a.mm.word[q] = b.mm.word[q]
    BY <1>2, <2>2, <2>4, WordSet
  <2> QED
    BY <1>2, <1>3, <1>5, <2>3, <2>4, <2>5, <2>6 DEF a, Q, Taken, ZeroTaken
<1> QED
    BY <1>4, <1>5

\* The same, without the labels.
LEMMA ZeroedTakes ==
    ASSUME NEW mm, NEW R, NEW O, NEW M, Ok(mm, R, O, M)
    PROVE  LET a == AllocZeroed(mm) IN
           \/ Panicked(a.mm)
           \/ /\ a.page \in Pages \ (R \cup O) /\ a.page # 0
              /\ a.mm.word[a.page] = Zeroed /\ a.mm.slab = mm.slab
              /\ Ok(a.mm, R, O \cup {a.page}, M)
<1> DEFINE a == AllocZeroed(mm)
<1>1. PICK g : Good(mm, g, R, O, M)
    BY DEF Ok
<1>2. Panicked(a.mm) \/ ZeroTaken(mm, g, R, O, M, a.mm, a.page)
    BY <1>1, ZeroedLabels
<1> HIDE DEF a
<1> QED
    BY <1>2 DEF Ok, a, ZeroTaken

\* A page without entries for the user becomes a PML4.
LEMMA RootMade ==
    ASSUME NEW mm, NEW R, NEW O, NEW M, Ok(mm, R, O, M), NEW p \in O,
           \A j \in Slots : j < Half => mm.word[p][j] = 0
    PROVE  Ok(mm, R \cup {p}, O \ {p}, M)
<1>1. PICK g : Good(mm, g, R, O, M)
    BY DEF Ok
<1>2. mm \in Mems /\ g \in [Pages -> Labels] /\ p \in Pages /\ g[p].kind = 5 /\ NoPanic(mm)
    BY <1>1 DEF Good
<1>3. \A q \in Pages : g[q].kind \in 0 .. 7 /\ g[q].root \in Pages /\ g[q].base \in Nat
    BY <1>2 DEF Labels
<1> DEFINE h == [g EXCEPT ![p] = [kind |-> 4, root |-> p, base |-> 0]]
<1>4. /\ h \in [Pages -> Labels] /\ h[p].kind = 4 /\ h[p].root = p /\ h[p].base = 0
      /\ \A q \in Pages \ {p} : h[q] = g[q]
    BY <1>2 DEF Labels
<1> HIDE DEF h
<1>5. StatusOK(mm, h)
    BY <1>1, <1>2, <1>4 DEF Good, StatusOK
<1>6. RootsOK(h)
    BY <1>1, <1>2, <1>3, <1>4 DEF Good, RootsOK
<1>7. EntriesLead(mm, h)
  <2> SUFFICES ASSUME NEW q \in Pages, NEW j \in Slots, IsEntry(h, q, j), mm.word[q][j] # 0
               PROVE  LET c == mm.word[q][j]
                      IN /\ c \in Pages
                         /\ h[c].kind = h[q].kind - 1 /\ h[c].root = h[q].root
                         /\ h[c].base = h[q].base * PAGE_SIZE + j
    BY DEF EntriesLead
  <2>1. q # p /\ h[q] = g[q] /\ IsEntry(g, q, j)
    BY <1>4 DEF IsEntry
  <2>2. /\ mm.word[q][j] \in Pages
        /\ g[mm.word[q][j]].kind = g[q].kind - 1 /\ g[mm.word[q][j]].root = g[q].root
        /\ g[mm.word[q][j]].base = g[q].base * PAGE_SIZE + j
    BY <1>1, <2>1 DEF Good, EntriesLead
  <2>3. mm.word[q][j] # p
    BY <1>2, <2>1, <2>2 DEF IsEntry
  <2> QED
    BY <1>4, <2>1, <2>2, <2>3
<1>8. PagesReached(mm, h)
  <2> SUFFICES ASSUME NEW q \in Pages, h[q].kind \in 0 .. 3
               PROVE  \E c \in Pages : /\ h[c].kind = h[q].kind + 1 /\ h[c].root = h[q].root
                                       /\ h[c].base = h[q].base \div PAGE_SIZE
                                       /\ IsEntry(h, c, h[q].base % PAGE_SIZE)
                                       /\ mm.word[c][h[q].base % PAGE_SIZE] = q
    BY DEF PagesReached
  <2>1. h[q] = g[q]
    BY <1>4
  <2>2. PICK c \in Pages : /\ g[c].kind = g[q].kind + 1 /\ g[c].root = g[q].root
                           /\ g[c].base = g[q].base \div PAGE_SIZE
                           /\ IsEntry(g, c, g[q].base % PAGE_SIZE)
                           /\ mm.word[c][g[q].base % PAGE_SIZE] = q
    BY <1>1, <2>1 DEF Good, PagesReached
  <2>3. c # p
    BY <1>2, <2>1, <2>2
  <2>4. h[c] = g[c]
    BY <1>4, <2>3
  <2> QED
    BY <2>1, <2>2, <2>4 DEF IsEntry
<1>9. LabelsUnique(h)
  <2>1. \A q \in Pages \ {p} : g[q].kind = 4 => g[q].root # p
    BY <1>1 DEF Good, RootsOK
  <2> QED
    BY <1>1, <1>2, <1>4, <2>1 DEF Good, LabelsUnique
<1>10. SlabsOK(mm, h)
  <2>1. \A c \in Allocators : \A i \in DOMAIN mm.slab[c].pages : mm.slab[c].pages[i] \in Pages
    BY <1>2, SlabPages
  <2> QED
    BY <1>1, <1>2, <1>4, <2>1 DEF Good, SlabsOK
<1>11. ContentsAre(mm, h, M)
    BY <1>1, <1>2, <1>4 DEF Good, ContentsAre
<1>12. R \cup {p} = {q \in Pages : h[q].kind = 4} /\ O \ {p} = {q \in Pages : h[q].kind = 5}
    BY <1>1, <1>2, <1>4 DEF Good
<1> QED
    BY <1>2, <1>4, <1>5, <1>6, <1>7, <1>8, <1>9, <1>10, <1>11, <1>12 DEF Ok, Good

\* kpage_free gives back a run of pages of a task.
LEMMA FreeGives ==
    ASSUME NEW mm, NEW R, NEW O, NEW M, Ok(mm, R, O, M), NEW page \in Nat, NEW n \in Nat, Run(page, n) \subseteq O
    PROVE  LET x == kpage_free(mm, page, n) IN
           /\ Ok(x, R, O \ Run(page, n), M) /\ x.word = mm.word /\ x.slab = mm.slab
<1> DEFINE F == Run(page, n)
           x == kpage_free(mm, page, n)
           st == [i \in Pages |-> IF i \in F THEN "KPAGE_FREE" ELSE mm.status[i]]
           c == mm.kmem_used_pages - n
<1>1. PICK g : Good(mm, g, R, O, M)
    BY DEF Ok
<1>2. mm \in Mems /\ g \in [Pages -> Labels] /\ NoPanic(mm) /\ F \subseteq Pages
      /\ \A p \in F : g[p].kind = 5 /\ mm.status[p] = "KPAGE_USED"
    BY <1>1 DEF Good, StatusOK
<1>3. st \in [Pages -> Statuses] /\ c \in Int
    BY <1>2 DEF Mems, Statuses
<1>4. x = [mm EXCEPT !.status = st, !.kmem_used_pages = c]
    BY <1>2 DEF kpage_free, Run, Mems
<1> HIDE DEF x
<1>5. x \in Mems /\ NoPanic(x) /\ x.word = mm.word /\ x.slab = mm.slab /\ x.status = st /\ x.kmem_used_pages = c
  <2> HIDE DEF st, c
  <2> QED
    BY <1>2, <1>3, <1>4 DEF Mems, NoPanic
<1>6. IsFiniteSet(F) /\ Cardinality(F) = n
    BY RunLength
<1> HIDE DEF F
<1> DEFINE h == [p \in Pages |-> IF p \in F THEN [kind |-> 7, root |-> p, base |-> 0] ELSE g[p]]
<1>7. h \in [Pages -> Labels] /\ (\A p \in Pages : p \notin F => h[p] = g[p]) /\ \A p \in F : h[p].kind = 7
    BY <1>2 DEF Labels
<1> HIDE DEF h
<1>8. StatusOK(x, h)
  <2>1. UsedPages(x) = UsedPages(mm) \ F /\ F \subseteq UsedPages(mm)
    BY <1>2, <1>5 DEF UsedPages
  <2>2. IsFiniteSet(UsedPages(mm)) /\ IsFiniteSet(UsedPages(x)) /\ Cardinality(UsedPages(mm)) \in Nat
        /\ Cardinality(UsedPages(x)) \in Nat
    BY PagesFinite DEF UsedPages
  <2>3. Cardinality(UsedPages(mm)) = Cardinality(UsedPages(x)) + n
    <3>1. UsedPages(mm) = UsedPages(x) \cup F /\ UsedPages(x) \cap F = {}
      BY <2>1
    <3>2. Cardinality(UsedPages(x) \cup F)
            = Cardinality(UsedPages(x)) + Cardinality(F) - Cardinality(UsedPages(x) \cap F)
      BY <1>6, <2>2, FS_Union
    <3>3. Cardinality(UsedPages(x) \cap F) = 0
      BY <3>1, FS_EmptySet
    <3> QED
      BY <1>6, <2>2, <3>1, <3>2, <3>3
  <2>4. mm.kmem_used_pages = Cardinality(UsedPages(mm)) /\ mm.status[0] = "KPAGE_PAGE_ARRAY"
    BY <1>1 DEF Good, StatusOK
  <2>5. x.kmem_used_pages = Cardinality(UsedPages(x))
    BY <1>5, <2>2, <2>3, <2>4
  <2>6. 0 \in Pages /\ 0 \notin F /\ x.status[0] = "KPAGE_PAGE_ARRAY"
    BY <1>2, <1>5, <2>4, MemoryConstants DEF Pages
  <2> QED
    BY <1>1, <1>2, <1>5, <1>7, <2>5, <2>6 DEF Good, StatusOK
<1>9. SlabsOK(x, h)
  <2>1. \A d \in Allocators : \A i \in DOMAIN mm.slab[d].pages : mm.slab[d].pages[i] \in Pages
    BY <1>2, SlabPages
  <2> QED
    BY <1>1, <1>2, <1>5, <1>7, <2>1 DEF Good, SlabsOK
<1>10. \A p \in Pages : g[p].kind \in 0 .. 4 \/ h[p].kind \in 0 .. 4 => h[p] = g[p] /\ x.word[p] = mm.word[p]
    BY <1>2, <1>5, <1>7
<1>11. O \ F = {p \in Pages : h[p].kind = 5}
    BY <1>1, <1>7 DEF Good
<1> HIDE DEF st, c
<1>12. Good(x, h, R, O \ F, M)
    BY <1>1, <1>5, <1>7, <1>8, <1>9, <1>10, <1>11, Relabelled
<1> QED
    BY <1>5, <1>12 DEF Ok, F, x

\* Pages that a killed task leaves behind are lost, but do no harm.
LEMMA PagesLost ==
    ASSUME NEW mm, NEW R, NEW O, NEW M, Ok(mm, R, O, M), NEW X, KillDuringExec
    PROVE  Ok(mm, R, O \ X, M)
<1>1. PICK g : Good(mm, g, R, O, M)
    BY DEF Ok
<1>2. mm \in Mems /\ g \in [Pages -> Labels] /\ NoPanic(mm)
    BY <1>1 DEF Good
<1> DEFINE h == [p \in Pages |-> IF p \in X /\ p \in O THEN [kind |-> 7, root |-> p, base |-> 0] ELSE g[p]]
<1>3. /\ h \in [Pages -> Labels]
      /\ \A p \in Pages : p \notin X \cap O => h[p] = g[p]
      /\ \A p \in Pages : p \in X \cap O => h[p].kind = 7 /\ g[p].kind = 5
    BY <1>1, <1>2 DEF Labels, Good
<1> HIDE DEF h
<1>4. StatusOK(mm, h)
    BY <1>1, <1>3 DEF Good, StatusOK
<1>5. SlabsOK(mm, h)
  <2>1. \A d \in Allocators : \A i \in DOMAIN mm.slab[d].pages : mm.slab[d].pages[i] \in Pages
    BY <1>2, SlabPages
  <2> QED
    BY <1>1, <1>3, <2>1 DEF Good, SlabsOK
<1>6. \A p \in Pages : g[p].kind \in 0 .. 4 \/ h[p].kind \in 0 .. 4 => h[p] = g[p] /\ mm.word[p] = mm.word[p]
    BY <1>3
<1>7. O \ X = {p \in Pages : h[p].kind = 5}
    BY <1>1, <1>3 DEF Good
<1>8. Good(mm, h, R, O \ X, M)
    BY <1>1, <1>2, <1>3, <1>4, <1>5, <1>6, <1>7, Relabelled
<1> QED
    BY <1>8 DEF Ok

-----------------------------------------------------------------------------
(* Slab objects.                                                           *)

\* The objects in use.
Objects(mm, allocator) == (Range(mm.slab[allocator].pages) \X ObjectSlots) \ mm.slab[allocator].free

\* One allocator changes.
LEMMA SlabSet ==
    ASSUME NEW mm \in Mems, NEW a \in Allocators, NEW s \in Slabs, NEW x, x = WithSlab(mm, a, s)
    PROVE  /\ x \in Mems /\ x.panic = mm.panic /\ x.word = mm.word /\ x.status = mm.status
           /\ x.kmem_used_pages = mm.kmem_used_pages
           /\ x.slab[a] = s /\ \A c \in Allocators \ {a} : x.slab[c] = mm.slab[c]
           /\ \A g : StatusOK(mm, g) => StatusOK(x, g)
<1> DEFINE ss == [mm.slab EXCEPT ![a] = s]
<1>1. ss \in [Allocators -> Slabs] /\ ss[a] = s /\ \A c \in Allocators \ {a} : ss[c] = mm.slab[c]
    BY DEF Mems
<1>2. x = [mm EXCEPT !.slab = ss]
    BY DEF Mems, WithSlab
<1> HIDE DEF ss
<1>3. x \in Mems /\ x.panic = mm.panic /\ x.word = mm.word /\ x.status = mm.status
      /\ x.kmem_used_pages = mm.kmem_used_pages /\ x.slab = ss
    BY <1>1, <1>2 DEF Mems
<1>4. \A g : StatusOK(mm, g) => StatusOK(x, g)
    BY <1>3 DEF StatusOK, UsedPages
<1> QED
    BY <1>1, <1>3, <1>4

\* Objects change hands.
LEMMA FreeSet ==
    ASSUME NEW mm, NEW R, NEW O, NEW M, Ok(mm, R, O, M), NEW a \in Allocators, NEW f,
           f \subseteq Range(mm.slab[a].pages) \X ObjectSlots, NEW x, x = WithFree(mm, a, f)
    PROVE  /\ Ok(x, R, O, M) /\ x.word = mm.word
           /\ x.slab[a].free = f /\ x.slab[a].pages = mm.slab[a].pages
           /\ \A c \in Allocators \ {a} : x.slab[c] = mm.slab[c]
<1> DEFINE s == [mm.slab[a] EXCEPT !.free = f]
<1>1. PICK g : Good(mm, g, R, O, M)
    BY DEF Ok
<1>2. mm \in Mems /\ g \in [Pages -> Labels] /\ NoPanic(mm)
    BY <1>1 DEF Good
<1>3. mm.slab[a] \in Slabs /\ Range(mm.slab[a].pages) \subseteq Pages
    BY <1>2, SlabPages DEF Range
<1>4. s \in Slabs /\ s.free = f /\ s.pages = mm.slab[a].pages
    BY <1>3 DEF Slabs
<1>5. x = WithSlab(mm, a, s)
    BY <1>2 DEF Mems, WithSlab, WithFree
<1> HIDE DEF s
<1>6. /\ x \in Mems /\ x.panic = mm.panic /\ x.word = mm.word
      /\ x.slab[a] = s /\ \A c \in Allocators \ {a} : x.slab[c] = mm.slab[c]
      /\ StatusOK(mm, g) => StatusOK(x, g)
    BY <1>2, <1>4, <1>5, SlabSet
<1>7. SlabsOK(x, g)
  <2>1. \A c \in Allocators : x.slab[c].pages = mm.slab[c].pages
    BY <1>4, <1>6
  <2>2. \A c \in Allocators : x.slab[c].free \subseteq Range(x.slab[c].pages) \X ObjectSlots
    BY <1>1, <1>4, <1>6, <2>1 DEF Good, SlabsOK
  <2> QED
    BY <1>1, <2>1, <2>2 DEF Good, SlabsOK
<1>8. NoPanic(x) /\ StatusOK(x, g) /\ O = {p \in Pages : g[p].kind = 5}
    BY <1>1, <1>6 DEF Good, NoPanic
<1>9. \A p \in Pages : g[p].kind \in 0 .. 4 \/ g[p].kind \in 0 .. 4 => g[p] = g[p] /\ x.word[p] = mm.word[p]
    BY <1>6
<1>10. Good(x, g, R, O, M)
    BY <1>1, <1>2, <1>6, <1>7, <1>8, <1>9, Relabelled
<1> QED
    BY <1>4, <1>6, <1>8, <1>10 DEF Ok

\* slab_try_alloc takes one object, whatever the memory is like.
LEMMA TryAllocIs ==
    ASSUME NEW mm, NEW a
    PROVE  LET r == slab_try_alloc(mm, a)
           IN r.mm = WithFree(mm, a, mm.slab[a].free \ {r.object})
<1> DEFINE s == mm.slab[a]
           Free(k) == {slot \in 0 .. OBJECTS_PER_PAGE - 1 : <<s.pages[k], slot>> \in s.free}
           i == Min({k \in DOMAIN s.pages : Free(k) # {}})
           object == <<s.pages[i], Min(Free(i))>>
<1>1. slab_try_alloc(mm, a) = [object |-> object, mm |-> WithFree(mm, a, mm.slab[a].free \ {object})]
    BY DEF slab_try_alloc, WithFree
<1> HIDE DEF object
<1> QED
    BY <1>1

\* slab_try_alloc takes a free object when there is one.
LEMMA TryAllocTakes ==
    ASSUME NEW mm, NEW R, NEW O, NEW M, Ok(mm, R, O, M), NEW a \in Allocators, mm.slab[a].free # {},
           NEW r, r = slab_try_alloc(mm, a)
    PROVE  /\ Ok(r.mm, R, O, M) /\ r.mm.word = mm.word
           /\ r.object \in mm.slab[a].free /\ r.mm.slab[a].pages = mm.slab[a].pages
           /\ r.mm.slab[a].free = mm.slab[a].free \ {r.object}
           /\ \A c \in Allocators \ {a} : r.mm.slab[c] = mm.slab[c]
<1> DEFINE s == mm.slab[a]
           Free(k) == {slot \in 0 .. OBJECTS_PER_PAGE - 1 : <<s.pages[k], slot>> \in s.free}
           ks == {k \in DOMAIN s.pages : Free(k) # {}}
           i == Min(ks)
           F == Free(i)
           j == Min(F)
<1>1. PICK g : Good(mm, g, R, O, M)
    BY DEF Ok
<1>2. mm \in Mems /\ s.free \subseteq Range(s.pages) \X ObjectSlots
    BY <1>1 DEF Good, SlabsOK
<1>3. s.pages \in Seq(Pages) /\ DOMAIN s.pages \in SUBSET Nat
    BY <1>2, SlabPages
<1>4. ks # {}
  <2>1. PICK x \in s.free : TRUE
    OBVIOUS
  <2>2. x[1] \in Range(s.pages) /\ x[2] \in ObjectSlots /\ x = <<x[1], x[2]>>
    BY <1>2, <2>1
  <2>3. PICK k \in DOMAIN s.pages : s.pages[k] = x[1]
    BY <2>2 DEF Range
  <2>4. x[2] \in Free(k)
    BY <2>1, <2>2, <2>3 DEF ObjectSlots
  <2> QED
    BY <2>3, <2>4
<1>5. i \in ks
  <2>1. \E x \in ks : \A y \in ks : x <= y
    <3>1. ks \in SUBSET Nat
      BY <1>3
    <3> QED
      BY <1>4, <3>1, LeastNatural
  <2> HIDE DEF ks
  <2> QED
    BY <2>1 DEF Min
<1>6. F # {} /\ F \in SUBSET Nat
  <2>1. F # {}
    <3> HIDE DEF i
    <3> QED
      BY <1>5
  <2>2. 0 .. OBJECTS_PER_PAGE - 1 \in SUBSET Nat
    BY MemoryConstants
  <2>3. F \subseteq 0 .. OBJECTS_PER_PAGE - 1
    <3> HIDE DEF i
    <3> QED
      OBVIOUS
  <2> QED
    BY <2>1, <2>2, <2>3
<1>7. j \in F
  <2>1. \E x \in F : \A y \in F : x <= y
    BY <1>6, LeastNatural
  <2> HIDE DEF F
  <2> QED
    BY <2>1 DEF Min
<1> DEFINE f == s.free \ {r.object}
<1>8. r.object = <<s.pages[i], j>> /\ r.mm = WithFree(mm, a, f)
    BY <1>2 DEF slab_try_alloc, Mems, WithFree
<1> HIDE DEF j, i
<1>9. r.object \in s.free
    BY <1>7, <1>8
<1>10. f \subseteq Range(mm.slab[a].pages) \X ObjectSlots
    BY <1>2
<1> HIDE DEF f
<1>11. /\ Ok(r.mm, R, O, M) /\ r.mm.word = mm.word
       /\ r.mm.slab[a].free = f /\ r.mm.slab[a].pages = mm.slab[a].pages
       /\ \A c \in Allocators \ {a} : r.mm.slab[c] = mm.slab[c]
    BY <1>8, <1>10, FreeSet
<1> QED
    BY <1>9, <1>11 DEF f

\* A page becomes a page of an allocator that has no free objects left.
LEMMA SlabGrows ==
    ASSUME NEW mm, NEW R, NEW O, NEW M, Ok(mm, R, O, M), NEW a \in Allocators, NEW p \in O, mm.slab[a].free = {},
           NEW x, x = Grown(mm, a, p)
    PROVE  /\ Ok(x, R, O \ {p}, M) /\ x.word = mm.word
           /\ x.slab[a].free = ObjectsOf(p) /\ Range(x.slab[a].pages) = Range(mm.slab[a].pages) \cup {p}
           /\ p \notin Range(mm.slab[a].pages)
           /\ \A c \in Allocators \ {a} : x.slab[c] = mm.slab[c]
<1> DEFINE q == mm.slab[a].pages
           s == [pages |-> <<p>> \o q, free |-> ObjectsOf(p)]
<1>1. PICK g : Good(mm, g, R, O, M)
    BY DEF Ok
<1>2. mm \in Mems /\ g \in [Pages -> Labels] /\ NoPanic(mm) /\ p \in Pages /\ g[p].kind = 5
    BY <1>1 DEF Good
<1>3. q \in Seq(Pages) /\ DOMAIN q = 1 .. Len(q) /\ Len(q) \in Nat /\ \A i \in DOMAIN q : q[i] \in Pages /\ g[q[i]].kind = 6
    BY <1>1, <1>2, SlabPages DEF Good, SlabsOK
<1>4. x = WithSlab(mm, a, s)
  <2>1. mm.slab[a] \in Slabs
    BY <1>2, SlabPages
  <2>2. mm.slab[a] = [pages |-> mm.slab[a].pages, free |-> mm.slab[a].free]
    BY <2>1 DEF Slabs
  <2> DEFINE z == <<p>> \o mm.slab[a].pages
             y == WithPages(mm, a, z)
             t == [mm.slab[a] EXCEPT !.pages = z]
  <2>3. y = [mm EXCEPT !.slab[a] = t]
    BY <1>2 DEF Mems, WithPages
  <2> HIDE DEF t, z
  <2>4. y \in [status : [Pages -> Statuses], word : [Pages -> [Slots -> Int]], kmem_used_pages : Int,
               slab : [Allocators -> {t} \cup Slabs], panic : BOOLEAN]
        /\ y.slab[a] = t
    BY <1>2, <2>3 DEF Mems
  <2>5. x = [y EXCEPT !.slab[a] = [t EXCEPT !.free = ObjectsOf(p)]]
    <3> HIDE DEF y
    <3>1. x = WithFree(y, a, ObjectsOf(p))
      BY DEF Grown, y, z
    <3> QED
      BY <2>4, <3>1 DEF WithFree
  <2>6. [t EXCEPT !.free = ObjectsOf(p)] = s
    <3>1. s = [pages |-> z, free |-> ObjectsOf(p)]
      BY DEF z
    <3> DEFINE u == mm.slab[a].pages
               v == mm.slab[a].free
    <3>2. mm.slab[a] = [pages |-> u, free |-> v]
      BY <2>2
    <3> HIDE DEF s, u, v
    <3>3. t = [pages |-> z, free |-> v]
      BY <3>2 DEF t
    <3> DEFINE F == ObjectsOf(p)
    <3> HIDE DEF F
    <3>4. [t EXCEPT !.free = F] = [pages |-> z, free |-> F]
      BY <3>3
    <3> QED
      BY <3>1, <3>4 DEF F
  <2> HIDE DEF s, y
  <2>7. x = [y EXCEPT !.slab[a] = s]
    BY <2>5, <2>6
  <2>8. [[mm EXCEPT !.slab[a] = t] EXCEPT !.slab[a] = s] = [mm EXCEPT !.slab[a] = s]
    BY <1>2 DEF Mems
  <2> QED
    BY <2>3, <2>7, <2>8 DEF WithSlab
<1>5. /\ s.pages \in Seq(Pages) /\ DOMAIN s.pages = 1 .. Len(q) + 1 /\ s.pages[1] = p
      /\ \A i \in 2 .. Len(q) + 1 : s.pages[i] = q[i - 1]
      /\ \A i \in 1 .. Len(q) : q[i] = s.pages[i + 1]
      /\ s.free = ObjectsOf(p)
    BY <1>2, <1>3
<1>6. s \in Slabs
    BY <1>2, <1>5 DEF Slabs, ObjectsOf
<1> DEFINE sp == s.pages
<1> HIDE DEF s, q, sp
<1>7. Range(s.pages) = Range(q) \cup {p} /\ p \notin Range(q)
  <2>1. p \notin Range(q)
    BY <1>2, <1>3 DEF Range
  <2>2. ASSUME NEW d, d \in Range(q) PROVE d \in Range(sp)
    <3>1. PICK i \in 1 .. Len(q) : q[i] = d
      BY <1>3, <2>2 DEF Range
    <3>2. i + 1 \in DOMAIN sp /\ sp[i + 1] = d
      <4>1. i + 1 \in 1 .. Len(q) + 1
        BY <1>3
      <4>2. q[i] = sp[i + 1]
        BY <1>5 DEF sp
      <4> QED
        BY <1>5, <3>1, <4>1, <4>2 DEF sp
    <3> QED
      BY <3>2 DEF Range
  <2>3. ASSUME NEW d, d \in Range(sp) PROVE d \in Range(q) \cup {p}
    <3>1. PICK i \in 1 .. Len(q) + 1 : sp[i] = d
      BY <1>5, <2>3 DEF Range, sp
    <3>2. CASE i = 1
      BY <1>5, <3>1, <3>2 DEF sp
    <3>3. CASE i # 1
      <4>1. i - 1 \in DOMAIN q /\ q[i - 1] = d
        BY <1>3, <1>5, <3>1, <3>3 DEF sp
      <4> QED
        BY <4>1 DEF Range
    <3> QED
      BY <3>2, <3>3
  <2>4. p \in Range(sp)
    <3>1. 1 \in DOMAIN sp /\ sp[1] = p
      BY <1>3, <1>5 DEF sp
    <3> QED
      BY <3>1 DEF Range
  <2> QED
    BY <2>1, <2>2, <2>3, <2>4 DEF sp
<1>8. /\ x \in Mems /\ x.panic = mm.panic /\ x.word = mm.word /\ x.status = mm.status
      /\ x.kmem_used_pages = mm.kmem_used_pages
      /\ x.slab[a] = s /\ \A c \in Allocators \ {a} : x.slab[c] = mm.slab[c]
    BY <1>2, <1>4, <1>6, SlabSet
<1> DEFINE h == [g EXCEPT ![p] = [kind |-> 6, root |-> p, base |-> 0]]
<1>9. h \in [Pages -> Labels] /\ h[p].kind = 6 /\ \A d \in Pages \ {p} : h[d] = g[d]
    BY <1>2 DEF Labels
<1> HIDE DEF h
<1>10. StatusOK(x, h)
    BY <1>1, <1>2, <1>8, <1>9 DEF Good, StatusOK, UsedPages
<1>11. SlabsOK(x, h)
  <2>1. \A c \in Allocators : \A i \in DOMAIN mm.slab[c].pages : mm.slab[c].pages[i] \in Pages \ {p} /\ g[mm.slab[c].pages[i]].kind = 6
    BY <1>1, <1>2, SlabPages DEF Good, SlabsOK
  <2>2. \A i \in DOMAIN s.pages : (i = 1 /\ s.pages[i] = p) \/ (i - 1 \in DOMAIN q /\ s.pages[i] = q[i - 1] /\ s.pages[i] # p)
    <3> SUFFICES ASSUME NEW i \in 1 .. Len(q) + 1
                 PROVE  (i = 1 /\ s.pages[i] = p) \/ (i - 1 \in DOMAIN q /\ s.pages[i] = q[i - 1] /\ s.pages[i] # p)
      BY <1>5
    <3>1. CASE i = 1
      BY <1>5, <3>1
    <3>2. CASE i # 1
      <4>1. i - 1 \in DOMAIN q /\ s.pages[i] = q[i - 1]
        BY <1>3, <1>5, <3>2
      <4>2. q[i - 1] # p
        BY <1>2, <1>3, <4>1
      <4> QED
        BY <4>1, <4>2
    <3> QED
      BY <3>1, <3>2
  <2>3. \A c \in Allocators : \A i \in DOMAIN x.slab[c].pages : h[x.slab[c].pages[i]].kind = 6
    BY <1>3, <1>8, <1>9, <2>1, <2>2 DEF q
  <2>4. ASSUME NEW d \in Pages, h[d].kind = 6
        PROVE  \E c \in Allocators : \E i \in DOMAIN x.slab[c].pages : x.slab[c].pages[i] = d
    <3>1. CASE d = p
      <4>1. 1 \in DOMAIN s.pages /\ s.pages[1] = p
        BY <1>3, <1>5
      <4> QED
        BY <1>8, <3>1, <4>1
    <3>2. CASE d # p
      <4>1. PICK c \in Allocators : \E i \in DOMAIN mm.slab[c].pages : mm.slab[c].pages[i] = d
        BY <1>1, <1>9, <2>4, <3>2 DEF Good, SlabsOK
      <4>2. CASE c = a
        <5>1. PICK i \in 1 .. Len(q) : q[i] = d
          BY <1>3, <4>1, <4>2 DEF q
        <5>2. i + 1 \in DOMAIN s.pages /\ s.pages[i + 1] = d
          BY <1>3, <1>5, <5>1
        <5> QED
          BY <1>8, <5>2
      <4>3. CASE c # a
        BY <1>8, <4>1, <4>3
      <4> QED
        BY <4>2, <4>3
    <3> QED
      BY <3>1, <3>2
  <2>5. ASSUME NEW c \in Allocators, NEW d \in Allocators, NEW i \in DOMAIN x.slab[c].pages, NEW j \in DOMAIN x.slab[d].pages,
               x.slab[c].pages[i] = x.slab[d].pages[j]
        PROVE  c = d /\ i = j
    <3>1. \A e, f \in Allocators : \A k \in DOMAIN mm.slab[e].pages : \A l \in DOMAIN mm.slab[f].pages :
             mm.slab[e].pages[k] = mm.slab[f].pages[l] => e = f /\ k = l
      BY <1>1 DEF Good, SlabsOK
    <3>2. CASE c = a /\ d = a
      <4>1. \A k, l \in DOMAIN q : q[k] = q[l] => k = l
        BY <3>1 DEF q
      <4>2. i \in DOMAIN s.pages /\ j \in DOMAIN s.pages /\ s.pages[i] = s.pages[j]
        BY <1>8, <2>5, <3>2
      <4>3. i \in Nat /\ j \in Nat
        BY <1>3, <1>5, <4>2
      <4> QED
        BY <2>2, <3>2, <4>1, <4>2, <4>3
    <3>3. CASE c = a /\ d # a
      <4>1. i \in DOMAIN s.pages /\ j \in DOMAIN mm.slab[d].pages /\ s.pages[i] = mm.slab[d].pages[j]
        BY <1>8, <2>5, <3>3
      <4> QED
        BY <2>1, <2>2, <3>1, <3>3, <4>1 DEF q
    <3>4. CASE c # a /\ d = a
      <4>1. j \in DOMAIN s.pages /\ i \in DOMAIN mm.slab[c].pages /\ s.pages[j] = mm.slab[c].pages[i]
        BY <1>8, <2>5, <3>4
      <4> QED
        BY <2>1, <2>2, <3>1, <3>4, <4>1 DEF q
    <3>5. CASE c # a /\ d # a
      BY <1>8, <2>5, <3>1, <3>5
    <3> QED
      BY <3>2, <3>3, <3>4, <3>5
  <2>6. \A c \in Allocators : x.slab[c].free \subseteq Range(x.slab[c].pages) \X ObjectSlots
    <3>1. s.free \subseteq Range(s.pages) \X ObjectSlots
      BY <1>5, <1>7 DEF ObjectsOf
    <3> QED
      BY <1>1, <1>8, <3>1 DEF Good, SlabsOK
  <2> QED
    BY <2>3, <2>4, <2>5, <2>6 DEF SlabsOK
<1>12. \A d \in Pages : g[d].kind \in 0 .. 4 \/ h[d].kind \in 0 .. 4 => h[d] = g[d] /\ x.word[d] = mm.word[d]
    BY <1>2, <1>8, <1>9
<1>13. O \ {p} = {d \in Pages : h[d].kind = 5} /\ NoPanic(x)
    BY <1>1, <1>2, <1>8, <1>9 DEF Good, NoPanic
<1>14. Good(x, h, R, O \ {p}, M)
    BY <1>1, <1>8, <1>9, <1>10, <1>11, <1>12, <1>13, Relabelled
<1> QED
    BY <1>5, <1>7, <1>8, <1>13, <1>14 DEF Ok, q

\* slab_alloc panics, or hands out an object that is not in use.
LEMMA SlabAllocTakes ==
    ASSUME NEW mm, NEW R, NEW O, NEW M, Ok(mm, R, O, M), NEW a \in Allocators, NEW r, r = slab_alloc(mm, a)
    PROVE  \/ Panicked(r.mm)
           \/ /\ Ok(r.mm, R, O, M)
              /\ r.object \notin Objects(mm, a) /\ Objects(r.mm, a) = Objects(mm, a) \cup {r.object}
              /\ \A c \in Allocators \ {a} : Objects(r.mm, c) = Objects(mm, c)
<1>1. \A c \in Allocators : mm.slab[c].free \subseteq Range(mm.slab[c].pages) \X ObjectSlots
    BY DEF Ok, Good, SlabsOK
<1>2. CASE mm.slab[a].free # {}
  <2>1. r = slab_try_alloc(mm, a)
    BY <1>2 DEF slab_alloc
  <2>2. /\ Ok(r.mm, R, O, M)
        /\ r.object \in mm.slab[a].free /\ r.mm.slab[a].pages = mm.slab[a].pages
        /\ r.mm.slab[a].free = mm.slab[a].free \ {r.object}
        /\ \A c \in Allocators \ {a} : r.mm.slab[c] = mm.slab[c]
    BY <1>2, <2>1, TryAllocTakes
  <2> QED
    BY <1>1, <2>2 DEF Objects
<1>3. CASE mm.slab[a].free = {}
  <2> DEFINE b == AllocZeroed(mm)
             y == Grown(b.mm, a, b.page)
  <2>1. r = slab_try_alloc(y, a)
    BY <1>3 DEF slab_alloc, ObjectSlots, ObjectsOf, Grown, WithPages, WithFree
  <2>2. CASE Panicked(b.mm)
    <3>1. Panicked(y)
      BY <2>2, PanicStays DEF Grown
    <3> HIDE DEF y
    <3>2. r.mm = WithFree(y, a, y.slab[a].free \ {r.object})
      BY <2>1, TryAllocIs
    <3>3. Panicked(r.mm)
      BY <3>1, <3>2, PanicStays
    <3> QED
      BY <3>3
  <2>3. CASE ~ Panicked(b.mm)
    <3>1. /\ b.page \in Pages \ (R \cup O) /\ b.mm.slab = mm.slab
          /\ Ok(b.mm, R, O \cup {b.page}, M)
      BY <2>3, ZeroedTakes
    <3> HIDE DEF b
    <3>2. /\ Ok(y, R, (O \cup {b.page}) \ {b.page}, M)
          /\ y.slab[a].free = ObjectsOf(b.page)
          /\ Range(y.slab[a].pages) = Range(mm.slab[a].pages) \cup {b.page}
          /\ b.page \notin Range(mm.slab[a].pages)
          /\ \A c \in Allocators \ {a} : y.slab[c] = mm.slab[c]
      <4>1. b.page \in O \cup {b.page} /\ b.mm.slab[a].free = {}
        BY <1>3, <3>1
      <4>2. /\ Ok(y, R, (O \cup {b.page}) \ {b.page}, M)
            /\ y.slab[a].free = ObjectsOf(b.page)
            /\ Range(y.slab[a].pages) = Range(b.mm.slab[a].pages) \cup {b.page}
            /\ b.page \notin Range(b.mm.slab[a].pages)
            /\ \A c \in Allocators \ {a} : y.slab[c] = b.mm.slab[c]
        <5> DEFINE Q == O \cup {b.page}
                   d == b.page
                   x == b.mm
        <5>1. Ok(x, R, Q, M) /\ d \in Q /\ x.slab[a].free = {} /\ y = Grown(x, a, d)
          BY <3>1, <4>1
        <5> HIDE DEF Q, d, x, y
        <5>2. /\ Ok(y, R, Q \ {d}, M)
              /\ y.slab[a].free = ObjectsOf(d)
              /\ Range(y.slab[a].pages) = Range(x.slab[a].pages) \cup {d}
              /\ d \notin Range(x.slab[a].pages)
              /\ \A c \in Allocators \ {a} : y.slab[c] = x.slab[c]
          BY <5>1, SlabGrows
        <5> QED
          BY <5>2 DEF Q, d, x
      <4> HIDE DEF y
      <4> QED
        BY <3>1, <4>2
    <3>3. Ok(y, R, O, M)
      <4>1. (O \cup {b.page}) \ {b.page} = O
        BY <3>1
      <4> QED
        BY <3>2, <4>1
    <3>4. y.slab[a].free # {}
      <4>1. <<b.page, 0>> \in ObjectsOf(b.page)
        BY MemoryConstants DEF ObjectSlots, ObjectsOf
      <4> QED
        BY <3>2, <4>1
    <3> HIDE DEF y
    <3>5. /\ Ok(r.mm, R, O, M)
          /\ r.object \in y.slab[a].free /\ r.mm.slab[a].pages = y.slab[a].pages
          /\ r.mm.slab[a].free = y.slab[a].free \ {r.object}
          /\ \A c \in Allocators \ {a} : r.mm.slab[c] = y.slab[c]
      BY <2>1, <3>3, <3>4, TryAllocTakes
    <3>6. Objects(mm, a) = Range(mm.slab[a].pages) \X ObjectSlots
      BY <1>3 DEF Objects
    <3>7. r.object \in ObjectsOf(b.page)
      BY <3>2, <3>5
    <3>8. Objects(r.mm, a) = Objects(mm, a) \cup {r.object} /\ r.object \notin Objects(mm, a)
      BY <3>2, <3>5, <3>6, <3>7 DEF Objects, ObjectsOf
    <3>9. \A c \in Allocators \ {a} : Objects(r.mm, c) = Objects(mm, c)
      BY <3>2, <3>5 DEF Objects
    <3> QED
      BY <3>5, <3>8, <3>9
  <2> QED
    BY <2>2, <2>3
<1> QED
    BY <1>2, <1>3

\* slab_free takes an object back.
LEMMA SlabFreeGives ==
    ASSUME NEW mm, NEW R, NEW O, NEW M, Ok(mm, R, O, M), NEW a \in Allocators, NEW object \in Objects(mm, a),
           NEW x, x = slab_free(mm, a, object)
    PROVE  /\ Ok(x, R, O, M) /\ x.word = mm.word
           /\ Objects(x, a) = Objects(mm, a) \ {object}
           /\ \A c \in Allocators \ {a} : Objects(x, c) = Objects(mm, c)
<1> DEFINE f == mm.slab[a].free \cup {object}
<1>1. f \subseteq Range(mm.slab[a].pages) \X ObjectSlots /\ mm \in Mems
    BY DEF Ok, Good, SlabsOK, Objects
<1>2. x = WithFree(mm, a, f)
    BY <1>1 DEF slab_free, Mems, WithFree
<1> HIDE DEF f
<1>3. /\ Ok(x, R, O, M) /\ x.word = mm.word
      /\ x.slab[a].free = f /\ x.slab[a].pages = mm.slab[a].pages
      /\ \A c \in Allocators \ {a} : x.slab[c] = mm.slab[c]
    BY <1>1, <1>2, FreeSet
<1> QED
    BY <1>3 DEF Objects, f

-----------------------------------------------------------------------------
(* Page tables.                                                            *)

\* Page p is where the walk from r to address a is with l levels to go.
Base(a, l) == IF l = 4 THEN 0 ELSE Prefix(a, l)
At(g, p, r, a, l) == g[p].kind = l /\ g[p].root = r /\ g[p].base = Base(a, l)

\* The number of the page that an address is in.
PageNumber(a) == a \div PAGE_SIZE

\* The facts about labels that walks need.
LEMMA GoodParts ==
    ASSUME NEW mm, NEW g, NEW R, NEW O, NEW M, Good(mm, g, R, O, M)
    PROVE  /\ mm \in Mems /\ g \in [Pages -> Labels] /\ NoPanic(mm)
           /\ \A p \in Pages : g[p].kind \in 0 .. 7 /\ g[p].root \in Pages /\ g[p].base \in Nat
           /\ \A p \in Pages : g[p].kind = 4 <=> p \in R
           /\ \A p \in Pages : g[p].kind = 5 <=> p \in O
           /\ \A p \in Pages : g[p].kind = 4 => g[p].root = p /\ g[p].base = 0
           /\ \A p \in Pages : g[p].kind # 7 => p # 0
           /\ R \subseteq Pages /\ O \subseteq Pages /\ 0 \in Pages
           /\ StatusOK(mm, g) /\ RootsOK(g) /\ EntriesLead(mm, g) /\ PagesReached(mm, g) /\ LabelsUnique(g)
           /\ SlabsOK(mm, g) /\ ContentsAre(mm, g, M)
<1>1. mm \in Mems /\ g \in [Pages -> Labels] /\ NoPanic(mm)
    BY DEF Good
<1>2. \A p \in Pages : g[p].kind \in 0 .. 7 /\ g[p].root \in Pages /\ g[p].base \in Nat
    BY <1>1 DEF Labels
<1>3. (\A p \in Pages : g[p].kind = 4 <=> p \in R) /\ (\A p \in Pages : g[p].kind = 5 <=> p \in O)
      /\ R \subseteq Pages /\ O \subseteq Pages
    BY DEF Good
<1>4. \A p \in Pages : g[p].kind = 4 => g[p].root = p /\ g[p].base = 0
    BY DEF Good, RootsOK
<1>5. \A p \in Pages : g[p].kind # 7 => p # 0
    BY DEF Good, StatusOK
<1>6. 0 \in Pages
    BY MemoryConstants DEF Pages
<1>7. /\ StatusOK(mm, g) /\ RootsOK(g) /\ EntriesLead(mm, g) /\ PagesReached(mm, g) /\ LabelsUnique(g)
      /\ SlabsOK(mm, g) /\ ContentsAre(mm, g, M)
    BY DEF Good
<1> QED
    BY <1>1, <1>2, <1>3, <1>4, <1>5, <1>6, <1>7

\* An address, level by level.
LEMMA Bases ==
    ASSUME NEW a \in 0 .. UserEnd - 1, NEW l \in 0 .. 3
    PROVE  /\ Base(a, l) \in Nat /\ Index(a, l) \in Slots /\ Base(a, l + 1) \in Nat
           /\ Base(a, l) = Base(a, l + 1) * PAGE_SIZE + Index(a, l)
           /\ Base(a, l) % PAGE_SIZE = Index(a, l)
           /\ l # 3 => Base(a, l) \div PAGE_SIZE = Base(a, l + 1)
           /\ l = 3 => Index(a, l) < Half
           /\ Base(a, 4) = 0 /\ Base(a, 0) = PageNumber(a)
<1>1. /\ \A k \in 0 .. 3 : Prefix(a, k) \in Nat /\ Index(a, k) \in Slots
      /\ \A k \in 0 .. 3 : Index(a, k) = Prefix(a, k) % PAGE_SIZE
      /\ \A k \in 0 .. 2 : Prefix(a, k + 1) = Prefix(a, k) \div PAGE_SIZE
      /\ \A k \in 0 .. 2 : Prefix(a, k) = Prefix(a, k + 1) * PAGE_SIZE + Index(a, k)
      /\ Prefix(a, 3) < Half /\ Index(a, 3) = Prefix(a, 3)
      /\ Prefix(a, 0) = a \div PAGE_SIZE
    BY AddressParts
<1>2. Base(a, 4) = 0 /\ \A k \in 0 .. 3 : Base(a, k) = Prefix(a, k)
    BY DEF Base
<1>3. CASE l = 3
  <2>1. Base(a, l + 1) = 0 /\ 0 * PAGE_SIZE = 0 /\ Index(a, 3) \in Nat
    BY <1>1, <1>2, <1>3, MemoryConstants DEF Slots
  <2> QED
    BY <1>1, <1>2, <1>3, <2>1 DEF PageNumber
<1>4. CASE l # 3
  <2>1. l \in 0 .. 2 /\ l + 1 \in 0 .. 3
    BY <1>4
  <2> QED
    BY <1>1, <1>2, <1>4, <2>1 DEF PageNumber
<1> QED
    BY <1>3, <1>4

\* One step of a walk: an entry leads to the page of the next level, and if
\* there is such a page the entry leads to it.
LEMMA WalkStep ==
    ASSUME NEW mm, NEW g, NEW R, NEW O, NEW M, Good(mm, g, R, O, M),
           NEW r \in R, NEW a \in 0 .. UserEnd - 1, NEW l \in 0 .. 3, NEW p \in Pages, At(g, p, r, a, l + 1)
    PROVE  /\ IsEntry(g, p, Index(a, l)) /\ p # 0
           /\ mm.word[p][Index(a, l)] # 0 =>
                 mm.word[p][Index(a, l)] \in Pages /\ At(g, mm.word[p][Index(a, l)], r, a, l)
           /\ \A q \in Pages : At(g, q, r, a, l) => mm.word[p][Index(a, l)] = q /\ q # 0
<1> DEFINE j == Index(a, l)
           e == mm.word[p][j]
<1>1. /\ Base(a, l) \in Nat /\ j \in Slots /\ Base(a, l + 1) \in Nat
      /\ Base(a, l) = Base(a, l + 1) * PAGE_SIZE + j
      /\ Base(a, l) % PAGE_SIZE = j
      /\ l # 3 => Base(a, l) \div PAGE_SIZE = Base(a, l + 1)
      /\ l = 3 => j < Half
      /\ Base(a, 4) = 0
    BY Bases
<1>2. /\ \A q \in Pages : g[q].kind \in 0 .. 7 /\ g[q].root \in Pages /\ g[q].base \in Nat
      /\ \A q \in Pages : g[q].kind = 4 => g[q].root = q /\ g[q].base = 0
      /\ \A q \in Pages : g[q].kind # 7 => q # 0
      /\ EntriesLead(mm, g) /\ PagesReached(mm, g) /\ LabelsUnique(g)
    BY GoodParts
<1>3. g[p].kind = l + 1 /\ g[p].root = r /\ g[p].base = Base(a, l + 1)
    BY DEF At
<1>4. IsEntry(g, p, j) /\ p # 0
    BY <1>1, <1>2, <1>3 DEF IsEntry
<1> HIDE DEF j, e
<1>5. ASSUME e # 0 PROVE e \in Pages /\ At(g, e, r, a, l)
  <2>1. e \in Pages /\ g[e].kind = g[p].kind - 1 /\ g[e].root = g[p].root /\ g[e].base = g[p].base * PAGE_SIZE + j
    BY <1>1, <1>2, <1>4, <1>5 DEF EntriesLead, e
  <2>2. g[e].kind = l
    BY <1>3, <2>1
  <2> QED
    BY <1>1, <1>3, <2>1, <2>2 DEF At
<1>6. ASSUME NEW q \in Pages, At(g, q, r, a, l) PROVE e = q /\ q # 0
  <2>1. g[q].kind = l /\ g[q].root = r /\ g[q].base = Base(a, l)
    BY <1>6 DEF At
  <2>2. PICK c \in Pages : /\ g[c].kind = g[q].kind + 1 /\ g[c].root = g[q].root
                           /\ g[c].base = g[q].base \div PAGE_SIZE
                           /\ IsEntry(g, c, g[q].base % PAGE_SIZE)
                           /\ mm.word[c][g[q].base % PAGE_SIZE] = q
    BY <1>2, <2>1 DEF PagesReached
  <2>3. g[c].kind = l + 1 /\ g[c].root = r /\ mm.word[c][j] = q
    BY <1>1, <2>1, <2>2
  <2>4. g[c].base = Base(a, l + 1)
    <3>1. CASE l = 3
      BY <1>1, <1>2, <2>3, <3>1
    <3>2. CASE l # 3
      BY <1>1, <2>1, <2>2, <3>2
    <3> QED
      BY <3>1, <3>2
  <2>5. c = p
    BY <1>2, <1>3, <2>3, <2>4 DEF LabelsUnique
  <2>6. q # 0
    BY <1>2, <2>1
  <2> QED
    BY <2>3, <2>5, <2>6 DEF e
<1> QED
    BY <1>4, <1>5, <1>6 DEF e, j

\* A PML4 is where the walk starts.
LEMMA WalkStart ==
    ASSUME NEW mm, NEW g, NEW R, NEW O, NEW M, Good(mm, g, R, O, M), NEW r \in R, NEW a
    PROVE  r \in Pages /\ At(g, r, r, a, 4)
<1>1. r \in Pages /\ g[r].kind = 4 /\ g[r].root = r /\ g[r].base = 0
    BY GoodParts
<1> QED
    BY <1>1 DEF At, Base

\* A walk ends at the page whose label has the PML4 and the page number, or
\* nowhere.
LEMMA WalkEnds ==
    ASSUME NEW mm, NEW g, NEW R, NEW O, NEW M, Good(mm, g, R, O, M), NEW r \in R, NEW a \in 0 .. UserEnd - 1
    PROVE  LET w == Walk(mm, r, a) IN
           /\ w # 0 => w \in Pages /\ At(g, w, r, a, 0)
           /\ \A q \in Pages : At(g, q, r, a, 0) => w = q /\ q # 0
<1> DEFINE Entry(table, level) == IF table = 0 THEN 0 ELSE mm.word[table][Index(a, level)]
           t3 == Entry(r, 3)
           t2 == Entry(t3, 2)
           t1 == Entry(t2, 1)
           t0 == Entry(t1, 0)
<1>1. Walk(mm, r, a) = t0
    BY DEF Walk
<1>2. r \in Pages /\ At(g, r, r, a, 3 + 1)
    BY WalkStart
<1>3. /\ t3 # 0 => t3 \in Pages /\ At(g, t3, r, a, 3)
      /\ \A q \in Pages : At(g, q, r, a, 3) => t3 = q /\ q # 0
  <2>1. 3 \in 0 .. 3
    OBVIOUS
  <2> QED
    BY <1>2, <2>1, WalkStep
<1> HIDE DEF t3
<1>4. /\ t2 # 0 => t3 # 0 /\ t2 \in Pages /\ At(g, t2, r, a, 2)
      /\ t3 # 0 => \A q \in Pages : At(g, q, r, a, 2) => t2 = q /\ q # 0
  <2>1. 2 \in 0 .. 3 /\ 2 + 1 = 3
    OBVIOUS
  <2> QED
    BY <1>3, <2>1, WalkStep
<1> HIDE DEF t2
<1>5. /\ t1 # 0 => t2 # 0 /\ t1 \in Pages /\ At(g, t1, r, a, 1)
      /\ t2 # 0 => \A q \in Pages : At(g, q, r, a, 1) => t1 = q /\ q # 0
  <2>1. 1 \in 0 .. 3 /\ 1 + 1 = 2
    OBVIOUS
  <2> QED
    BY <1>4, <2>1, WalkStep
<1> HIDE DEF t1
<1>6. /\ t0 # 0 => t1 # 0 /\ t0 \in Pages /\ At(g, t0, r, a, 0)
      /\ t1 # 0 => \A q \in Pages : At(g, q, r, a, 0) => t0 = q /\ q # 0
  <2>1. 0 \in 0 .. 3 /\ 0 + 1 = 1
    OBVIOUS
  <2> QED
    BY <1>5, <2>1, WalkStep
<1> HIDE DEF t0
<1>7. ASSUME NEW q \in Pages, At(g, q, r, a, 0) PROVE t1 # 0
  <2>1. \A l \in 0 .. 2 : \A c \in Pages : At(g, c, r, a, l) => \E b \in Pages : At(g, b, r, a, l + 1)
    <3> SUFFICES ASSUME NEW l \in 0 .. 2, NEW c \in Pages, At(g, c, r, a, l)
                 PROVE  \E b \in Pages : At(g, b, r, a, l + 1)
      OBVIOUS
    <3>1. PagesReached(mm, g) /\ g[c].kind = l /\ g[c].root = r /\ g[c].base = Base(a, l)
      BY GoodParts DEF At
    <3>2. \E b \in Pages : g[b].kind = l + 1 /\ g[b].root = r /\ g[b].base = Base(a, l) \div PAGE_SIZE
      BY <3>1 DEF PagesReached
    <3>3. l \in 0 .. 3 /\ l # 3
      OBVIOUS
    <3>4. Base(a, l) \div PAGE_SIZE = Base(a, l + 1)
      BY <3>3, Bases
    <3> QED
      BY <3>2, <3>4 DEF At
  <2>2. 0 \in 0 .. 2 /\ 1 \in 0 .. 2 /\ 2 \in 0 .. 2 /\ 0 + 1 = 1 /\ 1 + 1 = 2 /\ 2 + 1 = 3
    OBVIOUS
  <2>3. PICK c1 \in Pages : At(g, c1, r, a, 1)
    BY <1>7, <2>1, <2>2
  <2>4. PICK c2 \in Pages : At(g, c2, r, a, 2)
    BY <2>1, <2>2, <2>3
  <2>5. PICK c3 \in Pages : At(g, c3, r, a, 3)
    BY <2>1, <2>2, <2>4
  <2> QED
    BY <1>3, <1>4, <1>5, <2>3, <2>4, <2>5
<1> QED
    BY <1>1, <1>6, <1>7

\* A number below c has no multiple of c in it.
LEMMA SmallQuotient ==
    ASSUME NEW c \in Nat \ {0}, NEW x \in Nat, x < c
    PROVE  x \div c = 0
    OBVIOUS

Put(M, x, w) == [y \in DOMAIN M \cup {x} |-> IF y = x THEN w ELSE M[y]]

\* A mapping after the entry for a at level l is made to lead to a page that holds w.
Linked(M, r, a, l, w) == IF l = 0 THEN Put(M, <<r, PageNumber(a)>>, w) ELSE M

\* In x an entry of page p leads to page n.
LinkMade(mm, x, R, O, M, r, a, l, p, n) ==
    /\ \E h : Good(x, h, R, O \ {n}, M) /\ At(h, n, r, a, l)
    /\ x.slab = mm.slab /\ n # p /\ \A q \in Pages \ {p} : x.word[q] = mm.word[q]

\* An empty entry is made to lead to a page of the kernel's, which is empty
\* if it is to be a table.
LEMMA PageLinked ==
    ASSUME NEW mm, NEW g, NEW R, NEW O, NEW M, Good(mm, g, R, O, M),
           NEW r \in R, NEW a \in 0 .. UserEnd - 1, NEW l \in 0 .. 3, NEW p \in Pages, At(g, p, r, a, l + 1),
           mm.word[p][Index(a, l)] = 0, NEW n \in O, l # 0 => mm.word[n] = Zeroed,
           NEW x, x = WithEntry(mm, p, Index(a, l), n)
    PROVE  LinkMade(mm, x, R, O, Linked(M, r, a, l, mm.word[n]), r, a, l, p, n)
<1> DEFINE j == Index(a, l)
           v == [mm.word[p] EXCEPT ![j] = n]
           b == Base(a, l)
           h == [g EXCEPT ![n] = [kind |-> l, root |-> r, base |-> b]]
           N == Linked(M, r, a, l, mm.word[n])
<1>1. /\ b \in Nat /\ j \in Slots /\ Base(a, l + 1) \in Nat
      /\ b = Base(a, l + 1) * PAGE_SIZE + j
      /\ b % PAGE_SIZE = j
      /\ l # 3 => b \div PAGE_SIZE = Base(a, l + 1)
      /\ l = 3 => j < Half
      /\ Base(a, 4) = 0 /\ Base(a, 0) = PageNumber(a)
    BY Bases
<1>2. /\ mm \in Mems /\ g \in [Pages -> Labels] /\ NoPanic(mm)
      /\ \A q \in Pages : g[q].kind \in 0 .. 7 /\ g[q].root \in Pages /\ g[q].base \in Nat
      /\ \A q \in Pages : g[q].kind = 4 <=> q \in R
      /\ \A q \in Pages : g[q].kind = 5 <=> q \in O
      /\ \A q \in Pages : g[q].kind = 4 => g[q].root = q /\ g[q].base = 0
      /\ \A q \in Pages : g[q].kind # 7 => q # 0
      /\ R \subseteq Pages /\ O \subseteq Pages
      /\ StatusOK(mm, g) /\ RootsOK(g) /\ EntriesLead(mm, g) /\ PagesReached(mm, g) /\ LabelsUnique(g)
      /\ SlabsOK(mm, g) /\ ContentsAre(mm, g, M)
    BY GoodParts
<1>3. g[p].kind = l + 1 /\ g[p].root = r /\ g[p].base = Base(a, l + 1)
    BY DEF At
<1>4. IsEntry(g, p, j) /\ \A q \in Pages : ~ At(g, q, r, a, l)
  <2>1. IsEntry(g, p, Index(a, l)) /\ \A q \in Pages : At(g, q, r, a, l) => mm.word[p][Index(a, l)] = q /\ q # 0
    BY WalkStep
  <2> QED
    BY <2>1
<1>5. n \in Pages /\ g[n].kind = 5 /\ n # p /\ n # 0 /\ r \in Pages /\ g[r].kind = 4 /\ r # n
    BY <1>2, <1>3
<1>6. mm.word \in [Pages -> [Slots -> Int]] /\ mm.word[p] \in [Slots -> Int] /\ mm.word[p][j] = 0
    BY <1>2 DEF Mems
<1>7. v \in [Slots -> Int] /\ v[j] = n /\ \A i \in Slots \ {j} : v[i] = mm.word[p][i]
  <2>1. n \in Int
    BY <1>5, MemoryConstants DEF Pages
  <2> QED
    BY <1>1, <1>6, <2>1
<1>8. /\ h \in [Pages -> Labels] /\ h[n].kind = l /\ h[n].root = r /\ h[n].base = b
      /\ \A q \in Pages \ {n} : h[q] = g[q]
    BY <1>1, <1>2, <1>5 DEF Labels
<1>9. x = WithWord(mm, p, v)
    BY DEF WithWord, WithEntry
<1> HIDE DEF v, h
<1>10. /\ x \in Mems /\ x.panic = mm.panic /\ x.slab = mm.slab
       /\ x.status = mm.status /\ x.kmem_used_pages = mm.kmem_used_pages
       /\ x.word[p] = v /\ \A q \in Pages \ {p} : x.word[q] = mm.word[q]
  <2> DEFINE y == WithWord(mm, p, v)
  <2>1. /\ y \in Mems /\ y.panic = mm.panic /\ y.slab = mm.slab
        /\ y.status = mm.status /\ y.kmem_used_pages = mm.kmem_used_pages
        /\ y.word[p] = v /\ \A q \in Pages \ {p} : y.word[q] = mm.word[q]
    BY <1>2, <1>7, WordSet
  <2> QED
    BY <1>9, <2>1
<1>11. StatusOK(x, h)
  <2>1. \A q \in Pages : h[q].kind # 7 <=> g[q].kind # 7
    BY <1>5, <1>8
  <2>2. UsedPages(x) = UsedPages(mm)
    BY <1>10 DEF UsedPages
  <2> QED
    BY <1>2, <1>10, <2>1, <2>2 DEF StatusOK
<1>12. RootsOK(h)
    BY <1>2, <1>5, <1>8 DEF RootsOK
<1> HIDE DEF j, b
<1>13. EntriesLead(x, h)
  <2> SUFFICES ASSUME NEW q \in Pages, NEW i \in Slots, IsEntry(h, q, i), x.word[q][i] # 0
               PROVE  LET c == x.word[q][i]
                      IN /\ c \in Pages
                         /\ h[c].kind = h[q].kind - 1 /\ h[c].root = h[q].root
                         /\ h[c].base = h[q].base * PAGE_SIZE + i
    BY DEF EntriesLead
  <2>1. CASE q = n
    <3>1. l # 0
      BY <1>8, <2>1 DEF IsEntry
    <3>2. x.word[n][i] = 0
      BY <1>5, <1>10, <3>1 DEF Zeroed
    <3> QED
      BY <2>1, <3>2
  <2>2. CASE q = p /\ i = j
    <3>1. x.word[q][i] = n
      BY <1>7, <1>10, <2>2
    <3>2. h[q].kind = l + 1 /\ h[q].root = r /\ h[q].base = Base(a, l + 1)
      BY <1>3, <1>5, <1>8, <2>2
    <3>3. h[n].kind = h[q].kind - 1
      BY <1>8, <3>2
    <3> QED
      BY <1>1, <1>5, <1>8, <2>2, <3>1, <3>2, <3>3
  <2>3. CASE q # n /\ ~ (q = p /\ i = j)
    <3>1. h[q] = g[q] /\ x.word[q][i] = mm.word[q][i]
      BY <1>7, <1>8, <1>10, <2>3
    <3>2. IsEntry(g, q, i) /\ mm.word[q][i] # 0
      BY <3>1 DEF IsEntry
    <3>3. /\ mm.word[q][i] \in Pages
          /\ g[mm.word[q][i]].kind = g[q].kind - 1 /\ g[mm.word[q][i]].root = g[q].root
          /\ g[mm.word[q][i]].base = g[q].base * PAGE_SIZE + i
      BY <1>2, <3>2 DEF EntriesLead
    <3>4. mm.word[q][i] # n
      BY <1>5, <3>2, <3>3 DEF IsEntry
    <3> QED
      BY <1>8, <3>1, <3>3, <3>4
  <2> QED
    BY <2>1, <2>2, <2>3
<1>14. PagesReached(x, h)
  <2> SUFFICES ASSUME NEW q \in Pages, h[q].kind \in 0 .. 3
               PROVE  \E c \in Pages : /\ h[c].kind = h[q].kind + 1 /\ h[c].root = h[q].root
                                       /\ h[c].base = h[q].base \div PAGE_SIZE
                                       /\ IsEntry(h, c, h[q].base % PAGE_SIZE)
                                       /\ x.word[c][h[q].base % PAGE_SIZE] = q
    BY DEF PagesReached
  <2>1. CASE q = n
    <3>1. h[p].kind = l + 1 /\ h[p].root = r /\ h[p].base = Base(a, l + 1) /\ IsEntry(h, p, j)
      BY <1>3, <1>4, <1>5, <1>8 DEF IsEntry
    <3>2. x.word[p][j] = n
      BY <1>7, <1>10
    <3>3. h[p].base = b \div PAGE_SIZE
      <4>1. CASE l = 3
        <5>1. h[p].base = 0 /\ b = j /\ b < Half
          <6>1. h[p].base = 0 /\ Base(a, l + 1) = 0
            BY <1>1, <3>1, <4>1
          <6>2. 0 * PAGE_SIZE = 0 /\ j \in Nat
            BY <1>1, MemoryConstants DEF Slots
          <6> QED
            BY <1>1, <4>1, <6>1, <6>2
        <5>2. b \div PAGE_SIZE = 0
          <6>1. b \in Nat /\ b < PAGE_SIZE /\ PAGE_SIZE \in Nat \ {0}
            BY <1>1, <5>1, MemoryConstants
          <6> QED
            BY <6>1, SmallQuotient
        <5> QED
          BY <5>1, <5>2
      <4>2. CASE l # 3
        BY <1>1, <3>1, <4>2
      <4> QED
        BY <4>1, <4>2
    <3> QED
      BY <1>1, <1>8, <2>1, <3>1, <3>2, <3>3
  <2>2. CASE q # n
    <3>1. h[q] = g[q]
      BY <1>8, <2>2
    <3>2. PICK c \in Pages : /\ g[c].kind = g[q].kind + 1 /\ g[c].root = g[q].root
                             /\ g[c].base = g[q].base \div PAGE_SIZE
                             /\ IsEntry(g, c, g[q].base % PAGE_SIZE)
                             /\ mm.word[c][g[q].base % PAGE_SIZE] = q
      BY <1>2, <3>1 DEF PagesReached
    <3>3. c # n
      BY <1>5, <3>1, <3>2
    <3>4. h[c] = g[c]
      BY <1>8, <3>3
    <3>5. x.word[c][g[q].base % PAGE_SIZE] = q
      <4>1. g[q].base % PAGE_SIZE \in Slots
        <5>1. g[q].base \in Nat /\ PAGE_SIZE \in Nat \ {0}
          BY <1>2, MemoryConstants
        <5> QED
          BY <5>1, DivMod DEF Slots
      <4>2. q # 0
        BY <1>2, <3>1
      <4>3. CASE c = p
        <5>1. g[q].base % PAGE_SIZE # j
          BY <1>6, <3>2, <4>2, <4>3
        <5> QED
          BY <1>7, <1>10, <3>2, <4>1, <4>3, <5>1
      <4>4. CASE c # p
        BY <1>10, <3>2, <4>4
      <4> QED
        BY <4>3, <4>4
    <3> QED
      BY <3>1, <3>2, <3>4, <3>5 DEF IsEntry
  <2> QED
    BY <2>1, <2>2
<1>15. LabelsUnique(h)
  <2>1. \A q \in Pages : ~ (g[q].kind = l /\ g[q].root = r /\ g[q].base = b)
    BY <1>4 DEF At, b
  <2> QED
    BY <1>2, <1>8, <2>1 DEF LabelsUnique
<1>16. SlabsOK(x, h)
  <2>1. \A c \in Allocators : \A i \in DOMAIN mm.slab[c].pages : mm.slab[c].pages[i] \in Pages
    BY <1>2, SlabPages
  <2>2. \A q \in Pages : g[q].kind = 6 => h[q].kind = 6
    BY <1>5, <1>8
  <2>3. \A q \in Pages : h[q].kind = 6 => g[q].kind = 6
    BY <1>5, <1>8
  <2> QED
    BY <1>2, <1>10, <2>1, <2>2, <2>3 DEF SlabsOK
<1>17. ContentsAre(x, h, N)
  <2>1. x.word[n] = mm.word[n]
    BY <1>5, <1>10
  <2>2. CASE l # 0
    <3>1. N = M
      BY <2>2 DEF Linked
    <3>2. \A q \in Pages : g[q].kind = 0 \/ h[q].kind = 0 => h[q] = g[q] /\ x.word[q] = mm.word[q]
      BY <1>3, <1>5, <1>8, <1>10, <2>2
    <3> QED
      BY <1>2, <3>1, <3>2 DEF ContentsAre
  <2>3. CASE l = 0
    <3> DEFINE y == <<r, b>>
    <3>1. N = Put(M, y, mm.word[n])
      BY <1>1, <2>3 DEF Linked, b
    <3>2. y \notin DOMAIN M
      <4> SUFFICES ASSUME y \in DOMAIN M PROVE FALSE
        OBVIOUS
      <4>1. PICK q \in Pages : g[q].kind = 0 /\ y = <<g[q].root, g[q].base>>
        BY <1>2 DEF ContentsAre
      <4> QED
        BY <1>4, <2>3, <4>1 DEF At, b
    <3>3. DOMAIN N = DOMAIN M \cup {y} /\ N[y] = mm.word[n] /\ (\A z \in DOMAIN M : N[z] = M[z])
          /\ N = [z \in DOMAIN N |-> N[z]]
      BY <3>1, <3>2 DEF Put
    <3>4. \A q \in Pages \ {n} : g[q].kind = 0 => x.word[q] = mm.word[q]
      BY <1>3, <1>10, <2>3
    <3> HIDE DEF N
    <3>5. ASSUME NEW z \in DOMAIN N PROVE \E q \in Pages : h[q].kind = 0 /\ z = <<h[q].root, h[q].base>>
      <4>1. CASE z = y
        BY <1>5, <1>8, <2>3, <4>1
      <4>2. CASE z \in DOMAIN M
        <5>1. PICK q \in Pages : g[q].kind = 0 /\ z = <<g[q].root, g[q].base>>
          BY <1>2, <4>2 DEF ContentsAre
        <5>2. q # n
          BY <1>5, <5>1
        <5> QED
          BY <1>8, <5>1, <5>2
      <4> QED
        BY <3>3, <4>1, <4>2
    <3>6. ASSUME NEW q \in Pages, h[q].kind = 0
          PROVE  <<h[q].root, h[q].base>> \in DOMAIN N /\ N[<<h[q].root, h[q].base>>] = x.word[q]
      <4>1. CASE q = n
        <5>1. <<h[q].root, h[q].base>> = y
          BY <1>8, <4>1
        <5> QED
          BY <2>1, <3>3, <4>1, <5>1
      <4>2. CASE q # n
        <5>1. h[q] = g[q]
          BY <1>8, <4>2
        <5>2. <<g[q].root, g[q].base>> \in DOMAIN M /\ M[<<g[q].root, g[q].base>>] = mm.word[q]
          BY <1>2, <3>6, <5>1 DEF ContentsAre
        <5>3. x.word[q] = mm.word[q]
          BY <3>4, <3>6, <4>2, <5>1
        <5> QED
          BY <3>3, <5>1, <5>2, <5>3
      <4> QED
        BY <4>1, <4>2
    <3> QED
      BY <3>3, <3>5, <3>6 DEF ContentsAre
  <2> QED
    BY <2>2, <2>3
<1>18. R = {q \in Pages : h[q].kind = 4} /\ O \ {n} = {q \in Pages : h[q].kind = 5}
    BY <1>2, <1>5, <1>8
<1>19. At(h, n, r, a, l)
    BY <1>8 DEF At, b
<1>20. NoPanic(x)
    BY <1>2, <1>10 DEF NoPanic
<1> HIDE DEF N
<1>21. Good(x, h, R, O \ {n}, N)
    BY <1>8, <1>10, <1>11, <1>12, <1>13, <1>14, <1>15, <1>16, <1>17, <1>18, <1>20 DEF Good
<1> QED
    BY <1>5, <1>10, <1>19, <1>21 DEF N, LinkMade

\* After a panic pages are still handed out, to nobody's use.
LEMMA AllocPanics ==
    ASSUME NEW mm, Panicked(mm)
    PROVE  /\ \A n : Panicked(kpage_alloc(mm, n).mm)
           /\ Panicked(AllocZeroed(mm).mm)
           /\ \A p, j, e : Panicked(WithEntry(mm, p, j, e))
<1>1. ASSUME NEW n PROVE Panicked(kpage_alloc(mm, n).mm)
  <2> DEFINE runs == {i \in Pages : /\ i + n <= kmem_total_pages
                                    /\ \A j \in i .. i + n - 1 : mm.status[j] = "KPAGE_FREE"}
             first == Min(runs)
             st == [i \in Pages |-> IF i \in first .. first + n - 1 THEN "KPAGE_USED" ELSE mm.status[i]]
             c == mm.kmem_used_pages + n
  <2>1. \/ kpage_alloc(mm, n).mm = [mm EXCEPT !.panic = TRUE]
        \/ kpage_alloc(mm, n).mm = [mm EXCEPT !.status = st, !.kmem_used_pages = c]
    BY DEF kpage_alloc
  <2> HIDE DEF st, c
  <2>2. CASE kpage_alloc(mm, n).mm = [mm EXCEPT !.panic = TRUE]
    BY <2>2 DEF Panicked, Shaped
  <2>3. CASE kpage_alloc(mm, n).mm = [mm EXCEPT !.status = st, !.kmem_used_pages = c]
    BY <2>3 DEF Panicked, Shaped
  <2> QED
    BY <2>1, <2>2, <2>3
<1>2. Panicked(AllocZeroed(mm).mm)
  <2> DEFINE b == kpage_alloc(mm, 1)
  <2>1. b = [page |-> b.page, mm |-> b.mm]
    BY DEF kpage_alloc
  <2>2. AllocZeroed(mm).mm = WithWord(b.mm, b.page, Zeroed)
    BY <2>1 DEF AllocZeroed, WithWord
  <2> HIDE DEF b
  <2> QED
    BY <1>1, <2>2, PanicStays DEF b
<1>3. \A p, j, e : Panicked(WithEntry(mm, p, j, e))
    BY DEF WithEntry, Panicked, Shaped
<1> QED
    BY <1>1, <1>2, <1>3

\* What set_page_mapping carries from level to level.
Step(s) == s = [table |-> s.table, mm |-> s.mm]

\* The walk from r to a has come to the table of s, with l levels to go, and
\* page d is still empty.
Chain(s, R, O, M, r, a, l, d) ==
    /\ Step(s) /\ s.table \in Pages /\ s.mm.word[d] = Zeroed
    /\ \E g : Good(s.mm, g, R, O, M) /\ At(g, s.table, r, a, l)

\* The walk goes on from s to n, unless the kernel panics.
Goes(s, n, R, O, M, r, a, l, d) ==
    Step(n) /\ (Panicked(n.mm) \/ (Chain(n, R, O, M, r, a, l, d) /\ n.mm.slab = s.mm.slab))

\* The next table, in both cases.
LEMMA NextCases ==
    ASSUME NEW a, NEW s, NEW l, Step(s)
    PROVE  LET n == NextTable(a, s, l)
               b == AllocZeroed(s.mm)
               e == s.mm.word[s.table][Index(a, l)]
           IN /\ Step(n)
              /\ e # 0 => n.table = e /\ n.mm = s.mm
              /\ e = 0 => n.table = b.page /\ n.mm = WithEntry(b.mm, s.table, Index(a, l), b.page)
<1> DEFINE n == NextTable(a, s, l)
           b == AllocZeroed(s.mm)
           e == s.mm.word[s.table][Index(a, l)]
<1>1. CASE e # 0
  <2>1. n = [s EXCEPT !.table = e]
    BY <1>1 DEF NextTable
  <2> HIDE DEF e, n
  <2> QED
    BY <1>1, <2>1 DEF Step, n, e
<1>2. CASE e = 0
  <2> DEFINE x == WithEntry(b.mm, s.table, Index(a, l), b.page)
  <2>1. n = [table |-> b.page, mm |-> x]
    BY <1>2 DEF NextTable, WithEntry
  <2> HIDE DEF e, x, b, n
  <2> QED
    BY <1>2, <2>1 DEF Step, n, e, x, b
<1> QED
    BY <1>1, <1>2

\* After a panic the walk goes on, nowhere.
LEMMA NextPanics ==
    ASSUME NEW a, NEW s, NEW l, Step(s), Panicked(s.mm)
    PROVE  Step(NextTable(a, s, l)) /\ Panicked(NextTable(a, s, l).mm)
<1> DEFINE n == NextTable(a, s, l)
           b == AllocZeroed(s.mm)
           e == s.mm.word[s.table][Index(a, l)]
<1>1. /\ Step(n)
      /\ e # 0 => n.table = e /\ n.mm = s.mm
      /\ e = 0 => n.table = b.page /\ n.mm = WithEntry(b.mm, s.table, Index(a, l), b.page)
    BY NextCases
<1>2. Panicked(b.mm)
    BY AllocPanics
<1> HIDE DEF n, b, e
<1>3. \A p, j, f : Panicked(WithEntry(b.mm, p, j, f))
    BY <1>2, AllocPanics
<1> QED
    BY <1>1, <1>3 DEF n

\* The walk goes on, and makes the tables that are missing.
LEMMA NextTakes ==
    ASSUME NEW R, NEW O, NEW M, NEW r \in R, NEW a \in 0 .. UserEnd - 1, NEW l \in 1 .. 3, NEW d \in O,
           NEW up, up = l + 1, NEW s, Chain(s, R, O, M, r, a, up, d)
    PROVE  Goes(s, NextTable(a, s, l), R, O, M, r, a, l, d)
<1> DEFINE n == NextTable(a, s, l)
           b == AllocZeroed(s.mm)
           i == Index(a, l)
           e == s.mm.word[s.table][i]
<1>1. Step(s) /\ s.table \in Pages /\ s.mm.word[d] = Zeroed
    BY DEF Chain
<1>2. PICK g : Good(s.mm, g, R, O, M) /\ At(g, s.table, r, a, l + 1)
    BY DEF Chain
<1>3. /\ Step(n)
      /\ e # 0 => n.table = e /\ n.mm = s.mm
      /\ e = 0 => n.table = b.page /\ n.mm = WithEntry(b.mm, s.table, i, b.page)
    BY <1>1, NextCases
<1>4. l \in 0 .. 3 /\ l # 0 /\ l + 1 \in 0 .. 4
    OBVIOUS
<1>5. e # 0 => e \in Pages /\ At(g, e, r, a, l)
    BY <1>1, <1>2, <1>4, WalkStep
<1>6. /\ g[d].kind = 5 /\ d \in Pages /\ g[s.table].kind = l + 1 /\ R \subseteq Pages /\ O \subseteq Pages
    BY <1>2, GoodParts DEF At
<1>7. d # s.table
    BY <1>6
<1> HIDE DEF n, i
<1>8. CASE e # 0
  <2> HIDE DEF e
  <2>1. Chain(n, R, O, M, r, a, l, d)
    BY <1>1, <1>2, <1>3, <1>5, <1>8 DEF Chain
  <2> QED
    BY <1>3, <1>8, <2>1 DEF n, Goes
<1>9. CASE e = 0 /\ Panicked(b.mm)
  <2>1. Panicked(n.mm)
    <3> HIDE DEF e, b
    <3> QED
      BY <1>3, <1>9, AllocPanics
  <2> QED
    BY <1>3, <2>1 DEF n, Goes
<1>10. CASE e = 0 /\ ~ Panicked(b.mm)
  <2> DEFINE Q == O \cup {b.page}
             x == b.mm
             q == b.page
             p == s.table
  <2>1. /\ q \in Pages \ (R \cup O) /\ q # 0
        /\ x.word[q] = Zeroed /\ x.slab = s.mm.slab
        /\ \A c \in Pages \ {q} : x.word[c] = s.mm.word[c]
        /\ \E h : Good(x, h, R, Q, M) /\ SameTables(g, h)
    <3>1. ZeroTaken(s.mm, g, R, O, M, x, q)
      BY <1>2, <1>10, ZeroedLabels
    <3> QED
      BY <3>1 DEF ZeroTaken
  <2>2. q \in Q /\ Q \ {q} = O
    BY <2>1
  <2>3. n.table = q /\ n.mm = WithEntry(x, p, i, q)
    BY <1>3, <1>10
  <2> HIDE DEF b, Q, x, q
  <2>4. PICK h : Good(x, h, R, Q, M) /\ SameTables(g, h)
    BY <2>1
  <2>5. h[p] = g[p] /\ At(h, p, r, a, l + 1)
    BY <1>1, <1>2, <1>4, <1>6, <2>4 DEF SameTables, At
  <2>6. h[q].kind = 5
    BY <2>1, <2>2, <2>4, GoodParts
  <2>7. q # p
    BY <1>4, <1>6, <2>5, <2>6
  <2>8. x.word[p][i] = 0
    BY <1>1, <1>10, <2>1, <2>7
  <2>9. n.mm = WithEntry(x, p, Index(a, l), q)
    BY <2>3 DEF i
  <2> DEFINE N == Linked(M, r, a, l, x.word[q])
             y == n.mm
  <2>10. N = M
    BY <1>4 DEF Linked
  <2> HIDE DEF y, N, p
  <2>11. /\ \E k : Good(y, k, R, Q \ {q}, N) /\ At(k, q, r, a, l)
         /\ y.slab = x.slab /\ \A c \in Pages \ {p} : y.word[c] = x.word[c]
    <3>1. l # 0 => x.word[q] = Zeroed
      BY <2>1
    <3>2. y = WithEntry(x, p, Index(a, l), q)
      BY <2>9 DEF y
    <3>3. p \in Pages /\ x.word[p][Index(a, l)] = 0
      BY <1>1, <2>8 DEF p, i
    <3>4. LinkMade(x, y, R, Q, Linked(M, r, a, l, x.word[q]), r, a, l, p, q)
      BY <1>4, <2>2, <2>4, <2>5, <3>1, <3>2, <3>3, PageLinked
    <3> QED
      BY <3>4 DEF N, LinkMade
  <2>12. y.word[d] = Zeroed
    <3>1. d # q /\ d # p
      BY <1>7, <2>1 DEF p
    <3> QED
      BY <1>1, <1>6, <2>1, <2>11, <3>1
  <2>13. Chain(n, R, O, M, r, a, l, d)
    BY <1>3, <2>1, <2>2, <2>3, <2>10, <2>11, <2>12 DEF Chain, y
  <2> QED
    BY <1>3, <2>1, <2>11, <2>13 DEF n, y, Goes
<1> QED
    BY <1>8, <1>9, <1>10

\* set_page_mapping, table by table.
LEMMA MappingSteps ==
    ASSUME NEW mm, NEW r, NEW a, NEW page
    PROVE  \E s3, s2, s1, s0 :
              /\ Step(s3) /\ s3.table = r /\ s3.mm = mm
              /\ s2 = NextTable(a, s3, 3) /\ s1 = NextTable(a, s2, 2) /\ s0 = NextTable(a, s1, 1)
              /\ set_page_mapping(mm, r, a, page) = WithEntry(s0.mm, s0.table, Index(a, 0), page)
<1> DEFINE s3 == [table |-> r, mm |-> mm]
           s2 == NextTable(a, s3, 3)
           s1 == NextTable(a, s2, 2)
           s0 == NextTable(a, s1, 1)
<1>1. set_page_mapping(mm, r, a, page) = WithEntry(s0.mm, s0.table, Index(a, 0), page)
    BY DEF set_page_mapping, WithEntry
<1>2. Step(s3) /\ s3.table = r /\ s3.mm = mm
    BY DEF Step
<1> HIDE DEF s3
<1> QED
    BY <1>1, <1>2

\* map_user_page as it is written.
LEMMA MapIs ==
    ASSUME NEW mm, NEW r, NEW a
    PROVE  LET n == map_user_page(mm, r, a)
               b == AllocZeroed(mm)
           IN n.page = b.page /\ n.mm = set_page_mapping(b.mm, r, a, b.page)
    BY DEF map_user_page

\* After a panic pages are still mapped.
LEMMA MapPanics ==
    ASSUME NEW mm, NEW r, NEW a, Panicked(mm)
    PROVE  Panicked(map_user_page(mm, r, a).mm)
<1> DEFINE b == AllocZeroed(mm)
<1>1. Panicked(b.mm)
    BY AllocPanics
<1>2. map_user_page(mm, r, a).mm = set_page_mapping(b.mm, r, a, b.page)
    BY MapIs
<1> HIDE DEF b
<1>3. PICK s3, s2, s1, s0 :
              /\ Step(s3) /\ s3.table = r /\ s3.mm = b.mm
              /\ s2 = NextTable(a, s3, 3) /\ s1 = NextTable(a, s2, 2) /\ s0 = NextTable(a, s1, 1)
              /\ set_page_mapping(b.mm, r, a, b.page) = WithEntry(s0.mm, s0.table, Index(a, 0), b.page)
    BY MappingSteps
<1>4. Step(s2) /\ Panicked(s2.mm)
    BY <1>1, <1>3, NextPanics
<1>5. Step(s1) /\ Panicked(s1.mm)
    BY <1>3, <1>4, NextPanics
<1>6. Panicked(s0.mm)
    BY <1>3, <1>5, NextPanics
<1> QED
    BY <1>2, <1>3, <1>6, AllocPanics

\* The page that holds address a of the address space r is the new page p.
Mapped(mm, x, p, R, O, M, r, a) ==
    /\ Ok(x, R, O, Put(M, <<r, PageNumber(a)>>, Zeroed))
    /\ x.slab = mm.slab /\ p = Walk(x, r, a) /\ p \in Pages /\ p # 0

\* map_user_page panics, or maps an empty page.
LEMMA MapTakes ==
    ASSUME NEW mm, NEW R, NEW O, NEW M, Ok(mm, R, O, M), NEW r \in R, NEW a \in 0 .. UserEnd - 1,
           <<r, PageNumber(a)>> \notin DOMAIN M
    PROVE  LET n == map_user_page(mm, r, a)
           IN Panicked(n.mm) \/ Mapped(mm, n.mm, n.page, R, O, M, r, a)
<1> DEFINE n == map_user_page(mm, r, a)
           b == AllocZeroed(mm)
           d == b.page
           Q == O \cup {d}
           y == n.mm
<1>1. PICK g : Good(mm, g, R, O, M)
    BY DEF Ok
<1>2. n.page = d /\ y = set_page_mapping(b.mm, r, a, d)
    BY MapIs
<1>3. PICK s3, s2, s1, s0 :
              /\ Step(s3) /\ s3.table = r /\ s3.mm = b.mm
              /\ s2 = NextTable(a, s3, 3) /\ s1 = NextTable(a, s2, 2) /\ s0 = NextTable(a, s1, 1)
              /\ set_page_mapping(b.mm, r, a, d) = WithEntry(s0.mm, s0.table, Index(a, 0), d)
    BY MappingSteps
<1> HIDE DEF n, y
<1> SUFFICES Panicked(y) \/ Mapped(mm, y, d, R, O, M, r, a)
    BY <1>2 DEF n, y
<1>4. \A s : Panicked(s.mm) => \A p, j, e : Panicked(WithEntry(s.mm, p, j, e))
    BY AllocPanics
<1>5. CASE Panicked(b.mm)
  <2>1. Panicked(y)
    <3>2. Step(s2) /\ Panicked(s2.mm)
      BY <1>3, <1>5, NextPanics
    <3>3. Step(s1) /\ Panicked(s1.mm)
      BY <1>3, <3>2, NextPanics
    <3>4. Panicked(s0.mm)
      BY <1>3, <3>3, NextPanics
    <3> QED
      BY <1>2, <1>3, <1>4, <3>4
  <2> QED
    BY <2>1
<1>6. CASE ~ Panicked(b.mm)
  <2>1. ZeroTaken(mm, g, R, O, M, b.mm, d)
    BY <1>1, <1>6, ZeroedLabels
  <2>2. d \in Pages \ (R \cup O) /\ d # 0 /\ b.mm.word[d] = Zeroed /\ b.mm.slab = mm.slab /\ d \in Q /\ Q \ {d} = O
    BY <2>1 DEF ZeroTaken
  <2>3. PICK h : Good(b.mm, h, R, Q, M)
    BY <2>1 DEF ZeroTaken
  <2> HIDE DEF b, d, Q
  <2>4. Chain(s3, R, Q, M, r, a, 4, d)
    <3>1. r \in Pages /\ At(h, r, r, a, 4)
      BY <2>3, WalkStart
    <3> QED
      BY <1>3, <2>2, <2>3, <3>1 DEF Chain
  <2>5. 3 \in 1 .. 3 /\ 2 \in 1 .. 3 /\ 1 \in 1 .. 3 /\ 3 + 1 = 4 /\ 2 + 1 = 3 /\ 1 + 1 = 2
    OBVIOUS
  <2>6. Step(s2) /\ (Panicked(s2.mm) \/ (Chain(s2, R, Q, M, r, a, 3, d) /\ s2.mm.slab = s3.mm.slab))
    <3>1. Goes(s3, NextTable(a, s3, 3), R, Q, M, r, a, 3, d)
      BY <2>2, <2>4, <2>5, NextTakes
    <3> QED
      BY <1>3, <3>1 DEF Goes
  <2>7. Step(s1) /\ (Panicked(s1.mm) \/ (Chain(s1, R, Q, M, r, a, 2, d) /\ s1.mm.slab = s3.mm.slab))
    <3>1. CASE Panicked(s2.mm)
      BY <1>3, <2>6, <3>1, NextPanics
    <3>2. CASE ~ Panicked(s2.mm)
      <4>1. Goes(s2, NextTable(a, s2, 2), R, Q, M, r, a, 2, d)
        BY <2>2, <2>5, <2>6, <3>2, NextTakes
      <4> QED
        BY <1>3, <2>6, <3>2, <4>1 DEF Goes
    <3> QED
      BY <3>1, <3>2
  <2>8. Step(s0) /\ (Panicked(s0.mm) \/ (Chain(s0, R, Q, M, r, a, 1, d) /\ s0.mm.slab = s3.mm.slab))
    <3>1. CASE Panicked(s1.mm)
      BY <1>3, <2>7, <3>1, NextPanics
    <3>2. CASE ~ Panicked(s1.mm)
      <4>1. Goes(s1, NextTable(a, s1, 1), R, Q, M, r, a, 1, d)
        BY <2>2, <2>5, <2>7, <3>2, NextTakes
      <4> QED
        BY <1>3, <2>7, <3>2, <4>1 DEF Goes
    <3> QED
      BY <3>1, <3>2
  <2>9. CASE Panicked(s0.mm)
    BY <1>2, <1>3, <1>4, <2>9
  <2>10. CASE ~ Panicked(s0.mm)
    <3> DEFINE x == s0.mm
               p == s0.table
    <3>1. Chain(s0, R, Q, M, r, a, 1, d) /\ x.slab = mm.slab
      BY <1>3, <2>2, <2>8, <2>10
    <3>2. p \in Pages /\ x.word[d] = Zeroed
      BY <3>1 DEF Chain
    <3>3. PICK f : Good(x, f, R, Q, M) /\ At(f, p, r, a, 0 + 1)
      BY <3>1 DEF Chain
    <3>4. 0 \in 0 .. 3
      OBVIOUS
    <3> HIDE DEF x, p
    <3>5. x.word[p][Index(a, 0)] = 0
      <4> SUFFICES ASSUME x.word[p][Index(a, 0)] # 0 PROVE FALSE
        OBVIOUS
      <4> DEFINE e == x.word[p][Index(a, 0)]
      <4>1. e \in Pages /\ At(f, e, r, a, 0)
        BY <3>2, <3>3, <3>4, WalkStep
      <4> HIDE DEF e
      <4>2. Base(a, 0) = PageNumber(a)
        BY <3>4, Bases
      <4>3. f[e].kind = 0 /\ <<f[e].root, f[e].base>> = <<r, PageNumber(a)>>
        BY <4>1, <4>2 DEF At
      <4> QED
        BY <3>3, <4>1, <4>3 DEF Good, ContentsAre
    <3>6. y = WithEntry(x, p, Index(a, 0), d)
      BY <1>2, <1>3 DEF x, p
    <3> DEFINE N == Put(M, <<r, PageNumber(a)>>, Zeroed)
    <3>7. Linked(M, r, a, 0, x.word[d]) = N
      BY <3>2 DEF Linked
    <3>8. LinkMade(x, y, R, Q, Linked(M, r, a, 0, x.word[d]), r, a, 0, p, d)
      <4>1. 0 # 0 => x.word[d] = Zeroed
        OBVIOUS
      <4> QED
        BY <2>2, <3>2, <3>3, <3>4, <3>5, <3>6, <4>1, PageLinked
    <3> HIDE DEF N
    <3>9. LinkMade(x, y, R, Q, N, r, a, 0, p, d)
      BY <3>7, <3>8
    <3>10. PICK k : Good(y, k, R, O, N) /\ At(k, d, r, a, 0)
      BY <2>2, <3>9 DEF LinkMade
    <3>11. Walk(y, r, a) = d
      BY <2>2, <3>10, WalkEnds
    <3>12. y.slab = mm.slab
      BY <3>1, <3>9 DEF LinkMade
    <3> QED
      BY <2>2, <3>10, <3>11, <3>12 DEF Mapped, Ok, N
  <2> QED
    BY <2>9, <2>10
<1> QED
    BY <1>5, <1>6

\* What is mapped is what walks lead to.
LEMMA WalkIs ==
    ASSUME NEW mm, NEW R, NEW O, NEW M, Ok(mm, R, O, M), NEW r \in R, NEW a \in 0 .. UserEnd - 1
    PROVE  LET w == Walk(mm, r, a) IN
           /\ w # 0 <=> <<r, PageNumber(a)>> \in DOMAIN M
           /\ w # 0 => w \in Pages /\ mm.word[w] = M[<<r, PageNumber(a)>>]
<1> DEFINE w == Walk(mm, r, a)
           y == <<r, PageNumber(a)>>
<1>1. PICK g : Good(mm, g, R, O, M)
    BY DEF Ok
<1>2. /\ w # 0 => w \in Pages /\ At(g, w, r, a, 0)
      /\ \A q \in Pages : At(g, q, r, a, 0) => w = q /\ q # 0
    BY <1>1, WalkEnds
<1>3. Base(a, 0) = PageNumber(a)
  <2>1. 0 \in 0 .. 3
    OBVIOUS
  <2> QED
    BY <2>1, Bases
<1> HIDE DEF w
<1>4. ASSUME w # 0 PROVE w \in Pages /\ y \in DOMAIN M /\ mm.word[w] = M[y]
  <2>1. w \in Pages /\ g[w].kind = 0 /\ <<g[w].root, g[w].base>> = y
    BY <1>2, <1>3, <1>4 DEF At
  <2> QED
    BY <1>1, <2>1 DEF Good, ContentsAre
<1>5. ASSUME y \in DOMAIN M PROVE w # 0
  <2>1. PICK q \in Pages : g[q].kind = 0 /\ y = <<g[q].root, g[q].base>>
    BY <1>1, <1>5 DEF Good, ContentsAre
  <2> QED
    BY <1>2, <1>3, <2>1 DEF At
<1> QED
    BY <1>4, <1>5 DEF w

\* A mapped page gets new contents.
LEMMA PageWritten ==
    ASSUME NEW mm, NEW R, NEW O, NEW M, Ok(mm, R, O, M), NEW r \in R, NEW a \in 0 .. UserEnd - 1,
           <<r, PageNumber(a)>> \in DOMAIN M, NEW w \in [Slots -> Int],
           NEW x, x = WithWord(mm, Walk(mm, r, a), w)
    PROVE  Ok(x, R, O, Put(M, <<r, PageNumber(a)>>, w)) /\ x.slab = mm.slab
<1> DEFINE p == Walk(mm, r, a)
           y == <<r, PageNumber(a)>>
           N == Put(M, y, w)
<1>1. PICK g : Good(mm, g, R, O, M)
    BY DEF Ok
<1>2. p # 0 /\ p \in Pages /\ At(g, p, r, a, 0)
  <2>1. p # 0
    BY WalkIs
  <2> QED
    BY <1>1, <2>1, WalkEnds
<1>3. Base(a, 0) = PageNumber(a)
  <2>1. 0 \in 0 .. 3
    OBVIOUS
  <2> QED
    BY <2>1, Bases
<1>4. g[p].kind = 0 /\ g[p].root = r /\ g[p].base = PageNumber(a)
    BY <1>2, <1>3 DEF At
<1>5. /\ mm \in Mems /\ g \in [Pages -> Labels] /\ NoPanic(mm)
      /\ StatusOK(mm, g) /\ RootsOK(g) /\ EntriesLead(mm, g) /\ PagesReached(mm, g) /\ LabelsUnique(g)
      /\ SlabsOK(mm, g) /\ ContentsAre(mm, g, M)
    BY <1>1, GoodParts
<1>6. x = WithWord(mm, p, w)
    OBVIOUS
<1> HIDE DEF p
<1>7. /\ x \in Mems /\ x.panic = mm.panic /\ x.slab = mm.slab
      /\ x.word[p] = w /\ \A q \in Pages \ {p} : x.word[q] = mm.word[q]
      /\ StatusOK(mm, g) => StatusOK(x, g)
      /\ SlabsOK(mm, g) => SlabsOK(x, g)
  <2> DEFINE z == WithWord(mm, p, w)
  <2>1. /\ z \in Mems /\ z.panic = mm.panic /\ z.slab = mm.slab
        /\ z.word[p] = w /\ \A q \in Pages \ {p} : z.word[q] = mm.word[q]
        /\ StatusOK(mm, g) => StatusOK(z, g)
        /\ SlabsOK(mm, g) => SlabsOK(z, g)
    BY <1>2, <1>5, WordSet
  <2> HIDE DEF z
  <2>2. x = z
    BY <1>6 DEF z
  <2> QED
    BY <2>1, <2>2
<1>8. EntriesLead(x, g) /\ PagesReached(x, g)
  <2>1. \A q \in Pages : g[q].kind \in 1 .. 4 => x.word[q] = mm.word[q]
    BY <1>4, <1>7
  <2>2. EntriesLead(x, g)
    BY <1>5, <2>1 DEF EntriesLead, IsEntry
  <2>3. PagesReached(x, g)
    <3> SUFFICES ASSUME NEW q \in Pages, g[q].kind \in 0 .. 3
                 PROVE  \E c \in Pages : /\ g[c].kind = g[q].kind + 1 /\ g[c].root = g[q].root
                                         /\ g[c].base = g[q].base \div PAGE_SIZE
                                         /\ IsEntry(g, c, g[q].base % PAGE_SIZE)
                                         /\ x.word[c][g[q].base % PAGE_SIZE] = q
      BY DEF PagesReached
    <3>1. PICK c \in Pages : /\ g[c].kind = g[q].kind + 1 /\ g[c].root = g[q].root
                             /\ g[c].base = g[q].base \div PAGE_SIZE
                             /\ IsEntry(g, c, g[q].base % PAGE_SIZE)
                             /\ mm.word[c][g[q].base % PAGE_SIZE] = q
      BY <1>5 DEF PagesReached
    <3>2. x.word[c] = mm.word[c]
      BY <2>1, <3>1 DEF IsEntry
    <3> QED
      BY <3>1, <3>2
  <2> QED
    BY <2>2, <2>3
<1>9. DOMAIN N = DOMAIN M /\ N[y] = w /\ (\A z \in DOMAIN M : z # y => N[z] = M[z]) /\ N = [z \in DOMAIN N |-> N[z]]
  <2>1. DOMAIN M \cup {y} = DOMAIN M
    OBVIOUS
  <2> QED
    BY <2>1 DEF Put
<1> HIDE DEF N
<1>10. ContentsAre(x, g, N)
  <2>1. \A z \in DOMAIN N : \E q \in Pages : g[q].kind = 0 /\ z = <<g[q].root, g[q].base>>
    BY <1>5, <1>9 DEF ContentsAre
  <2>2. ASSUME NEW q \in Pages, g[q].kind = 0
        PROVE  <<g[q].root, g[q].base>> \in DOMAIN N /\ N[<<g[q].root, g[q].base>>] = x.word[q]
    <3>1. <<g[q].root, g[q].base>> \in DOMAIN M /\ M[<<g[q].root, g[q].base>>] = mm.word[q]
      BY <1>5, <2>2 DEF ContentsAre
    <3>2. CASE q = p
      BY <1>4, <1>7, <1>9, <3>1, <3>2
    <3>3. CASE q # p
      <4>1. <<g[q].root, g[q].base>> # y
        BY <1>2, <1>4, <1>5, <2>2, <3>3 DEF LabelsUnique
      <4> QED
        BY <1>7, <1>9, <3>1, <3>3, <4>1
    <3> QED
      BY <3>2, <3>3
  <2> QED
    BY <1>9, <2>1, <2>2 DEF ContentsAre
<1>11. R = {q \in Pages : g[q].kind = 4} /\ O = {q \in Pages : g[q].kind = 5} /\ NoPanic(x)
    BY <1>1, <1>5, <1>7 DEF Good, NoPanic
<1>12. Good(x, g, R, O, N)
    BY <1>5, <1>7, <1>8, <1>10, <1>11 DEF Good
<1> QED
    BY <1>7, <1>12 DEF Ok, N

-----------------------------------------------------------------------------
(* The memory of a process is freed.                                       *)

\* The entries in use at one level under a PML4, and the tables they are in.
EntryLevel(mm, g, r, k) ==
    {e \in Pages \X Slots : g[e[1]].kind = k /\ g[e[1]].root = r /\ IsEntry(g, e[1], e[2]) /\ mm.word[e[1]][e[2]] # 0}

TableLevel(g, r, k) == {q \in Pages : g[q].kind = k /\ g[q].root = r}

Targets(mm, E) == {mm.word[e[1]][e[2]] : e \in E}

\* One level down.
LEMMA LevelBelow ==
    ASSUME NEW mm, NEW g, NEW R, NEW O, NEW M, Good(mm, g, R, O, M), NEW r \in R, NEW k \in 1 .. 4
    PROVE  Targets(mm, EntryLevel(mm, g, r, k)) = TableLevel(g, r, k - 1)
<1>1. /\ \A q \in Pages : g[q].kind \in 0 .. 7 /\ g[q].root \in Pages /\ g[q].base \in Nat
      /\ \A q \in Pages : g[q].kind # 7 => q # 0
      /\ EntriesLead(mm, g) /\ PagesReached(mm, g)
    BY GoodParts
<1>2. ASSUME NEW e \in EntryLevel(mm, g, r, k) PROVE mm.word[e[1]][e[2]] \in TableLevel(g, r, k - 1)
  <2>1. e[1] \in Pages /\ e[2] \in Slots /\ g[e[1]].kind = k /\ g[e[1]].root = r /\ IsEntry(g, e[1], e[2])
        /\ mm.word[e[1]][e[2]] # 0
    BY DEF EntryLevel
  <2> QED
    BY <1>1, <2>1 DEF EntriesLead, TableLevel
<1>3. ASSUME NEW q \in TableLevel(g, r, k - 1) PROVE \E e \in EntryLevel(mm, g, r, k) : q = mm.word[e[1]][e[2]]
  <2>1. q \in Pages /\ g[q].kind = k - 1 /\ g[q].root = r /\ g[q].kind \in 0 .. 3
    BY DEF TableLevel
  <2>2. PICK p \in Pages : /\ g[p].kind = g[q].kind + 1 /\ g[p].root = g[q].root
                           /\ IsEntry(g, p, g[q].base % PAGE_SIZE)
                           /\ mm.word[p][g[q].base % PAGE_SIZE] = q
    BY <1>1, <2>1 DEF PagesReached
  <2> DEFINE j == g[q].base % PAGE_SIZE
             e == <<p, j>>
  <2>3. j \in Slots
    <3>1. g[q].base \in Nat /\ PAGE_SIZE \in Nat \ {0}
      BY <1>1, <2>1, MemoryConstants
    <3> QED
      BY <3>1, DivMod DEF Slots
  <2>4. q # 0 /\ g[p].kind = k
    BY <1>1, <2>1, <2>2
  <2> HIDE DEF j
  <2>5. e \in EntryLevel(mm, g, r, k)
    BY <2>1, <2>2, <2>3, <2>4 DEF EntryLevel, j
  <2> QED
    BY <2>2, <2>5 DEF j
<1> QED
  <2>1. \A t : t \in Targets(mm, EntryLevel(mm, g, r, k)) => t \in TableLevel(g, r, k - 1)
    BY <1>2 DEF Targets
  <2>2. \A t : t \in TableLevel(g, r, k - 1) => t \in Targets(mm, EntryLevel(mm, g, r, k))
    BY <1>3 DEF Targets
  <2> QED
    BY <2>1, <2>2

\* All the entries of a process, as free_userspace_memory finds them.
LEMMA EntriesFound ==
    ASSUME NEW mm, NEW g, NEW R, NEW O, NEW M, Good(mm, g, R, O, M), NEW r \in R
    PROVE  UserEntries(mm, r) = EntryLevel(mm, g, r, 4) \cup EntryLevel(mm, g, r, 3)
                                \cup EntryLevel(mm, g, r, 2) \cup EntryLevel(mm, g, r, 1)
<1> DEFINE E(k) == EntryLevel(mm, g, r, k)
<1>1. /\ \A q \in Pages : g[q].kind = 4 => g[q].root = q
      /\ r \in Pages /\ g[r].kind = 4 /\ g[r].root = r
    BY GoodParts
<1>2. InUse(mm, {r}, 0 .. PAGE_SIZE \div 2 - 1) = E(4)
  <2>1. \A j : j \in 0 .. PAGE_SIZE \div 2 - 1 <=> j \in Slots /\ j < Half
    BY MemoryConstants DEF Half, Slots
  <2>2. \A e : e \in {r} \X (0 .. PAGE_SIZE \div 2 - 1) <=> e \in Pages \X Slots /\ e[1] = r /\ e[2] < Half
    BY <1>1, <2>1
  <2>3. \A e \in Pages \X Slots : g[e[1]].kind = 4 /\ g[e[1]].root = r /\ IsEntry(g, e[1], e[2]) <=> e[1] = r /\ e[2] < Half
    BY <1>1 DEF IsEntry
  <2> QED
    BY <2>2, <2>3 DEF InUse, EntryLevel
<1>3. ASSUME NEW k \in 1 .. 3 PROVE InUse(mm, TableLevel(g, r, k), Slots) = E(k)
  <2>1. \A e \in Pages \X Slots : g[e[1]].kind = k => IsEntry(g, e[1], e[2])
    BY DEF IsEntry
  <2> QED
    BY <2>1 DEF InUse, EntryLevel, TableLevel
<1>4. ASSUME NEW k \in 1 .. 3 PROVE Below(mm, E(k + 1)) = E(k)
  <2>1. k + 1 \in 1 .. 4 /\ (k + 1) - 1 = k
    OBVIOUS
  <2>2. Targets(mm, E(k + 1)) = TableLevel(g, r, k)
    BY <2>1, LevelBelow
  <2> QED
    BY <1>3, <2>2 DEF Below, Targets
<1>5. Below(mm, E(4)) = E(3) /\ Below(mm, E(3)) = E(2) /\ Below(mm, E(2)) = E(1)
  <2>1. 1 \in 1 .. 3 /\ 2 \in 1 .. 3 /\ 3 \in 1 .. 3 /\ 1 + 1 = 2 /\ 2 + 1 = 3 /\ 3 + 1 = 4
    OBVIOUS
  <2> QED
    BY <1>4, <2>1
<1> HIDE DEF E
<1>6. UserEntries(mm, r) = E(4) \cup E(3) \cup E(2) \cup E(1)
    BY <1>2, <1>5 DEF UserEntries
<1> QED
    BY <1>6 DEF E

\* Those entries, and the pages they lead to: one page each.
LEMMA EntriesAre ==
    ASSUME NEW mm, NEW g, NEW R, NEW O, NEW M, Good(mm, g, R, O, M), NEW r \in R
    PROVE  LET E == UserEntries(mm, r) IN
           /\ E \subseteq Pages \X Slots
           /\ \A e \in Pages \X Slots :
                 e \in E <=> g[e[1]].root = r /\ IsEntry(g, e[1], e[2]) /\ mm.word[e[1]][e[2]] # 0
           /\ \A q : q \in Targets(mm, E) <=> q \in Pages /\ g[q].kind \in 0 .. 3 /\ g[q].root = r
           /\ \A c, e \in E : mm.word[c[1]][c[2]] = mm.word[e[1]][e[2]] => c = e
           /\ Cardinality(E) = Cardinality(Targets(mm, E))
<1> DEFINE L(k) == EntryLevel(mm, g, r, k)
           E == UserEntries(mm, r)
           T == Targets(mm, E)
<1>1. /\ \A q \in Pages : g[q].kind \in 0 .. 7 /\ g[q].root \in Pages /\ g[q].base \in Nat
      /\ EntriesLead(mm, g) /\ LabelsUnique(g)
    BY GoodParts
<1>2. E = L(4) \cup L(3) \cup L(2) \cup L(1)
    BY EntriesFound
<1> HIDE DEF E
<1>3. E \subseteq Pages \X Slots
    BY <1>2 DEF EntryLevel
<1>4. \A e \in Pages \X Slots : e \in E <=> g[e[1]].root = r /\ IsEntry(g, e[1], e[2]) /\ mm.word[e[1]][e[2]] # 0
  <2>1. \A k \in Int : k \in 1 .. 4 <=> k = 1 \/ k = 2 \/ k = 3 \/ k = 4
    OBVIOUS
  <2> QED
    BY <1>1, <1>2, <2>1 DEF EntryLevel, IsEntry
<1>5. \A q : q \in T <=> q \in Pages /\ g[q].kind \in 0 .. 3 /\ g[q].root = r
  <2>1. T = Targets(mm, L(4)) \cup Targets(mm, L(3)) \cup Targets(mm, L(2)) \cup Targets(mm, L(1))
    <3> HIDE DEF L
    <3> QED
      BY <1>2 DEF Targets
  <2>2. Targets(mm, L(4)) = TableLevel(g, r, 3) /\ Targets(mm, L(3)) = TableLevel(g, r, 2)
        /\ Targets(mm, L(2)) = TableLevel(g, r, 1) /\ Targets(mm, L(1)) = TableLevel(g, r, 0)
    <3>1. 1 \in 1 .. 4 /\ 2 \in 1 .. 4 /\ 3 \in 1 .. 4 /\ 4 \in 1 .. 4 /\ 1 - 1 = 0 /\ 2 - 1 = 1 /\ 3 - 1 = 2 /\ 4 - 1 = 3
      OBVIOUS
    <3> QED
      BY <3>1, LevelBelow
  <2>3. \A q \in Pages : g[q].kind \in 0 .. 3 <=> g[q].kind = 0 \/ g[q].kind = 1 \/ g[q].kind = 2 \/ g[q].kind = 3
    BY <1>1
  <2> HIDE DEF L, T
  <2> QED
    BY <2>1, <2>2, <2>3 DEF TableLevel
<1>6. ASSUME NEW c \in E, NEW e \in E, mm.word[c[1]][c[2]] = mm.word[e[1]][e[2]] PROVE c = e
  <2> DEFINE q == mm.word[c[1]][c[2]]
  <2>1. /\ c[1] \in Pages /\ c[2] \in Slots /\ IsEntry(g, c[1], c[2]) /\ mm.word[c[1]][c[2]] # 0 /\ c = <<c[1], c[2]>>
        /\ e[1] \in Pages /\ e[2] \in Slots /\ IsEntry(g, e[1], e[2]) /\ mm.word[e[1]][e[2]] # 0 /\ e = <<e[1], e[2]>>
    BY <1>3, <1>4
  <2>2. /\ g[q].kind = g[c[1]].kind - 1 /\ g[q].root = g[c[1]].root /\ g[q].base = g[c[1]].base * PAGE_SIZE + c[2]
        /\ g[q].kind = g[e[1]].kind - 1 /\ g[q].root = g[e[1]].root /\ g[q].base = g[e[1]].base * PAGE_SIZE + e[2]
    BY <1>1, <1>6, <2>1 DEF EntriesLead
  <2> HIDE DEF q
  <2>3. g[c[1]].kind = g[e[1]].kind /\ g[c[1]].kind \in 0 .. 4
    BY <1>1, <2>1, <2>2 DEF IsEntry
  <2>4. PAGE_SIZE \in Nat \ {0} /\ g[c[1]].base \in Nat /\ g[e[1]].base \in Nat
        /\ c[2] \in 0 .. PAGE_SIZE - 1 /\ e[2] \in 0 .. PAGE_SIZE - 1
    BY <1>1, <2>1, MemoryConstants DEF Slots
  <2>5. g[q].base \div PAGE_SIZE = g[c[1]].base /\ g[q].base % PAGE_SIZE = c[2]
    <3> DEFINE u == g[c[1]].base
               j == c[2]
               v == g[q].base
    <3>1. v = u * PAGE_SIZE + j /\ u \in Nat /\ j \in 0 .. PAGE_SIZE - 1 /\ PAGE_SIZE \in Nat \ {0}
      BY <2>2, <2>4
    <3> HIDE DEF u, j, v
    <3>2. v \div PAGE_SIZE = u /\ v % PAGE_SIZE = j
      BY <3>1, DivUnique
    <3> QED
      BY <3>2 DEF u, j, v
  <2>6. g[q].base \div PAGE_SIZE = g[e[1]].base /\ g[q].base % PAGE_SIZE = e[2]
    <3> DEFINE u == g[e[1]].base
               j == e[2]
               v == g[q].base
    <3>1. v = u * PAGE_SIZE + j /\ u \in Nat /\ j \in 0 .. PAGE_SIZE - 1 /\ PAGE_SIZE \in Nat \ {0}
      BY <2>2, <2>4
    <3> HIDE DEF u, j, v
    <3>2. v \div PAGE_SIZE = u /\ v % PAGE_SIZE = j
      BY <3>1, DivUnique
    <3> QED
      BY <3>2 DEF u, j, v
  <2>7. c[1] = e[1]
    BY <1>1, <2>1, <2>2, <2>3, <2>5, <2>6 DEF LabelsUnique
  <2> QED
    BY <2>1, <2>5, <2>6, <2>7
<1>7. Cardinality(E) = Cardinality(T)
  <2> DEFINE f == [e \in E |-> mm.word[e[1]][e[2]]]
  <2>2. f \in Bijection(E, T)
    <3>1. f \in [E -> T] /\ \A t \in T : \E e \in E : f[e] = t
      BY DEF Targets
    <3>2. \A c, e \in E : f[c] = f[e] => c = e
      BY <1>6
    <3> HIDE DEF f, T
    <3> QED
      BY <3>1, <3>2 DEF Bijection, Injection, Surjection, IsInjective
  <2>3. IsFiniteSet(E)
    <3>1. IsFiniteSet(Pages) /\ IsFiniteSet(Slots)
      BY MemoryConstants, FS_Interval DEF Pages, Slots
    <3>2. IsFiniteSet(Pages \X Slots)
      BY <3>1, FS_Product
    <3> QED
      BY <1>3, <3>2, FS_Subset
  <2> HIDE DEF f, T
  <2> QED
    BY <2>2, <2>3, FS_Bijection DEF ExistsBijection
<1> QED
    BY <1>3, <1>4, <1>5, <1>6, <1>7 DEF E

\* A memory in which the entries of a PML4 are cleared and their pages freed:
\* free_userspace_memory, but for the structs of the ranges.
UserCleared(mm, r) ==
    LET E == UserEntries(mm, r)
        freed == {mm.word[e[1]][e[2]] : e \in E}
    IN [mm EXCEPT !.status = [i \in Pages |-> IF i \in freed THEN "KPAGE_FREE" ELSE @[i]],
                  !.word = [i \in Pages |-> [j \in Slots |-> IF <<i, j>> \in E THEN 0 ELSE @[i][j]]],
                  !.kmem_used_pages = @ - Cardinality(E)]

\* What that leaves in the memory.
LEMMA ClearedParts ==
    ASSUME NEW mm \in Mems, NoPanic(mm), NEW r, NEW x, x = UserCleared(mm, r),
           UserEntries(mm, r) \subseteq Pages \X Slots
    PROVE  /\ x \in Mems /\ NoPanic(x) /\ x.slab = mm.slab
           /\ x.kmem_used_pages = mm.kmem_used_pages - Cardinality(UserEntries(mm, r))
           /\ \A i \in Pages : x.status[i] = IF i \in Targets(mm, UserEntries(mm, r)) THEN "KPAGE_FREE" ELSE mm.status[i]
           /\ \A i \in Pages, j \in Slots : x.word[i][j] = IF <<i, j>> \in UserEntries(mm, r) THEN 0 ELSE mm.word[i][j]
           /\ \A i \in Pages : x.word[i] \in [Slots -> Int] /\ mm.word[i] \in [Slots -> Int]
<1> DEFINE E == UserEntries(mm, r)
           T == Targets(mm, E)
           st == [i \in Pages |-> IF i \in T THEN "KPAGE_FREE" ELSE mm.status[i]]
           wd == [i \in Pages |-> [j \in Slots |-> IF <<i, j>> \in E THEN 0 ELSE mm.word[i][j]]]
           c == mm.kmem_used_pages - Cardinality(E)
<1>1. x = [mm EXCEPT !.status = st, !.word = wd, !.kmem_used_pages = c]
    BY DEF UserCleared, Targets, Mems
<1>2. IsFiniteSet(E)
  <2>1. IsFiniteSet(Pages) /\ IsFiniteSet(Slots)
    BY MemoryConstants, FS_Interval DEF Pages, Slots
  <2>2. IsFiniteSet(Pages \X Slots)
    BY <2>1, FS_Product
  <2> QED
    BY <2>2, FS_Subset
<1>3. Cardinality(E) \in Nat
    BY <1>2, FS_CardinalityType
<1> HIDE DEF E, T
<1>4. st \in [Pages -> Statuses] /\ wd \in [Pages -> [Slots -> Int]] /\ c \in Int
  <2>1. mm.kmem_used_pages \in Int /\ mm.word \in [Pages -> [Slots -> Int]] /\ mm.status \in [Pages -> Statuses]
    BY DEF Mems
  <2> QED
    BY <1>3, <2>1 DEF Statuses
<1>5. x \in Mems /\ NoPanic(x) /\ x.slab = mm.slab /\ x.kmem_used_pages = c /\ x.status = st /\ x.word = wd
  <2> HIDE DEF st, wd, c
  <2> QED
    BY <1>1, <1>4 DEF Mems, NoPanic
<1>6. \A i \in Pages : x.word[i] \in [Slots -> Int] /\ mm.word[i] \in [Slots -> Int]
    BY <1>5 DEF Mems
<1> QED
    BY <1>5, <1>6 DEF E, T

\* A mapping without the pages of one PML4.
Without(M, r) == [y \in {z \in DOMAIN M : z[1] # r} |-> M[y]]

\* Freeing the memory of a process leaves the others as they are.
LEMMA UserFreed ==
    ASSUME NEW mm, NEW R, NEW O, NEW M, Ok(mm, R, O, M), NEW r \in R, NEW x, x = UserCleared(mm, r)
    PROVE  /\ Ok(x, R, O, Without(M, r)) /\ x.slab = mm.slab
           /\ \A j \in Slots : j < Half => x.word[r][j] = 0
<1> DEFINE E == UserEntries(mm, r)
           T == Targets(mm, E)
<1>1. PICK g : Good(mm, g, R, O, M)
    BY DEF Ok
<1>2. /\ mm \in Mems /\ g \in [Pages -> Labels] /\ NoPanic(mm)
      /\ \A p \in Pages : g[p].kind \in 0 .. 7 /\ g[p].root \in Pages /\ g[p].base \in Nat
      /\ \A p \in Pages : g[p].kind = 4 <=> p \in R
      /\ \A p \in Pages : g[p].kind = 5 <=> p \in O
      /\ \A p \in Pages : g[p].kind = 4 => g[p].root = p /\ g[p].base = 0
      /\ R \subseteq Pages /\ O \subseteq Pages
      /\ \A p \in Pages : g[p].kind # 7 => p # 0
    BY <1>1, GoodParts
<1>3. /\ StatusOK(mm, g) /\ RootsOK(g) /\ EntriesLead(mm, g) /\ PagesReached(mm, g) /\ LabelsUnique(g)
      /\ SlabsOK(mm, g) /\ ContentsAre(mm, g, M)
    BY <1>1, GoodParts
<1>4. /\ E \subseteq Pages \X Slots
      /\ \A e \in Pages \X Slots :
                 e \in E <=> g[e[1]].root = r /\ IsEntry(g, e[1], e[2]) /\ mm.word[e[1]][e[2]] # 0
      /\ \A q : q \in T <=> q \in Pages /\ g[q].kind \in 0 .. 3 /\ g[q].root = r
      /\ Cardinality(E) = Cardinality(T)
    BY <1>1, EntriesAre
<1>5. \A i \in Pages, j \in Slots : <<i, j>> \in E <=> g[i].root = r /\ IsEntry(g, i, j) /\ mm.word[i][j] # 0
    BY <1>4
<1>6. /\ x \in Mems /\ NoPanic(x) /\ x.slab = mm.slab
      /\ x.kmem_used_pages = mm.kmem_used_pages - Cardinality(E)
      /\ \A i \in Pages : x.status[i] = IF i \in T THEN "KPAGE_FREE" ELSE mm.status[i]
      /\ \A i \in Pages, j \in Slots : x.word[i][j] = IF <<i, j>> \in E THEN 0 ELSE mm.word[i][j]
      /\ \A i \in Pages : x.word[i] \in [Slots -> Int] /\ mm.word[i] \in [Slots -> Int]
    BY <1>2, <1>4, ClearedParts
<1>20. ASSUME NEW i \in Pages, NEW j \in Slots
       PROVE  /\ g[i].root # r \/ ~ IsEntry(g, i, j) => x.word[i][j] = mm.word[i][j]
              /\ g[i].root = r /\ IsEntry(g, i, j) => x.word[i][j] = 0
  <2> HIDE DEF E
  <2>1. x.word[i][j] = IF <<i, j>> \in E THEN 0 ELSE mm.word[i][j]
    BY <1>6
  <2>2. <<i, j>> \in E <=> g[i].root = r /\ IsEntry(g, i, j) /\ mm.word[i][j] # 0
    BY <1>5
  <2> QED
    BY <2>1, <2>2
<1> DEFINE h == [p \in Pages |-> IF p \in T THEN [kind |-> 7, root |-> g[p].root, base |-> g[p].base] ELSE g[p]]
<1>7. h \in [Pages -> Labels] /\ (\A p \in Pages : p \notin T => h[p] = g[p]) /\ \A p \in T : h[p].kind = 7
    BY <1>2, <1>4 DEF Labels
<1> HIDE DEF h, E, T
<1>8. StatusOK(x, h)
  <2>1. UsedPages(x) = UsedPages(mm) \ T /\ T \subseteq UsedPages(mm)
    BY <1>3, <1>4, <1>6 DEF UsedPages, StatusOK
  <2>2. /\ IsFiniteSet(UsedPages(x)) /\ Cardinality(UsedPages(mm)) \in Nat /\ Cardinality(UsedPages(x)) \in Nat
        /\ IsFiniteSet(T) /\ Cardinality(T) \in Nat
    BY <1>4, PagesFinite DEF UsedPages
  <2>3. Cardinality(UsedPages(mm)) = Cardinality(UsedPages(x)) + Cardinality(T)
    <3>1. UsedPages(mm) = UsedPages(x) \cup T /\ UsedPages(x) \cap T = {}
      BY <2>1
    <3>2. Cardinality(UsedPages(x) \cup T)
            = Cardinality(UsedPages(x)) + Cardinality(T) - Cardinality(UsedPages(x) \cap T)
      BY <2>2, FS_Union
    <3>3. Cardinality(UsedPages(x) \cap T) = 0
      BY <3>1, FS_EmptySet
    <3> QED
      BY <2>2, <3>1, <3>2, <3>3
  <2>4. mm.kmem_used_pages = Cardinality(UsedPages(mm)) /\ mm.status[0] = "KPAGE_PAGE_ARRAY"
    BY <1>3 DEF StatusOK
  <2>5. x.kmem_used_pages = Cardinality(UsedPages(x))
    BY <1>4, <1>6, <2>2, <2>3, <2>4
  <2>6. 0 \in Pages /\ 0 \notin T /\ x.status[0] = "KPAGE_PAGE_ARRAY"
    <3>1. 0 \in Pages
      BY MemoryConstants DEF Pages
    <3>2. 0 \notin T
      BY <1>2, <1>4, <3>1
    <3> QED
      BY <1>6, <2>4, <3>1, <3>2
  <2>7. \A p \in Pages : h[p].kind # 7 => p \notin T /\ g[p].kind # 7
    BY <1>7
  <2>8. \A p \in Pages : h[p].kind # 7 => x.status[p] = "KPAGE_USED"
    BY <1>3, <1>6, <2>7 DEF StatusOK
  <2>9. ~ KillDuringExec => \A p \in Pages : x.status[p] = "KPAGE_USED" => h[p].kind # 7
    BY <1>3, <1>6, <1>7 DEF StatusOK
  <2> QED
    BY <2>5, <2>6, <2>8, <2>9 DEF StatusOK
<1>9. SlabsOK(x, h)
  <2>1. \A d \in Allocators : \A i \in DOMAIN mm.slab[d].pages : mm.slab[d].pages[i] \in Pages
    BY <1>2, SlabPages
  <2>2. \A p \in Pages : h[p].kind = 6 <=> g[p].kind = 6
    BY <1>4, <1>7
  <2> QED
    BY <1>3, <1>6, <2>1, <2>2 DEF SlabsOK
<1>10. \A p \in Pages : h[p].kind \in 0 .. 4 => h[p] = g[p] /\ p \notin T /\ g[p].kind \in 0 .. 4
    BY <1>7
<1>11. RootsOK(h)
  <2>1. \A p \in Pages : g[p].kind = 4 => h[p] = g[p]
    BY <1>4, <1>7
  <2> QED
    BY <1>2, <1>3, <1>10, <2>1 DEF RootsOK
<1>12. EntriesLead(x, h)
  <2> SUFFICES ASSUME NEW p \in Pages, NEW j \in Slots, IsEntry(h, p, j), x.word[p][j] # 0
               PROVE  LET c == x.word[p][j]
                      IN /\ c \in Pages
                         /\ h[c].kind = h[p].kind - 1 /\ h[c].root = h[p].root
                         /\ h[c].base = h[p].base * PAGE_SIZE + j
    BY DEF EntriesLead
  <2> DEFINE c == mm.word[p][j]
  <2>1. h[p] = g[p] /\ IsEntry(g, p, j)
    BY <1>10 DEF IsEntry
  <2>2. x.word[p][j] = c /\ c # 0 /\ g[p].root # r
    BY <1>5, <1>6, <2>1
  <2>3. c \in Pages /\ g[c].kind = g[p].kind - 1 /\ g[c].root = g[p].root /\ g[c].base = g[p].base * PAGE_SIZE + j
    BY <1>3, <2>1, <2>2 DEF EntriesLead
  <2>4. h[c] = g[c]
    BY <1>4, <1>7, <2>2, <2>3
  <2> HIDE DEF c
  <2> QED
    BY <2>1, <2>2, <2>3, <2>4
<1>13. PagesReached(x, h)
  <2> SUFFICES ASSUME NEW q \in Pages, h[q].kind \in 0 .. 3
               PROVE  \E p \in Pages : /\ h[p].kind = h[q].kind + 1 /\ h[p].root = h[q].root
                                       /\ h[p].base = h[q].base \div PAGE_SIZE
                                       /\ IsEntry(h, p, h[q].base % PAGE_SIZE)
                                       /\ x.word[p][h[q].base % PAGE_SIZE] = q
    BY DEF PagesReached
  <2>1. h[q] = g[q] /\ q \notin T /\ g[q].root # r
    BY <1>4, <1>10
  <2>2. PICK p \in Pages : /\ g[p].kind = g[q].kind + 1 /\ g[p].root = g[q].root
                           /\ g[p].base = g[q].base \div PAGE_SIZE
                           /\ IsEntry(g, p, g[q].base % PAGE_SIZE)
                           /\ mm.word[p][g[q].base % PAGE_SIZE] = q
    BY <1>3, <2>1 DEF PagesReached
  <2>3. h[p] = g[p]
    BY <1>4, <1>7, <2>1, <2>2
  <2>4. g[q].base % PAGE_SIZE \in Slots
    <3>1. g[q].base \in Nat /\ PAGE_SIZE \in Nat \ {0}
      BY <1>2, MemoryConstants
    <3> QED
      BY <3>1, DivMod DEF Slots
  <2> DEFINE j == g[q].base % PAGE_SIZE
  <2>5. x.word[p][j] = mm.word[p][j]
    BY <1>20, <2>1, <2>2, <2>4
  <2> QED
    BY <2>1, <2>2, <2>3, <2>5 DEF IsEntry
<1>14. LabelsUnique(h)
    BY <1>3, <1>10 DEF LabelsUnique
<1>15. ContentsAre(x, h, Without(M, r))
  <2> DEFINE N == Without(M, r)
  <2>1. N = [y \in DOMAIN N |-> N[y]] /\ DOMAIN N = {z \in DOMAIN M : z[1] # r} /\ \A y \in DOMAIN N : N[y] = M[y]
    BY DEF Without
  <2> HIDE DEF N
  <2>2. ASSUME NEW q \in Pages, h[q].kind = 0 PROVE x.word[q] = mm.word[q] /\ h[q] = g[q] /\ g[q].root # r
    <3>1. h[q] = g[q] /\ g[q].root # r
      BY <1>4, <1>10, <2>2
    <3>2. \A j \in Slots : x.word[q][j] = mm.word[q][j]
      BY <1>20, <3>1
    <3> QED
      BY <1>6, <3>1, <3>2
  <2>3. ASSUME NEW y \in DOMAIN N PROVE \E q \in Pages : h[q].kind = 0 /\ y = <<h[q].root, h[q].base>>
    <3>1. y \in DOMAIN M /\ y[1] # r
      BY <2>1
    <3>2. PICK q \in Pages : g[q].kind = 0 /\ y = <<g[q].root, g[q].base>>
      BY <1>3, <3>1 DEF ContentsAre
    <3>3. h[q] = g[q]
      BY <1>4, <1>7, <3>1, <3>2
    <3> QED
      BY <3>2, <3>3
  <2>4. ASSUME NEW q \in Pages, h[q].kind = 0
        PROVE <<h[q].root, h[q].base>> \in DOMAIN N /\ N[<<h[q].root, h[q].base>>] = x.word[q]
    <3> DEFINE y == <<g[q].root, g[q].base>>
    <3>1. x.word[q] = mm.word[q] /\ h[q] = g[q] /\ g[q].root # r /\ g[q].kind = 0
      BY <2>2, <2>4
    <3>2. y \in DOMAIN M /\ M[y] = mm.word[q]
      BY <1>3, <3>1 DEF ContentsAre
    <3>3. y[1] # r
      BY <3>1
    <3> HIDE DEF y
    <3>4. y \in DOMAIN N /\ N[y] = mm.word[q]
      BY <2>1, <3>2, <3>3
    <3> QED
      BY <3>1, <3>4 DEF y
  <2>5. ContentsAre(x, h, N)
    BY <2>1, <2>3, <2>4 DEF ContentsAre
  <2> QED
    BY <2>5 DEF N
<1>16. R = {p \in Pages : h[p].kind = 4} /\ O = {p \in Pages : h[p].kind = 5}
  <2>1. \A p \in Pages : (h[p].kind = 4 <=> g[p].kind = 4) /\ (h[p].kind = 5 <=> g[p].kind = 5)
    BY <1>4, <1>7
  <2> QED
    BY <1>2, <2>1
<1>17. Good(x, h, R, O, Without(M, r))
    BY <1>6, <1>7, <1>8, <1>9, <1>11, <1>12, <1>13, <1>14, <1>15, <1>16 DEF Good
<1>18. \A j \in Slots : j < Half => x.word[r][j] = 0
  <2>1. r \in Pages /\ g[r].kind = 4 /\ g[r].root = r
    BY <1>2
  <2>2. \A j \in Slots : j < Half => IsEntry(g, r, j)
    BY <2>1 DEF IsEntry
  <2> QED
    BY <1>20, <2>1, <2>2
<1> QED
    BY <1>6, <1>17, <1>18 DEF Ok

\* A PML4 with an empty lower half has no pages under it.
LEMMA RootRemoved ==
    ASSUME NEW mm, NEW R, NEW O, NEW M, Ok(mm, R, O, M), NEW r \in R,
           \A j \in Slots : j < Half => mm.word[r][j] = 0
    PROVE  Ok(mm, R \ {r}, O \cup {r}, M)
<1>1. PICK g : Good(mm, g, R, O, M)
    BY DEF Ok
<1>2. /\ mm \in Mems /\ g \in [Pages -> Labels] /\ NoPanic(mm)
      /\ \A p \in Pages : g[p].kind \in 0 .. 7 /\ g[p].root \in Pages /\ g[p].base \in Nat
      /\ \A p \in Pages : g[p].kind = 4 <=> p \in R
      /\ \A p \in Pages : g[p].kind = 5 <=> p \in O
      /\ \A p \in Pages : g[p].kind = 4 => g[p].root = p /\ g[p].base = 0
      /\ R \subseteq Pages /\ O \subseteq Pages
      /\ \A p \in Pages : g[p].kind # 7 => p # 0
    BY <1>1, GoodParts
<1>3. /\ StatusOK(mm, g) /\ RootsOK(g) /\ EntriesLead(mm, g) /\ PagesReached(mm, g) /\ LabelsUnique(g)
      /\ SlabsOK(mm, g) /\ ContentsAre(mm, g, M)
    BY <1>1, GoodParts
<1>4. \A q \in Pages : g[q].kind \in 0 .. 3 => g[q].root # r
  <2>1. \A q \in Pages : g[q].kind = 3 => g[q].root # r
    <3> SUFFICES ASSUME NEW q \in Pages, g[q].kind = 3, g[q].root = r PROVE FALSE
      OBVIOUS
    <3>1. PICK p \in Pages : /\ g[p].kind = g[q].kind + 1 /\ g[p].root = g[q].root
                             /\ IsEntry(g, p, g[q].base % PAGE_SIZE)
                             /\ mm.word[p][g[q].base % PAGE_SIZE] = q
      BY <1>3 DEF PagesReached
    <3>2. g[p].kind = 4 /\ p = r
      BY <1>2, <3>1
    <3>3. g[q].base % PAGE_SIZE \in Slots
      <4>1. g[q].base \in Nat /\ PAGE_SIZE \in Nat \ {0}
        BY <1>2, MemoryConstants
      <4> QED
        BY <4>1, DivMod DEF Slots
    <3> DEFINE j == g[q].base % PAGE_SIZE
    <3>4. j \in Slots /\ j < Half /\ mm.word[r][j] = q
      BY <3>1, <3>2, <3>3 DEF IsEntry
    <3> HIDE DEF j
    <3>5. q = 0
      BY <3>4
    <3> QED
      BY <1>2, <3>5
  <2>2. ASSUME NEW k \in 0 .. 2, \A q \in Pages : g[q].kind = k + 1 => g[q].root # r
        PROVE  \A q \in Pages : g[q].kind = k => g[q].root # r
    BY <1>3, <2>2 DEF PagesReached
  <2>3. 0 \in 0 .. 2 /\ 1 \in 0 .. 2 /\ 2 \in 0 .. 2 /\ 0 + 1 = 1 /\ 1 + 1 = 2 /\ 2 + 1 = 3
    OBVIOUS
  <2>4. \A q \in Pages : g[q].kind = 2 => g[q].root # r
    BY <2>1, <2>2, <2>3
  <2>5. \A q \in Pages : g[q].kind = 1 => g[q].root # r
    BY <2>2, <2>3, <2>4
  <2>6. \A q \in Pages : g[q].kind = 0 => g[q].root # r
    BY <2>2, <2>3, <2>5
  <2> QED
    BY <1>2, <2>1, <2>4, <2>5, <2>6
<1>5. r \in Pages /\ g[r].kind = 4 /\ g[r].root = r
    BY <1>2
<1> DEFINE h == [g EXCEPT ![r] = [kind |-> 5, root |-> r, base |-> 0]]
<1>6. /\ h \in [Pages -> Labels] /\ h[r].kind = 5 /\ \A q \in Pages \ {r} : h[q] = g[q]
    BY <1>2, <1>5 DEF Labels
<1> HIDE DEF h
<1>7. StatusOK(mm, h)
    BY <1>3, <1>5, <1>6 DEF StatusOK
<1>8. \A q \in Pages : h[q].kind \in 0 .. 4 => q # r /\ h[q] = g[q] /\ g[q].root # r
    BY <1>2, <1>4, <1>6
<1>9. RootsOK(h)
    BY <1>2, <1>3, <1>6, <1>8 DEF RootsOK
<1>10. EntriesLead(mm, h)
  <2>1. \A q \in Pages, j \in Slots : IsEntry(h, q, j) => q # r /\ h[q] = g[q] /\ IsEntry(g, q, j)
    BY <1>8 DEF IsEntry
  <2>2. \A q \in Pages, j \in Slots : IsEntry(g, q, j) /\ mm.word[q][j] # 0 => mm.word[q][j] # r
    BY <1>3, <1>5 DEF EntriesLead, IsEntry
  <2> QED
    BY <1>3, <1>6, <2>1, <2>2 DEF EntriesLead
<1>11. PagesReached(mm, h)
  <2> SUFFICES ASSUME NEW q \in Pages, h[q].kind \in 0 .. 3
               PROVE  \E c \in Pages : /\ h[c].kind = h[q].kind + 1 /\ h[c].root = h[q].root
                                       /\ h[c].base = h[q].base \div PAGE_SIZE
                                       /\ IsEntry(h, c, h[q].base % PAGE_SIZE)
                                       /\ mm.word[c][h[q].base % PAGE_SIZE] = q
    BY DEF PagesReached
  <2>1. h[q] = g[q] /\ g[q].root # r
    BY <1>8
  <2>2. PICK c \in Pages : /\ g[c].kind = g[q].kind + 1 /\ g[c].root = g[q].root
                           /\ g[c].base = g[q].base \div PAGE_SIZE
                           /\ IsEntry(g, c, g[q].base % PAGE_SIZE)
                           /\ mm.word[c][g[q].base % PAGE_SIZE] = q
    BY <1>3, <2>1 DEF PagesReached
  <2>3. c # r
    BY <1>5, <2>1, <2>2
  <2>4. h[c] = g[c]
    BY <1>6, <2>3
  <2> QED
    BY <2>1, <2>2, <2>4 DEF IsEntry
<1>12. LabelsUnique(h)
    BY <1>3, <1>8 DEF LabelsUnique
<1>13. SlabsOK(mm, h)
  <2>1. \A d \in Allocators : \A i \in DOMAIN mm.slab[d].pages : mm.slab[d].pages[i] \in Pages
    BY <1>2, SlabPages
  <2>2. \A p \in Pages : h[p].kind = 6 <=> g[p].kind = 6
    BY <1>5, <1>6
  <2> QED
    BY <1>3, <2>1, <2>2 DEF SlabsOK
<1>14. ContentsAre(mm, h, M)
  <2>1. \A q \in Pages : h[q].kind = 0 <=> g[q].kind = 0
    BY <1>5, <1>6
  <2>2. \A q \in Pages : h[q].kind = 0 => h[q] = g[q]
    BY <1>8
  <2> QED
    BY <1>3, <2>1, <2>2 DEF ContentsAre
<1>15. R \ {r} = {p \in Pages : h[p].kind = 4} /\ O \cup {r} = {p \in Pages : h[p].kind = 5}
    BY <1>2, <1>5, <1>6
<1>16. Good(mm, h, R \ {r}, O \cup {r}, M)
    BY <1>2, <1>6, <1>7, <1>9, <1>10, <1>11, <1>12, <1>13, <1>14, <1>15 DEF Good
<1> QED
    BY <1>16 DEF Ok

-----------------------------------------------------------------------------
(* What the operations do to a memory, told by the pages and objects that  *)
(* it holds.                                                               *)

\* The memory has these PML4s, these other pages of tasks, these pages of
\* user memory, and these objects in use.
Holds(mm, R, O, D, T, S) ==
    /\ \E M : Ok(mm, R, O, M) /\ DOMAIN M = D
    /\ Objects(mm, "task_struct") = T /\ Objects(mm, "range") = S

\* Objects are in use according to the slabs.
LEMMA SameSlabs ==
    ASSUME NEW mm, NEW x, x.slab = mm.slab
    PROVE  Objects(x, "task_struct") = Objects(mm, "task_struct") /\ Objects(x, "range") = Objects(mm, "range")
    BY DEF Objects

\* The allocator of pages.
LEMMA HoldsAlloc ==
    ASSUME NEW mm, NEW R, NEW O, NEW D, NEW T, NEW S, Holds(mm, R, O, D, T, S), NEW n \in Nat \ {0},
           NEW a, a = kpage_alloc(mm, n)
    PROVE  \/ Panicked(a.mm)
           \/ /\ Run(a.page, n) \subseteq Pages \ (R \cup O) /\ a.page \in Pages
              /\ Holds(a.mm, R, O \cup Run(a.page, n), D, T, S)
<1>1. PICK M : Ok(mm, R, O, M) /\ DOMAIN M = D
    BY DEF Holds
<1>2. \/ Panicked(a.mm)
      \/ /\ Run(a.page, n) \subseteq Pages \ (R \cup O) /\ a.page \in Pages /\ a.mm.slab = mm.slab
         /\ Ok(a.mm, R, O \cup Run(a.page, n), M)
    BY <1>1, AllocTakes
<1> QED
    BY <1>1, <1>2, SameSlabs DEF Holds

\* The same, and the page is cleared.
LEMMA HoldsZeroed ==
    ASSUME NEW mm, NEW R, NEW O, NEW D, NEW T, NEW S, Holds(mm, R, O, D, T, S),
           NEW a, a = AllocZeroed(mm)
    PROVE  \/ Panicked(a.mm)
           \/ a.page \in Pages \ (R \cup O) /\ Holds(a.mm, R, O \cup {a.page}, D, T, S)
<1>1. PICK M : Ok(mm, R, O, M) /\ DOMAIN M = D
    BY DEF Holds
<1>2. \/ Panicked(a.mm)
      \/ a.page \in Pages \ (R \cup O) /\ a.mm.slab = mm.slab /\ Ok(a.mm, R, O \cup {a.page}, M)
    BY <1>1, ZeroedTakes
<1> QED
    BY <1>1, <1>2, SameSlabs DEF Holds

\* kpage_free.
LEMMA HoldsFree ==
    ASSUME NEW mm, NEW R, NEW O, NEW D, NEW T, NEW S, Holds(mm, R, O, D, T, S),
           NEW page \in Nat, NEW n \in Nat, Run(page, n) \subseteq O, NEW x, x = kpage_free(mm, page, n)
    PROVE  Holds(x, R, O \ Run(page, n), D, T, S)
<1>1. PICK M : Ok(mm, R, O, M) /\ DOMAIN M = D
    BY DEF Holds
<1>2. Ok(x, R, O \ Run(page, n), M) /\ x.slab = mm.slab
    BY <1>1, FreeGives
<1> QED
    BY <1>1, <1>2, SameSlabs DEF Holds

\* A struct from the slab of the ranges, and from that of the tasks.
LEMMA HoldsRange ==
    ASSUME NEW mm, NEW R, NEW O, NEW D, NEW T, NEW S, Holds(mm, R, O, D, T, S),
           NEW r, r = slab_alloc(mm, "range")
    PROVE  Panicked(r.mm) \/ (r.object \notin S /\ Holds(r.mm, R, O, D, T, S \cup {r.object}))
<1>1. PICK M : Ok(mm, R, O, M) /\ DOMAIN M = D
    BY DEF Holds
<1>2. "range" \in Allocators /\ "task_struct" \in Allocators \ {"range"}
    BY DEF Allocators
<1>3. \/ Panicked(r.mm)
      \/ /\ Ok(r.mm, R, O, M)
         /\ r.object \notin Objects(mm, "range") /\ Objects(r.mm, "range") = Objects(mm, "range") \cup {r.object}
         /\ \A c \in Allocators \ {"range"} : Objects(r.mm, c) = Objects(mm, c)
    BY <1>1, <1>2, SlabAllocTakes
<1> QED
    BY <1>1, <1>2, <1>3 DEF Holds

\* The same for the slab of task_structs.
LEMMA HoldsStruct ==
    ASSUME NEW mm, NEW R, NEW O, NEW D, NEW T, NEW S, Holds(mm, R, O, D, T, S),
           NEW r, r = slab_alloc(mm, "task_struct")
    PROVE  Panicked(r.mm) \/ (r.object \notin T /\ Holds(r.mm, R, O, D, T \cup {r.object}, S))
<1>1. PICK M : Ok(mm, R, O, M) /\ DOMAIN M = D
    BY DEF Holds
<1>2. "task_struct" \in Allocators /\ "range" \in Allocators \ {"task_struct"}
    BY DEF Allocators
<1>3. \/ Panicked(r.mm)
      \/ /\ Ok(r.mm, R, O, M)
         /\ r.object \notin Objects(mm, "task_struct")
         /\ Objects(r.mm, "task_struct") = Objects(mm, "task_struct") \cup {r.object}
         /\ \A c \in Allocators \ {"task_struct"} : Objects(r.mm, c) = Objects(mm, c)
    BY <1>1, <1>2, SlabAllocTakes
<1> QED
    BY <1>1, <1>2, <1>3 DEF Holds

\* And back.
LEMMA HoldsRangeFree ==
    ASSUME NEW mm, NEW R, NEW O, NEW D, NEW T, NEW S, Holds(mm, R, O, D, T, S), NEW object \in S,
           NEW x, x = slab_free(mm, "range", object)
    PROVE  Holds(x, R, O, D, T, S \ {object})
<1>1. PICK M : Ok(mm, R, O, M) /\ DOMAIN M = D
    BY DEF Holds
<1>2. "range" \in Allocators /\ "task_struct" \in Allocators \ {"range"} /\ object \in Objects(mm, "range")
    BY DEF Allocators, Holds
<1>3. /\ Ok(x, R, O, M) /\ Objects(x, "range") = Objects(mm, "range") \ {object}
      /\ \A c \in Allocators \ {"range"} : Objects(x, c) = Objects(mm, c)
    BY <1>1, <1>2, SlabFreeGives
<1> QED
    BY <1>1, <1>2, <1>3 DEF Holds

\* And a task_struct.
LEMMA HoldsStructFree ==
    ASSUME NEW mm, NEW R, NEW O, NEW D, NEW T, NEW S, Holds(mm, R, O, D, T, S), NEW object \in T,
           NEW x, x = slab_free(mm, "task_struct", object)
    PROVE  Holds(x, R, O, D, T \ {object}, S)
<1>1. PICK M : Ok(mm, R, O, M) /\ DOMAIN M = D
    BY DEF Holds
<1>2. "task_struct" \in Allocators /\ "range" \in Allocators \ {"task_struct"} /\ object \in Objects(mm, "task_struct")
    BY DEF Allocators, Holds
<1>3. /\ Ok(x, R, O, M) /\ Objects(x, "task_struct") = Objects(mm, "task_struct") \ {object}
      /\ \A c \in Allocators \ {"task_struct"} : Objects(x, c) = Objects(mm, c)
    BY <1>1, <1>2, SlabFreeGives
<1> QED
    BY <1>1, <1>2, <1>3 DEF Holds

\* map_user_page.
LEMMA HoldsMap ==
    ASSUME NEW mm, NEW R, NEW O, NEW D, NEW T, NEW S, Holds(mm, R, O, D, T, S),
           NEW r \in R, NEW a \in 0 .. UserEnd - 1, NEW y, y = <<r, PageNumber(a)>>, y \notin D,
           NEW n, n = map_user_page(mm, r, a)
    PROVE  \/ Panicked(n.mm)
           \/ Holds(n.mm, R, O, D \cup {y}, T, S) /\ n.page = Walk(n.mm, r, a)
<1>1. PICK M : Ok(mm, R, O, M) /\ DOMAIN M = D
    BY DEF Holds
<1>2. Panicked(n.mm) \/ Mapped(mm, n.mm, n.page, R, O, M, r, a)
    BY <1>1, MapTakes
<1>3. DOMAIN Put(M, y, Zeroed) = D \cup {y}
    BY <1>1 DEF Put
<1>4. ASSUME Mapped(mm, n.mm, n.page, R, O, M, r, a)
      PROVE  Ok(n.mm, R, O, Put(M, y, Zeroed)) /\ n.mm.slab = mm.slab /\ n.page = Walk(n.mm, r, a)
    BY <1>4 DEF Mapped
<1>5. ASSUME Mapped(mm, n.mm, n.page, R, O, M, r, a)
      PROVE  Holds(n.mm, R, O, D \cup {y}, T, S) /\ n.page = Walk(n.mm, r, a)
    BY <1>3, <1>4, <1>5, SameSlabs DEF Holds
<1> QED
    BY <1>2, <1>5

\* The page under an address is written; when there is none, page 0, which
\* is nobody's.
LEMMA HoldsPage ==
    ASSUME NEW mm, NEW R, NEW O, NEW D, NEW T, NEW S, Holds(mm, R, O, D, T, S),
           NEW r \in R, NEW a \in 0 .. UserEnd - 1, NEW w \in [Slots -> Int],
           NEW x, x = WithWord(mm, Walk(mm, r, a), w)
    PROVE  Holds(x, R, O, D, T, S)
<1> DEFINE y == <<r, PageNumber(a)>>
           p == Walk(mm, r, a)
<1>1. PICK M : Ok(mm, R, O, M) /\ DOMAIN M = D
    BY DEF Holds
<1>2. p # 0 <=> y \in DOMAIN M
    BY <1>1, WalkIs
<1>3. CASE y \in DOMAIN M
  <2>1. Ok(x, R, O, Put(M, y, w)) /\ x.slab = mm.slab
    BY <1>1, <1>3, PageWritten
  <2> HIDE DEF y
  <2>2. DOMAIN Put(M, y, w) = D
    BY <1>1, <1>3 DEF Put
  <2> QED
    BY <2>1, <2>2, SameSlabs DEF Holds
<1>4. CASE y \notin DOMAIN M
  <2>1. p = 0
    BY <1>2, <1>4
  <2>2. PICK g : Good(mm, g, R, O, M)
    BY <1>1 DEF Ok
  <2>3. /\ mm \in Mems /\ g \in [Pages -> Labels] /\ NoPanic(mm) /\ 0 \in Pages
        /\ \A q \in Pages : g[q].kind # 7 => q # 0
        /\ StatusOK(mm, g) /\ SlabsOK(mm, g)
        /\ \A q \in Pages : g[q].kind = 5 <=> q \in O
        /\ O \subseteq Pages
    BY <2>2, GoodParts
  <2>4. x = WithWord(mm, 0, w)
    BY <2>1
  <2>5. /\ x \in Mems /\ x.panic = mm.panic /\ x.slab = mm.slab
        /\ \A q \in Pages \ {0} : x.word[q] = mm.word[q]
        /\ StatusOK(x, g) /\ SlabsOK(x, g)
    BY <2>3, <2>4, WordSet
  <2>6. NoPanic(x)
    BY <2>3, <2>5 DEF NoPanic
  <2>7. \A q \in Pages : g[q].kind \in 0 .. 4 => x.word[q] = mm.word[q]
    BY <2>3, <2>5
  <2>8. O = {q \in Pages : g[q].kind = 5}
    BY <2>3
  <2>9. Good(x, g, R, O, M)
    BY <2>2, <2>3, <2>5, <2>6, <2>7, <2>8, Relabelled
  <2> QED
    BY <1>1, <2>5, <2>9, SameSlabs DEF Holds, Ok
<1> QED
    BY <1>3, <1>4

\* An address leads to a page, or to page 0.
LEMMA HoldsWalk ==
    ASSUME NEW mm, NEW R, NEW O, NEW D, NEW T, NEW S, Holds(mm, R, O, D, T, S),
           NEW r \in R, NEW a \in 0 .. UserEnd - 1
    PROVE  /\ Walk(mm, r, a) \in Pages /\ mm \in Mems /\ NoPanic(mm)
           /\ Walk(mm, r, a) # 0 <=> <<r, PageNumber(a)>> \in D
<1>1. PICK M : Ok(mm, R, O, M) /\ DOMAIN M = D
    BY DEF Holds
<1>2. PICK g : Good(mm, g, R, O, M)
    BY <1>1 DEF Ok
<1>3. mm \in Mems /\ 0 \in Pages /\ NoPanic(mm)
    BY <1>2, GoodParts
<1> QED
    BY <1>1, <1>3, WalkIs

\* A word is read.
LEMMA HoldsRead ==
    ASSUME NEW mm, NEW R, NEW O, NEW D, NEW T, NEW S, Holds(mm, R, O, D, T, S),
           NEW r \in R, NEW a \in 0 .. UserEnd - 1
    PROVE  Read(mm, r, a) \in Int
<1>1. Walk(mm, r, a) \in Pages /\ mm \in Mems
    BY HoldsWalk
<1>2. a % PAGE_SIZE \in Slots
  <2>1. a \in Nat /\ PAGE_SIZE \in Nat \ {0}
    BY MemoryConstants
  <2> QED
    BY <2>1, DivMod DEF Slots
<1> QED
    BY <1>1, <1>2 DEF Read, Mems

\* A word is written.
LEMMA HoldsWrite ==
    ASSUME NEW mm, NEW R, NEW O, NEW D, NEW T, NEW S, Holds(mm, R, O, D, T, S),
           NEW r \in R, NEW a \in 0 .. UserEnd - 1, NEW v \in Int, NEW x, x = Write(mm, r, a, v)
    PROVE  Holds(x, R, O, D, T, S)
<1> DEFINE p == Walk(mm, r, a)
           j == a % PAGE_SIZE
           w == [mm.word[p] EXCEPT ![j] = v]
<1>1. p \in Pages /\ mm \in Mems
    BY HoldsWalk
<1>2. j \in Slots
  <2>1. a \in Nat /\ PAGE_SIZE \in Nat \ {0}
    BY MemoryConstants
  <2> QED
    BY <2>1, DivMod DEF Slots
<1>3. x = [mm EXCEPT !.word[p][j] = v]
    BY DEF Write
<1> HIDE DEF p, j
<1>4. w \in [Slots -> Int] /\ x = WithWord(mm, p, w)
    BY <1>1, <1>2, <1>3 DEF Mems, WithWord
<1> HIDE DEF w
<1> QED
    BY <1>4, HoldsPage DEF p

\* The memory of a process is freed; its PML4 stays, and may be freed too.
LEMMA HoldsCleared ==
    ASSUME NEW mm, NEW R, NEW O, NEW D, NEW T, NEW S, Holds(mm, R, O, D, T, S),
           NEW r \in R, NEW x, x = UserCleared(mm, r), NEW E, E = {y \in D : y[1] # r}
    PROVE  Holds(x, R, O, E, T, S) /\ Holds(x, R \ {r}, O \cup {r}, E, T, S)
<1>1. PICK M : Ok(mm, R, O, M) /\ DOMAIN M = D
    BY DEF Holds
<1> DEFINE N == Without(M, r)
<1>2. Ok(x, R, O, N) /\ x.slab = mm.slab /\ \A j \in Slots : j < Half => x.word[r][j] = 0
    BY <1>1, UserFreed
<1>3. DOMAIN N = E
    BY <1>1 DEF Without
<1> HIDE DEF N
<1>4. Ok(x, R \ {r}, O \cup {r}, N)
    BY <1>2, RootRemoved
<1> QED
    BY <1>2, <1>3, <1>4, SameSlabs DEF Holds

\* The upper half of a new PML4 is the kernel's.
NewRoot == [i \in Slots |-> IF i < PAGE_SIZE \div 2 THEN 0 ELSE -1]

\* A page of a task becomes a PML4.
LEMMA HoldsRoot ==
    ASSUME NEW mm, NEW R, NEW O, NEW D, NEW T, NEW S, Holds(mm, R, O, D, T, S),
           NEW r \in O, NEW x, x = WithWord(mm, r, NewRoot)
    PROVE  Holds(x, R \cup {r}, O \ {r}, D, T, S)
<1>1. PICK M : Ok(mm, R, O, M) /\ DOMAIN M = D
    BY DEF Holds
<1>2. PICK g : Good(mm, g, R, O, M)
    BY <1>1 DEF Ok
<1>3. mm \in Mems /\ r \in Pages
    BY <1>2, GoodParts
<1>4. NewRoot \in [Slots -> Int] /\ \A j \in Slots : j < Half => NewRoot[j] = 0
    BY DEF NewRoot, Half
<1>5. Good(x, g, R, O, M)
    BY <1>2, <1>4, OtherWritten
<1>6. x.slab = mm.slab /\ x.word[r] = NewRoot
    BY <1>3, <1>4, WordSet
<1>7. Ok(x, R, O, M) /\ \A j \in Slots : j < Half => x.word[r][j] = 0
    BY <1>4, <1>5, <1>6 DEF Ok
<1>8. Ok(x, R \cup {r}, O \ {r}, M)
    BY <1>7, RootMade
<1> QED
    BY <1>1, <1>6, <1>8, SameSlabs DEF Holds

\* What a killed task leaves behind.
LEMMA HoldsLost ==
    ASSUME NEW mm, NEW R, NEW O, NEW D, NEW T, NEW S, Holds(mm, R, O, D, T, S), NEW X, KillDuringExec
    PROVE  Holds(mm, R, O \ X, D, T, S)
    BY PagesLost DEF Holds

\* After a panic: the slabs, and writes.
LEMMA MorePanics ==
    ASSUME NEW mm, Panicked(mm)
    PROVE  /\ \A a : Panicked(slab_alloc(mm, a).mm)
           /\ \A r, a, v : Panicked(Write(mm, r, a, v))
<1>1. ASSUME NEW a PROVE Panicked(slab_alloc(mm, a).mm)
  <2> DEFINE b == AllocZeroed(mm)
             y == Grown(b.mm, a, b.page)
  <2>1. slab_alloc(mm, a) = slab_try_alloc(mm, a) \/ slab_alloc(mm, a) = slab_try_alloc(y, a)
    BY DEF slab_alloc, ObjectSlots, ObjectsOf, Grown, WithPages, WithFree
  <2>2. Panicked(b.mm)
    BY AllocPanics
  <2> HIDE DEF b
  <2>3. Panicked(y)
    BY <2>2, PanicStays DEF Grown
  <2> HIDE DEF y
  <2>4. ASSUME NEW z, Panicked(z) PROVE Panicked(slab_try_alloc(z, a).mm)
    <3> DEFINE o == z.slab[a].free \ {slab_try_alloc(z, a).object}
    <3>1. slab_try_alloc(z, a).mm = WithFree(z, a, o)
      BY TryAllocIs
    <3> HIDE DEF o
    <3>2. Panicked(WithFree(z, a, o))
      BY <2>4, PanicStays
    <3> QED
      BY <3>1, <3>2
  <2> QED
    BY <2>1, <2>3, <2>4
<1>2. ASSUME NEW r, NEW a, NEW v PROVE Panicked(Write(mm, r, a, v))
  <2>1. Write(mm, r, a, v) = WithEntry(mm, Walk(mm, r, a), a % PAGE_SIZE, v)
    BY DEF Write, WithEntry
  <2> QED
    BY <2>1, AllocPanics
<1> QED
    BY <1>1, <1>2

-----------------------------------------------------------------------------
(* Loops.                                                                  *)

\* The turn of load_elf64 for one program header.
SegmentRange(x, seg) ==
    IF seg.p_vaddr = 0 /\ seg.p_memsz = 0 THEN x
    ELSE AddRange(x, "NORMAL", seg.p_vaddr, seg.p_vaddr + seg.p_memsz)

\* One page is mapped, one byte of a segment is written.
MapOne(x, r, address) == map_user_page(x, r, address).mm

WriteOne(x, r, seg, i) == Write(x, r, seg.p_vaddr + i - 1, seg.data[i])

\* A segment is read into memory.
WriteAll(mm, r, seg, s) == FoldLeft(LAMBDA x, i : WriteOne(x, r, seg, i), mm, s)

CopySegment(mm, r, seg) == WriteAll(mm, r, seg, [i \in DOMAIN seg.data |-> i])

\* A page of r is made a copy of the one of q.
CopyPage(mm, r, q, address) ==
    LET n == map_user_page(mm, r, address)
    IN [n.mm EXCEPT !.word[n.page] = [i \in Slots |-> Read(n.mm, q, address + i)]]

\* The loops.
FreeRanges(mm, s)      == FoldLeft(LAMBDA x, r : slab_free(x, "range", r.object), mm, s)
MakeRanges(s, prog)    == FoldLeft(LAMBDA x, seg : SegmentRange(x, seg), s, prog)
CopySegments(mm, r, s) == FoldLeft(LAMBDA x, seg : CopySegment(x, r, seg), mm, s)
CopyPages(mm, r, q, s) == FoldLeft(LAMBDA x, a : CopyPage(x, r, q, a), mm, s)
ForkRanges(parent, s, ranges) == FoldLeft(LAMBDA x, r : ForkRange(parent, x, r), s, ranges)

\* A turn of a loop; the loop is named with the values that stay the same.
Turn(loop, x, e) ==
    CASE loop[1] = "map"      -> MapOne(x, loop[2], e)
      [] loop[1] = "setup"    -> MapPages(x, loop[2], PageAddresses(PageStart(e.start), e.end))
      [] loop[1] = "free"     -> slab_free(x, "range", e.object)
      [] loop[1] = "ranges"   -> SegmentRange(x, e)
      [] loop[1] = "bytes"    -> WriteOne(x, loop[2], loop[3], e)
      [] loop[1] = "segments" -> CopySegment(x, loop[2], e)
      [] loop[1] = "copy"     -> CopyPage(x, loop[2], loop[3], e)
      [] loop[1] = "fork"     -> ForkRange(loop[2], x, e)

\* g is the function that FoldLeft defines to fold such turns over n elements.
FoldEq(loop, g, n, d, s) ==
    g = [c \in SUBSET (1 .. n) |-> IF c = {} THEN d ELSE Turn(loop, g[c \ {Max(c)}], s[Max(c)])]

\* The greatest element of a set that b bounds and is in.
LEMMA MaxOfSet ==
    ASSUME NEW b \in Nat, NEW c \in SUBSET (1 .. b), b \in c
    PROVE  Max(c) = b
<1>1. \A y \in c : b >= y
    OBVIOUS
<1>2. ASSUME NEW x \in c, \A y \in c : x >= y PROVE x = b
    BY <1>2
<1> QED
    BY <1>1, <1>2 DEF Max

\* Such a function exists.
LEMMA FoldExists ==
    ASSUME NEW loop, NEW d, NEW s, NEW n \in Nat
    PROVE  \E g : FoldEq(loop, g, n, d, s)
<1> DEFINE Bad == {k \in Nat : ~ \E g : FoldEq(loop, g, k, d, s)}
<1> SUFFICES ASSUME Bad # {} PROVE FALSE
    OBVIOUS
<1>1. PICK b \in Bad : \A k \in Bad : b <= k
    BY LeastNatural
<1>2. CASE b = 0
  <2> DEFINE g == [c \in SUBSET (1 .. 0) |-> d]
  <2>1. \A c \in SUBSET (1 .. 0) : c = {}
    OBVIOUS
  <2>2. FoldEq(loop, g, 0, d, s)
    BY <2>1 DEF FoldEq
  <2> QED
    BY <1>1, <1>2, <2>2
<1>3. CASE b # 0
  <2>1. b \in Nat /\ b - 1 \in Nat /\ b - 1 \notin Bad
    BY <1>1, <1>3
  <2>2. PICK g : FoldEq(loop, g, b - 1, d, s)
    BY <2>1
  <2> DEFINE h == [c \in SUBSET (1 .. b) |-> IF b \in c THEN Turn(loop, g[c \ {b}], s[b]) ELSE g[c]]
  <2>3. ASSUME NEW c \in SUBSET (1 .. b)
        PROVE  h[c] = IF c = {} THEN d ELSE Turn(loop, h[c \ {Max(c)}], s[Max(c)])
    <3>1. CASE b \in c
      <4>1. Max(c) = b /\ c # {}
        BY <2>1, <3>1, MaxOfSet
      <4>2. c \ {b} \in SUBSET (1 .. b) /\ b \notin c \ {b}
        OBVIOUS
      <4>3. h[c \ {b}] = g[c \ {b}]
        BY <4>2
      <4>4. h[c] = Turn(loop, g[c \ {b}], s[b])
        BY <3>1
      <4> HIDE DEF h
      <4> QED
        BY <4>1, <4>3, <4>4
    <3>2. CASE b \notin c
      <4>1. c \in SUBSET (1 .. b - 1)
        BY <2>1, <3>2
      <4>2. g[c] = IF c = {} THEN d ELSE Turn(loop, g[c \ {Max(c)}], s[Max(c)])
        BY <2>2, <4>1 DEF FoldEq
      <4>3. c \ {Max(c)} \in SUBSET (1 .. b) /\ b \notin c \ {Max(c)}
        BY <3>2
      <4>4. h[c \ {Max(c)}] = g[c \ {Max(c)}]
        BY <4>3
      <4>5. h[c] = g[c]
        BY <3>2
      <4> HIDE DEF h
      <4> QED
        BY <4>2, <4>4, <4>5
    <3> QED
      BY <3>1, <3>2
  <2>4. h = [c \in SUBSET (1 .. b) |-> h[c]]
    OBVIOUS
  <2> HIDE DEF h
  <2>5. FoldEq(loop, h, b, d, s)
    BY <2>3, <2>4 DEF FoldEq
  <2> QED
    BY <1>1, <2>5
<1> QED
    BY <1>2, <1>3

\* h[k] is the value d after k turns of the loop over the sequence s.
Turns(loop, h, n, d, s) ==
    /\ h[0] = d
    /\ \A k \in 1 .. n : h[k] = Turn(loop, h[k - 1], s[k])

\* The function that FoldLeft defines goes through these turns.
LEMMA FoldGoes ==
    ASSUME NEW loop, NEW g, NEW d, NEW s, NEW n \in Nat, FoldEq(loop, g, n, d, s)
    PROVE  \E h : Turns(loop, h, n, d, s) /\ g[1 .. n] = h[n]
<1>1. g[{}] = d
    BY DEF FoldEq
<1>2. ASSUME NEW k \in 1 .. n PROVE g[1 .. k] = Turn(loop, g[1 .. k - 1], s[k])
  <2>1. 1 .. k \in SUBSET (1 .. n) /\ k \in 1 .. k /\ 1 .. k # {} /\ k \in Nat
    OBVIOUS
  <2>2. Max(1 .. k) = k
    BY <2>1, MaxOfSet
  <2>3. (1 .. k) \ {k} = 1 .. k - 1
    OBVIOUS
  <2> QED
    BY <2>1, <2>2, <2>3 DEF FoldEq
<1> DEFINE h == [k \in 0 .. n |-> g[1 .. k]]
<1>3. h[0] = d
  <2>1. 1 .. 0 = {}
    OBVIOUS
  <2> QED
    BY <1>1, <2>1
<1>4. ASSUME NEW k \in 1 .. n PROVE h[k] = Turn(loop, h[k - 1], s[k])
    BY <1>2
<1>5. h[n] = g[1 .. n]
    OBVIOUS
<1> HIDE DEF h
<1> QED
    BY <1>3, <1>4, <1>5 DEF Turns

\* The loop that maps pages.
LEMMA MapTurns ==
    ASSUME NEW r, NEW mm, NEW s, NEW n \in Nat, DOMAIN s = 1 .. n
    PROVE  \E h : Turns(<<"map", r>>, h, n, mm, s) /\ MapPages(mm, r, s) = h[n]
<1> DEFINE loop == <<"map", r>>
           g == CHOOSE g : g = [c \in SUBSET (1 .. n) |->
                    IF c = {} THEN mm ELSE MapOne(g[c \ {Max(c)}], r, s[Max(c)])]
           z == MapPages(mm, r, s)
<1>1. z = g[1 .. n]
    BY DEF MapPages, FoldLeft, MapThenFoldSet, MapOne
<1>2. \A x, e : Turn(loop, x, e) = MapOne(x, r, e)
    BY DEF Turn
<1> HIDE DEF loop
<1>3. \E f : f = [c \in SUBSET (1 .. n) |->
                    IF c = {} THEN mm ELSE MapOne(f[c \ {Max(c)}], r, s[Max(c)])]
  <2>1. PICK f : FoldEq(loop, f, n, mm, s)
    BY FoldExists
  <2>2. f = [c \in SUBSET (1 .. n) |-> IF c = {} THEN mm ELSE MapOne(f[c \ {Max(c)}], r, s[Max(c)])]
    BY <1>2, <2>1 DEF FoldEq
  <2> QED
    BY <2>2
<1>4. g = [c \in SUBSET (1 .. n) |-> IF c = {} THEN mm ELSE MapOne(g[c \ {Max(c)}], r, s[Max(c)])]
    BY <1>3
<1> HIDE DEF g
<1>5. FoldEq(loop, g, n, mm, s)
    BY <1>2, <1>4 DEF FoldEq
<1>6. \E h : Turns(loop, h, n, mm, s) /\ g[1 .. n] = h[n]
    BY <1>5, FoldGoes
<1> HIDE DEF z
<1> QED
    BY <1>1, <1>6 DEF loop, z

\* The loop over the ranges of a task.
LEMMA SetupTurns ==
    ASSUME NEW r, NEW mm, NEW s, NEW n \in Nat, DOMAIN s = 1 .. n
    PROVE  \E h : Turns(<<"setup", r>>, h, n, mm, s) /\ setup_userspace_memory(mm, r, s) = h[n]
<1> DEFINE loop == <<"setup", r>>
           g == CHOOSE g : g = [c \in SUBSET (1 .. n) |->
                    IF c = {} THEN mm ELSE MapPages(g[c \ {Max(c)}], r, PageAddresses(PageStart(s[Max(c)].start), s[Max(c)].end))]
           z == setup_userspace_memory(mm, r, s)
<1>1. z = g[1 .. n]
    BY DEF setup_userspace_memory, FoldLeft, MapThenFoldSet
<1>2. \A x, e : Turn(loop, x, e) = MapPages(x, r, PageAddresses(PageStart(e.start), e.end))
    BY DEF Turn
<1> HIDE DEF loop
<1>3. \E f : f = [c \in SUBSET (1 .. n) |->
                    IF c = {} THEN mm ELSE MapPages(f[c \ {Max(c)}], r, PageAddresses(PageStart(s[Max(c)].start), s[Max(c)].end))]
  <2>1. PICK f : FoldEq(loop, f, n, mm, s)
    BY FoldExists
  <2>2. f = [c \in SUBSET (1 .. n) |-> IF c = {} THEN mm ELSE MapPages(f[c \ {Max(c)}], r, PageAddresses(PageStart(s[Max(c)].start), s[Max(c)].end))]
    BY <1>2, <2>1 DEF FoldEq
  <2> QED
    BY <2>2
<1>4. g = [c \in SUBSET (1 .. n) |-> IF c = {} THEN mm ELSE MapPages(g[c \ {Max(c)}], r, PageAddresses(PageStart(s[Max(c)].start), s[Max(c)].end))]
    BY <1>3
<1> HIDE DEF g
<1>5. FoldEq(loop, g, n, mm, s)
    BY <1>2, <1>4 DEF FoldEq
<1>6. \E h : Turns(loop, h, n, mm, s) /\ g[1 .. n] = h[n]
    BY <1>5, FoldGoes
<1> HIDE DEF z
<1> QED
    BY <1>1, <1>6 DEF loop, z

\* The loop that frees the structs of the ranges.
LEMMA FreeTurns ==
    ASSUME NEW mm, NEW s, NEW n \in Nat, DOMAIN s = 1 .. n
    PROVE  \E h : Turns(<<"free">>, h, n, mm, s) /\ FreeRanges(mm, s) = h[n]
<1> DEFINE loop == <<"free">>
           g == CHOOSE g : g = [c \in SUBSET (1 .. n) |->
                    IF c = {} THEN mm ELSE slab_free(g[c \ {Max(c)}], "range", s[Max(c)].object)]
           z == FreeRanges(mm, s)
<1>1. z = g[1 .. n]
    BY DEF FreeRanges, FoldLeft, MapThenFoldSet
<1>2. \A x, e : Turn(loop, x, e) = slab_free(x, "range", e.object)
    BY DEF Turn
<1> HIDE DEF loop
<1>3. \E f : f = [c \in SUBSET (1 .. n) |->
                    IF c = {} THEN mm ELSE slab_free(f[c \ {Max(c)}], "range", s[Max(c)].object)]
  <2>1. PICK f : FoldEq(loop, f, n, mm, s)
    BY FoldExists
  <2>2. f = [c \in SUBSET (1 .. n) |-> IF c = {} THEN mm ELSE slab_free(f[c \ {Max(c)}], "range", s[Max(c)].object)]
    BY <1>2, <2>1 DEF FoldEq
  <2> QED
    BY <2>2
<1>4. g = [c \in SUBSET (1 .. n) |-> IF c = {} THEN mm ELSE slab_free(g[c \ {Max(c)}], "range", s[Max(c)].object)]
    BY <1>3
<1> HIDE DEF g
<1>5. FoldEq(loop, g, n, mm, s)
    BY <1>2, <1>4 DEF FoldEq
<1>6. \E h : Turns(loop, h, n, mm, s) /\ g[1 .. n] = h[n]
    BY <1>5, FoldGoes
<1> HIDE DEF z
<1> QED
    BY <1>1, <1>6 DEF loop, z

\* The loop that makes the ranges of a program.
LEMMA RangesTurns ==
    ASSUME NEW mm, NEW s, NEW n \in Nat, DOMAIN s = 1 .. n
    PROVE  \E h : Turns(<<"ranges">>, h, n, mm, s) /\ MakeRanges(mm, s) = h[n]
<1> DEFINE loop == <<"ranges">>
           g == CHOOSE g : g = [c \in SUBSET (1 .. n) |->
                    IF c = {} THEN mm ELSE SegmentRange(g[c \ {Max(c)}], s[Max(c)])]
           z == MakeRanges(mm, s)
<1>1. z = g[1 .. n]
    BY DEF MakeRanges, FoldLeft, MapThenFoldSet
<1>2. \A x, e : Turn(loop, x, e) = SegmentRange(x, e)
    BY DEF Turn
<1> HIDE DEF loop
<1>3. \E f : f = [c \in SUBSET (1 .. n) |->
                    IF c = {} THEN mm ELSE SegmentRange(f[c \ {Max(c)}], s[Max(c)])]
  <2>1. PICK f : FoldEq(loop, f, n, mm, s)
    BY FoldExists
  <2>2. f = [c \in SUBSET (1 .. n) |-> IF c = {} THEN mm ELSE SegmentRange(f[c \ {Max(c)}], s[Max(c)])]
    BY <1>2, <2>1 DEF FoldEq
  <2> QED
    BY <2>2
<1>4. g = [c \in SUBSET (1 .. n) |-> IF c = {} THEN mm ELSE SegmentRange(g[c \ {Max(c)}], s[Max(c)])]
    BY <1>3
<1> HIDE DEF g
<1>5. FoldEq(loop, g, n, mm, s)
    BY <1>2, <1>4 DEF FoldEq
<1>6. \E h : Turns(loop, h, n, mm, s) /\ g[1 .. n] = h[n]
    BY <1>5, FoldGoes
<1> HIDE DEF z
<1> QED
    BY <1>1, <1>6 DEF loop, z

\* The loop over the bytes of a segment.
LEMMA BytesTurns ==
    ASSUME NEW r, NEW seg, NEW mm, NEW s, NEW n \in Nat, DOMAIN s = 1 .. n
    PROVE  \E h : Turns(<<"bytes", r, seg>>, h, n, mm, s) /\ WriteAll(mm, r, seg, s) = h[n]
<1> DEFINE loop == <<"bytes", r, seg>>
           g == CHOOSE g : g = [c \in SUBSET (1 .. n) |->
                    IF c = {} THEN mm ELSE WriteOne(g[c \ {Max(c)}], r, seg, s[Max(c)])]
           z == WriteAll(mm, r, seg, s)
<1>1. z = g[1 .. n]
    BY DEF WriteAll, FoldLeft, MapThenFoldSet
<1>2. \A x, e : Turn(loop, x, e) = WriteOne(x, r, seg, e)
    BY DEF Turn
<1> HIDE DEF loop
<1>3. \E f : f = [c \in SUBSET (1 .. n) |->
                    IF c = {} THEN mm ELSE WriteOne(f[c \ {Max(c)}], r, seg, s[Max(c)])]
  <2>1. PICK f : FoldEq(loop, f, n, mm, s)
    BY FoldExists
  <2>2. f = [c \in SUBSET (1 .. n) |-> IF c = {} THEN mm ELSE WriteOne(f[c \ {Max(c)}], r, seg, s[Max(c)])]
    BY <1>2, <2>1 DEF FoldEq
  <2> QED
    BY <2>2
<1>4. g = [c \in SUBSET (1 .. n) |-> IF c = {} THEN mm ELSE WriteOne(g[c \ {Max(c)}], r, seg, s[Max(c)])]
    BY <1>3
<1> HIDE DEF g
<1>5. FoldEq(loop, g, n, mm, s)
    BY <1>2, <1>4 DEF FoldEq
<1>6. \E h : Turns(loop, h, n, mm, s) /\ g[1 .. n] = h[n]
    BY <1>5, FoldGoes
<1> HIDE DEF z
<1> QED
    BY <1>1, <1>6 DEF loop, z

\* The loop over the segments of a program.
LEMMA SegmentsTurns ==
    ASSUME NEW r, NEW mm, NEW s, NEW n \in Nat, DOMAIN s = 1 .. n
    PROVE  \E h : Turns(<<"segments", r>>, h, n, mm, s) /\ CopySegments(mm, r, s) = h[n]
<1> DEFINE loop == <<"segments", r>>
           g == CHOOSE g : g = [c \in SUBSET (1 .. n) |->
                    IF c = {} THEN mm ELSE CopySegment(g[c \ {Max(c)}], r, s[Max(c)])]
           z == CopySegments(mm, r, s)
<1>1. z = g[1 .. n]
    BY DEF CopySegments, FoldLeft, MapThenFoldSet
<1>2. \A x, e : Turn(loop, x, e) = CopySegment(x, r, e)
    BY DEF Turn
<1> HIDE DEF loop
<1>3. \E f : f = [c \in SUBSET (1 .. n) |->
                    IF c = {} THEN mm ELSE CopySegment(f[c \ {Max(c)}], r, s[Max(c)])]
  <2>1. PICK f : FoldEq(loop, f, n, mm, s)
    BY FoldExists
  <2>2. f = [c \in SUBSET (1 .. n) |-> IF c = {} THEN mm ELSE CopySegment(f[c \ {Max(c)}], r, s[Max(c)])]
    BY <1>2, <2>1 DEF FoldEq
  <2> QED
    BY <2>2
<1>4. g = [c \in SUBSET (1 .. n) |-> IF c = {} THEN mm ELSE CopySegment(g[c \ {Max(c)}], r, s[Max(c)])]
    BY <1>3
<1> HIDE DEF g
<1>5. FoldEq(loop, g, n, mm, s)
    BY <1>2, <1>4 DEF FoldEq
<1>6. \E h : Turns(loop, h, n, mm, s) /\ g[1 .. n] = h[n]
    BY <1>5, FoldGoes
<1> HIDE DEF z
<1> QED
    BY <1>1, <1>6 DEF loop, z

\* The loop over the pages that a fork copies.
LEMMA CopyTurns ==
    ASSUME NEW r, NEW q, NEW mm, NEW s, NEW n \in Nat, DOMAIN s = 1 .. n
    PROVE  \E h : Turns(<<"copy", r, q>>, h, n, mm, s) /\ CopyPages(mm, r, q, s) = h[n]
<1> DEFINE loop == <<"copy", r, q>>
           g == CHOOSE g : g = [c \in SUBSET (1 .. n) |->
                    IF c = {} THEN mm ELSE CopyPage(g[c \ {Max(c)}], r, q, s[Max(c)])]
           z == CopyPages(mm, r, q, s)
<1>1. z = g[1 .. n]
    BY DEF CopyPages, FoldLeft, MapThenFoldSet
<1>2. \A x, e : Turn(loop, x, e) = CopyPage(x, r, q, e)
    BY DEF Turn
<1> HIDE DEF loop
<1>3. \E f : f = [c \in SUBSET (1 .. n) |->
                    IF c = {} THEN mm ELSE CopyPage(f[c \ {Max(c)}], r, q, s[Max(c)])]
  <2>1. PICK f : FoldEq(loop, f, n, mm, s)
    BY FoldExists
  <2>2. f = [c \in SUBSET (1 .. n) |-> IF c = {} THEN mm ELSE CopyPage(f[c \ {Max(c)}], r, q, s[Max(c)])]
    BY <1>2, <2>1 DEF FoldEq
  <2> QED
    BY <2>2
<1>4. g = [c \in SUBSET (1 .. n) |-> IF c = {} THEN mm ELSE CopyPage(g[c \ {Max(c)}], r, q, s[Max(c)])]
    BY <1>3
<1> HIDE DEF g
<1>5. FoldEq(loop, g, n, mm, s)
    BY <1>2, <1>4 DEF FoldEq
<1>6. \E h : Turns(loop, h, n, mm, s) /\ g[1 .. n] = h[n]
    BY <1>5, FoldGoes
<1> HIDE DEF z
<1> QED
    BY <1>1, <1>6 DEF loop, z

\* The loop over the ranges that a fork copies.
LEMMA ForkTurns ==
    ASSUME NEW parent, NEW mm, NEW s, NEW n \in Nat, DOMAIN s = 1 .. n
    PROVE  \E h : Turns(<<"fork", parent>>, h, n, mm, s) /\ ForkRanges(parent, mm, s) = h[n]
<1> DEFINE loop == <<"fork", parent>>
           g == CHOOSE g : g = [c \in SUBSET (1 .. n) |->
                    IF c = {} THEN mm ELSE ForkRange(parent, g[c \ {Max(c)}], s[Max(c)])]
           z == ForkRanges(parent, mm, s)
<1>1. z = g[1 .. n]
    BY DEF ForkRanges, FoldLeft, MapThenFoldSet
<1>2. \A x, e : Turn(loop, x, e) = ForkRange(parent, x, e)
    BY DEF Turn
<1> HIDE DEF loop
<1>3. \E f : f = [c \in SUBSET (1 .. n) |->
                    IF c = {} THEN mm ELSE ForkRange(parent, f[c \ {Max(c)}], s[Max(c)])]
  <2>1. PICK f : FoldEq(loop, f, n, mm, s)
    BY FoldExists
  <2>2. f = [c \in SUBSET (1 .. n) |-> IF c = {} THEN mm ELSE ForkRange(parent, f[c \ {Max(c)}], s[Max(c)])]
    BY <1>2, <2>1 DEF FoldEq
  <2> QED
    BY <2>2
<1>4. g = [c \in SUBSET (1 .. n) |-> IF c = {} THEN mm ELSE ForkRange(parent, g[c \ {Max(c)}], s[Max(c)])]
    BY <1>3
<1> HIDE DEF g
<1>5. FoldEq(loop, g, n, mm, s)
    BY <1>2, <1>4 DEF FoldEq
<1>6. \E h : Turns(loop, h, n, mm, s) /\ g[1 .. n] = h[n]
    BY <1>5, FoldGoes
<1> HIDE DEF z
<1> QED
    BY <1>1, <1>6 DEF loop, z

-----------------------------------------------------------------------------
(* Ranges of addresses and their pages.                                    *)

\* The pages of the addresses from..to-1.
PagesOf(from, to) == {PageNumber(a) : a \in from .. to - 1}

\* The quotient and the remainder of a multiple.
LEMMA MultipleIs ==
    ASSUME NEW c \in Nat \ {0}, NEW q \in Nat, NEW x, x = q * c
    PROVE  x \in Nat /\ x \div c = q /\ x % c = 0
<1> DEFINE o == 0
<1>1. o \in 0 .. c - 1 /\ x = q * c + o
    OBVIOUS
<1> HIDE DEF o
<1>2. x \in Nat /\ x \div c = q /\ x % c = o
    BY <1>1, DivUnique
<1> QED
    BY <1>2 DEF o

\* User memory and the stack are whole pages.
LEMMA UserPages ==
    /\ UserEnd \in Nat /\ STACK \in Nat /\ STACK < UserEnd /\ STACK = UserEnd - PAGE_SIZE /\ STACK > 0
    /\ UserEnd % PAGE_SIZE = 0 /\ STACK % PAGE_SIZE = 0
    /\ PAGE_SIZE \in Nat \ {0}
<1> DEFINE X == (PAGE_SIZE \div 2) * PAGE_SIZE * PAGE_SIZE * PAGE_SIZE
<1>1. PAGE_SIZE \in Nat \ {0} /\ PAGE_SIZE \div 2 \in Nat \ {0} /\ 0 \in 0 .. PAGE_SIZE - 1
    BY MemoryConstants DEF Half
<1>2. X \in Nat /\ X >= 2 /\ UserEnd = X * PAGE_SIZE
  <2> DEFINE p == PAGE_SIZE
             q == PAGE_SIZE \div 2
  <2>1. \A a, b \in Nat \ {0} : a * b \in Nat \ {0}
    OBVIOUS
  <2>2. p \in Nat \ {0} /\ q \in Nat \ {0} /\ X = q * p * p * p
    BY <1>1
  <2> HIDE DEF p, q
  <2>3. q * p \in Nat \ {0}
    BY <2>1, <2>2
  <2> DEFINE u == q * p
  <2> HIDE DEF u
  <2>4. u * p \in Nat \ {0}
    BY <2>1, <2>2, <2>3 DEF u
  <2> DEFINE v == u * p
  <2> HIDE DEF v
  <2>5. v * p \in Nat /\ v * p >= 2
    <3>1. \A a, b \in Nat : a >= 1 /\ b >= 2 => a * b \in Nat /\ a * b >= 2
      OBVIOUS
    <3>2. v \in Nat /\ v >= 1 /\ p \in Nat /\ p >= 2
      BY <2>4, MemoryConstants DEF v, p
    <3> QED
      BY <3>1, <3>2
  <2> QED
    BY <2>2, <2>5 DEF u, v, UserEnd
<1> HIDE DEF X
<1>3. X - 1 \in Nat /\ STACK = (X - 1) * PAGE_SIZE
    BY <1>1, <1>2 DEF STACK
<1>4. UserEnd \in Nat /\ UserEnd % PAGE_SIZE = 0
    BY <1>1, <1>2, MultipleIs
<1>5. STACK \in Nat /\ STACK % PAGE_SIZE = 0
  <2> DEFINE y == X - 1
  <2>1. y \in Nat /\ STACK = y * PAGE_SIZE
    BY <1>3
  <2> HIDE DEF y
  <2> QED
    BY <1>1, <2>1, MultipleIs
<1>6. STACK = UserEnd - PAGE_SIZE /\ STACK < UserEnd
    BY <1>1, <1>4, <1>5 DEF STACK
<1>7. STACK > 0
  <2>1. \A a, b \in Nat \ {0} : a * b \in Nat \ {0}
    OBVIOUS
  <2> DEFINE y == X - 1
  <2>2. y \in Nat \ {0} /\ STACK = y * PAGE_SIZE
    BY <1>2, <1>3
  <2> HIDE DEF y
  <2>3. y * PAGE_SIZE \in Nat \ {0}
    BY <1>1, <2>1, <2>2
  <2> QED
    BY <2>2, <2>3
<1> QED
    BY <1>1, <1>4, <1>5, <1>6, <1>7

\* An aligned address is a multiple of the size of a page.
LEMMA Aligned ==
    ASSUME NEW a \in Nat, a % PAGE_SIZE = 0
    PROVE  \E k \in Nat : a = k * PAGE_SIZE /\ k = PageNumber(a)
<1>1. PAGE_SIZE \in Nat \ {0}
    BY UserPages
<1>2. a \div PAGE_SIZE \in Nat /\ a = (a \div PAGE_SIZE) * PAGE_SIZE + (a % PAGE_SIZE)
    BY <1>1, DivMod
<1> DEFINE k == a \div PAGE_SIZE
<1>3. k \in Nat /\ a = k * PAGE_SIZE + 0 /\ k = PageNumber(a)
    BY <1>2 DEF PageNumber
<1> HIDE DEF k
<1>4. k * PAGE_SIZE \in Nat
    BY <1>1, <1>3
<1> QED
    BY <1>3, <1>4

\* Before a page boundary there is room for a page.
LEMMA RoomForPage ==
    ASSUME NEW a \in Nat, a % PAGE_SIZE = 0, NEW b \in Nat, b % PAGE_SIZE = 0, a < b
    PROVE  a + PAGE_SIZE <= b
<1>1. PAGE_SIZE \in Nat \ {0}
    BY UserPages
<1>2. PICK k \in Nat : a = k * PAGE_SIZE
    BY Aligned
<1>3. PICK i \in Nat : b = i * PAGE_SIZE
    BY Aligned
<1>4. k < i
    BY <1>1, <1>2, <1>3, FewerMultiples
<1>5. (i - k) * PAGE_SIZE = i * PAGE_SIZE - k * PAGE_SIZE
    BY <1>1
<1>6. (i - k) * PAGE_SIZE >= PAGE_SIZE
  <2> DEFINE d == (i - k) - 1
             p == PAGE_SIZE
  <2>1. d \in Nat /\ i - k = d + 1 /\ p \in Nat
    BY <1>1, <1>4
  <2>2. d * p \in Nat /\ (d + 1) * p = d * p + p
    BY <2>1
  <2> QED
    BY <2>1, <2>2
<1> QED
    BY <1>1, <1>2, <1>3, <1>5, <1>6

\* The pages of ranges that do not overlap, the later one aligned.
LEMMA PagesApart ==
    ASSUME NEW s \in Nat, NEW e \in Nat, NEW t \in Nat, NEW f \in Nat, e <= t, t % PAGE_SIZE = 0
    PROVE  PagesOf(s, e) \cap PagesOf(t, f) = {}
<1> SUFFICES ASSUME NEW a \in s .. e - 1, NEW b \in t .. f - 1, PageNumber(a) = PageNumber(b) PROVE FALSE
    BY DEF PagesOf
<1>1. PAGE_SIZE \in Nat \ {0} /\ a \in Nat /\ b \in Nat /\ a < t /\ t <= b
    BY UserPages
<1>2. PICK k \in Nat : t = k * PAGE_SIZE
    BY Aligned
<1> DEFINE q == PageNumber(a)
<1>3. /\ q \in Nat /\ a % PAGE_SIZE \in 0 .. PAGE_SIZE - 1 /\ a = q * PAGE_SIZE + (a % PAGE_SIZE)
      /\ b % PAGE_SIZE \in 0 .. PAGE_SIZE - 1 /\ b = q * PAGE_SIZE + (b % PAGE_SIZE)
    BY <1>1, DivMod DEF PageNumber
<1> HIDE DEF q
<1>4. q * PAGE_SIZE \in Nat /\ (q + 1) * PAGE_SIZE = q * PAGE_SIZE + PAGE_SIZE
    BY <1>1, <1>3
<1>5. q * PAGE_SIZE < k * PAGE_SIZE /\ k * PAGE_SIZE < (q + 1) * PAGE_SIZE
    BY <1>1, <1>2, <1>3, <1>4
<1>6. q < k
    BY <1>1, <1>3, <1>5, FewerMultiples
<1>7. k < q + 1
  <2> DEFINE z == q + 1
  <2>1. z \in Int /\ k * PAGE_SIZE < z * PAGE_SIZE
    BY <1>3, <1>5
  <2> HIDE DEF z
  <2>2. k < z
    BY <1>1, <2>1, FewerMultiples
  <2> QED
    BY <2>2 DEF z
<1> QED
    BY <1>3, <1>6, <1>7

\* The addresses of a loop over pages, what is left of the arithmetic.
LEMMA PageSteps ==
    ASSUME NEW from \in Nat, from % PAGE_SIZE = 0, NEW to \in Nat, from <= to
    PROVE  LET s == PageAddresses(from, to)
               n == Len(s)
               end == from + n * PAGE_SIZE
           IN /\ n \in Nat /\ DOMAIN s = 1 .. n
              /\ \A i \in 1 .. n : s[i] \in from .. to - 1 /\ s[i] % PAGE_SIZE = 0
              /\ \A i, j \in 1 .. n : PageNumber(s[i]) = PageNumber(s[j]) => i = j
              /\ end \in Nat /\ to <= end /\ end % PAGE_SIZE = 0
              /\ \A k \in Nat : to <= k /\ k % PAGE_SIZE = 0 => end <= k
              /\ PagesOf(from, to) = {PageNumber(s[i]) : i \in 1 .. n}
              /\ PagesOf(from, end) = PagesOf(from, to)
<1> DEFINE P == PAGE_SIZE
           d == to - from
           n == (d + P - 1) \div P
           s == PageAddresses(from, to)
           end == from + n * P
<1>1. P \in Nat \ {0} /\ d \in Nat /\ 0 \in 0 .. P - 1
    BY UserPages
<1>2. PICK f \in Nat : from = f * P
    BY Aligned
<1>3. PICK q \in 0 .. P - 1 : n \in Nat /\ d + P - 1 = n * P + q
  <2> DEFINE x == d + P - 1
  <2>1. x \in Nat
    BY <1>1
  <2> HIDE DEF x
  <2>2. x \div P \in Nat /\ x % P \in 0 .. P - 1 /\ x = (x \div P) * P + (x % P)
    BY <1>1, <2>1, DivMod
  <2> QED
    BY <2>2 DEF x
<1>4. s = [i \in 1 .. n |-> from + (i - 1) * P]
  <2>1. to - from + PAGE_SIZE - 1 = d + P - 1
    BY <1>1
  <2> QED
    BY <2>1 DEF PageAddresses
<1> HIDE DEF n, s, d
<1>5. Len(s) = n /\ DOMAIN s = 1 .. n /\ \A i \in 1 .. n : s[i] = from + (i - 1) * P
    BY <1>3, <1>4
<1>6. d <= n * P /\ n * P <= d + P - 1
    BY <1>1, <1>3
<1>7. ASSUME NEW i \in 1 .. n
      PROVE  s[i] \in from .. to - 1 /\ s[i] % P = 0 /\ PageNumber(s[i]) = f + (i - 1)
  <2> DEFINE j == i - 1
             u == f + j
  <2>1. j \in Nat /\ j < n /\ u \in Nat
    BY <1>3
  <2>2. s[i] = from + j * P
    BY <1>5
  <2> HIDE DEF j
  <2>3. j * P \in Nat /\ u * P = f * P + j * P
    BY <1>1, <2>1
  <2>4. s[i] = u * P
    BY <1>2, <2>2, <2>3
  <2>5. j * P < d
    <3>1. (n - 1) * P = n * P - P
      BY <1>1, <1>3
    <3>2. j * P <= (n - 1) * P
      <4> DEFINE e == (n - 1) - j
      <4>1. e \in Nat /\ n - 1 = j + e
        BY <1>3, <2>1
      <4> HIDE DEF e
      <4>2. (j + e) * P = j * P + e * P /\ e * P \in Nat
        BY <1>1, <2>1, <4>1
      <4> QED
        BY <2>3, <4>1, <4>2
    <3> QED
      BY <1>1, <1>3, <1>6, <2>3, <3>1, <3>2
  <2> HIDE DEF u
  <2>6. s[i] % P = 0 /\ s[i] \div P = u
    BY <1>1, <2>1, <2>4, MultipleIs
  <2>7. s[i] \in from .. to - 1
    BY <1>1, <2>2, <2>3, <2>5 DEF d
  <2> QED
    BY <2>6, <2>7 DEF PageNumber, u, j
<1>8. \A i, j \in 1 .. n : PageNumber(s[i]) = PageNumber(s[j]) => i = j
  <2> SUFFICES ASSUME NEW i \in 1 .. n, NEW j \in 1 .. n, PageNumber(s[i]) = PageNumber(s[j]) PROVE i = j
    OBVIOUS
  <2>1. f + (i - 1) = f + (j - 1)
    BY <1>7
  <2> QED
    BY <2>1
<1>9. n * P \in Nat /\ end \in Nat /\ to <= end /\ end <= to + P - 1
    BY <1>1, <1>3, <1>6 DEF d
<1>10. end % P = 0 /\ end = (f + n) * P
  <2> DEFINE u == f + n
  <2>1. u \in Nat /\ u * P = f * P + n * P
    BY <1>1, <1>3
  <2>2. end = u * P
    BY <1>2, <1>9, <2>1
  <2> HIDE DEF u
  <2> QED
    BY <1>1, <2>1, <2>2, MultipleIs DEF u
<1>11. ASSUME NEW k \in Nat, to <= k, k % P = 0 PROVE end <= k
  <2>1. CASE k < end
    <3>1. k + P <= end
      BY <1>9, <1>10, <1>11, <2>1, RoomForPage
    <3> QED
      BY <1>1, <1>9, <1>11, <3>1
  <2> QED
    BY <1>9, <2>1
<1>12. ASSUME NEW x \in Nat, to <= x, x <= end PROVE PagesOf(from, x) = {PageNumber(s[i]) : i \in 1 .. n}
  <2>1. ASSUME NEW a \in from .. x - 1 PROVE \E i \in 1 .. n : PageNumber(a) = PageNumber(s[i])
    <3> DEFINE e == a - from
               j == e \div P
               z == e % P
               u == f + j
    <3>1. e \in Nat /\ a = from + e /\ e < n * P
      BY <1>9, <1>12
    <3> HIDE DEF e
    <3>2. j \in Nat /\ j < n /\ z \in 0 .. P - 1 /\ e = j * P + z
      BY <1>1, <1>3, <3>1, DivMod, QuotientLess
    <3> HIDE DEF j, z
    <3>3. u * P = f * P + j * P /\ u \in Nat /\ j * P \in Nat
      BY <1>1, <3>2
    <3>4. a = u * P + z
      BY <1>2, <3>1, <3>2, <3>3
    <3> HIDE DEF u
    <3>5. PageNumber(a) = u
      BY <1>1, <3>2, <3>3, <3>4, DivUnique DEF PageNumber
    <3> DEFINE i == j + 1
    <3>6. i \in 1 .. n /\ i - 1 = j
      BY <1>3, <3>2
    <3> HIDE DEF i
    <3>7. PageNumber(s[i]) = f + (i - 1)
      BY <1>7, <3>6
    <3> QED
      BY <3>5, <3>6, <3>7 DEF u
  <2>2. ASSUME NEW i \in 1 .. n PROVE s[i] \in from .. x - 1
    BY <1>7, <1>12
  <2> QED
    BY <2>1, <2>2 DEF PagesOf
<1>13. PagesOf(from, to) = {PageNumber(s[i]) : i \in 1 .. n} /\ PagesOf(from, end) = {PageNumber(s[i]) : i \in 1 .. n}
    BY <1>9, <1>12
<1>14. \A i \in 1 .. n : s[i] \in from .. to - 1 /\ s[i] % P = 0
    BY <1>7
<1>15. \A k \in Nat : to <= k /\ k % P = 0 => end <= k
    BY <1>11
<1> HIDE DEF end
<1>16. end = from + Len(s) * PAGE_SIZE
    BY <1>5 DEF end
<1> QED
    BY <1>3, <1>5, <1>8, <1>9, <1>10, <1>13, <1>14, <1>15, <1>16 DEF s

\* The words of a page of user memory.
LEMMA PageInside ==
    ASSUME NEW a \in 0 .. UserEnd - 1, a % PAGE_SIZE = 0, NEW i \in Slots
    PROVE  a + i \in 0 .. UserEnd - 1
<1>1. UserEnd \in Nat /\ UserEnd % PAGE_SIZE = 0 /\ PAGE_SIZE \in Nat \ {0}
    BY UserPages
<1>2. a + PAGE_SIZE <= UserEnd
  <2>1. a \in Nat /\ a < UserEnd
    BY <1>1
  <2> QED
    BY <1>1, <2>1, RoomForPage
<1> QED
    BY <1>1, <1>2 DEF Slots

\* The memory, unless the kernel panicked.
Gives(x, R, O, D, T, S) == Panicked(x) \/ Holds(x, R, O, D, T, S)

\* Pages are mapped in r, or mapped and copied from the memory under another PML4.
PageLoops(r, R) == {<<"map", r>>} \cup {<<"copy", r, q>> : q \in R}

\* One page.
LEMMA PageTurn ==
    ASSUME NEW R, NEW O, NEW E, NEW T, NEW S, NEW r \in R, NEW loop \in PageLoops(r, R),
           NEW a \in 0 .. UserEnd - 1, a % PAGE_SIZE = 0, NEW x, Gives(x, R, O, E, T, S),
           NEW y, y = <<r, PageNumber(a)>>, y \notin E
    PROVE  Gives(Turn(loop, x, a), R, O, E \cup {y}, T, S)
<1> DEFINE n == map_user_page(x, r, a)
<1>1. \/ Panicked(n.mm)
      \/ Holds(n.mm, R, O, E \cup {y}, T, S) /\ n.page = Walk(n.mm, r, a)
  <2>1. CASE Panicked(x)
    BY <2>1, MapPanics
  <2>2. CASE Holds(x, R, O, E, T, S)
    <3>1. n = map_user_page(x, r, a)
      OBVIOUS
    <3> HIDE DEF n
    <3> QED
      BY <2>2, <3>1, HoldsMap
  <2> QED
    BY <2>1, <2>2 DEF Gives
<1>2. CASE loop = <<"map", r>>
  <2>1. Turn(loop, x, a) = n.mm
    BY <1>2 DEF Turn, MapOne
  <2> HIDE DEF n
  <2> QED
    BY <1>1, <2>1 DEF Gives
<1>3. ASSUME NEW q \in R, loop = <<"copy", r, q>> PROVE Gives(Turn(loop, x, a), R, O, E \cup {y}, T, S)
  <2> DEFINE w == [i \in Slots |-> Read(n.mm, q, a + i)]
             z == WithWord(n.mm, n.page, w)
  <2>1. Turn(loop, x, a) = CopyPage(x, r, q, a)
    BY <1>3 DEF Turn
  <2>2. CopyPage(x, r, q, a) = z
    BY DEF CopyPage, WithWord
  <2> HIDE DEF n
  <2>3. CASE Panicked(n.mm)
    <3> HIDE DEF w
    <3>1. Panicked(z)
      BY <2>3, PanicStays
    <3> QED
      BY <2>1, <2>2, <3>1 DEF Gives
  <2>4. CASE Holds(n.mm, R, O, E \cup {y}, T, S) /\ n.page = Walk(n.mm, r, a)
    <3>1. \A i \in Slots : a + i \in 0 .. UserEnd - 1
      BY PageInside
    <3>2. \A i \in Slots : Read(n.mm, q, a + i) \in Int
      BY <2>4, <3>1, HoldsRead
    <3>3. w \in [Slots -> Int]
      BY <3>2
    <3> HIDE DEF w
    <3> DEFINE v == n.mm
               F == E \cup {y}
    <3>4. z = WithWord(v, Walk(v, r, a), w) /\ Holds(v, R, O, F, T, S)
      BY <2>4
    <3> HIDE DEF z, v, F
    <3>5. Holds(z, R, O, F, T, S)
      BY <3>3, <3>4, HoldsPage
    <3> QED
      BY <2>1, <2>2, <3>5 DEF Gives, F
  <2> QED
    BY <1>1, <2>3, <2>4
<1> QED
    BY <1>2, <1>3 DEF PageLoops

\* The pages of a sequence of addresses.
Visited(r, s, n) == {<<r, PageNumber(s[i])>> : i \in 1 .. n}

\* All of them.
LEMMA PageLoop ==
    ASSUME NEW R, NEW O, NEW D, NEW T, NEW S, NEW r \in R, NEW loop \in PageLoops(r, R),
           NEW mm, Gives(mm, R, O, D, T, S), NEW n \in Nat, NEW s,
           \A i \in 1 .. n : s[i] \in 0 .. UserEnd - 1 /\ s[i] % PAGE_SIZE = 0,
           \A i, j \in 1 .. n : PageNumber(s[i]) = PageNumber(s[j]) => i = j,
           \A i \in 1 .. n : <<r, PageNumber(s[i])>> \notin D,
           NEW h, Turns(loop, h, n, mm, s)
    PROVE  Gives(h[n], R, O, D \cup Visited(r, s, n), T, S)
<1> DEFINE y(i) == <<r, PageNumber(s[i])>>
           Done(k) == D \cup {y(i) : i \in 1 .. k}
           Bad == {k \in 0 .. n : ~ Gives(h[k], R, O, Done(k), T, S)}
<1>1. /\ \A i \in 1 .. n : y(i) \notin D
      /\ \A i, j \in 1 .. n : y(i) = y(j) => i = j
    OBVIOUS
<1>2. Bad = {}
  <2> SUFFICES ASSUME Bad # {} PROVE FALSE
    OBVIOUS
  <2>1. Bad \in SUBSET Nat
    OBVIOUS
  <2>2. PICK b \in Bad : \A k \in Bad : b <= k
    BY <2>1, LeastNatural
  <2>3. b # 0
    <3>1. Done(0) = D
      OBVIOUS
    <3>2. h[0] = mm
      BY DEF Turns
    <3> HIDE DEF Done
    <3> QED
      BY <2>2, <3>1, <3>2
  <2>4. b \in 1 .. n /\ b - 1 \in 0 .. n /\ b - 1 \notin Bad
    <3>1. b \in 0 .. n
      BY <2>2
    <3> HIDE DEF Bad
    <3> QED
      BY <2>2, <2>3, <3>1
  <2>5. Gives(h[b - 1], R, O, Done(b - 1), T, S)
    BY <2>4
  <2>6. h[b] = Turn(loop, h[b - 1], s[b])
    BY <2>4 DEF Turns
  <2>7. y(b) \notin Done(b - 1) /\ Done(b) = Done(b - 1) \cup {y(b)}
    <3> HIDE DEF y
    <3>1. \A i : i \in 1 .. b <=> i \in 1 .. b - 1 \/ i = b
      BY <2>4
    <3>2. \A i \in 1 .. b - 1 : i \in 1 .. n /\ i # b
      BY <2>4
    <3>3. \A i \in 1 .. b - 1 : y(i) # y(b)
      BY <1>1, <2>4, <3>2
    <3>4. y(b) \notin Done(b - 1)
      BY <1>1, <2>4, <3>3
    <3>5. \A v : v \in Done(b) <=> v \in Done(b - 1) \/ v = y(b)
      BY <3>1
    <3> QED
      BY <3>4, <3>5
  <2>8. s[b] \in 0 .. UserEnd - 1 /\ s[b] % PAGE_SIZE = 0
    BY <2>4
  <2> DEFINE x == h[b - 1]
             E == Done(b - 1)
             v == y(b)
             a == s[b]
  <2>9. Gives(x, R, O, E, T, S) /\ v = <<r, PageNumber(a)>> /\ v \notin E /\ a \in 0 .. UserEnd - 1 /\ a % PAGE_SIZE = 0
    BY <2>5, <2>7, <2>8
  <2> HIDE DEF x, E, v, a
  <2>10. Gives(Turn(loop, x, a), R, O, E \cup {v}, T, S)
    BY <2>9, PageTurn
  <2>11. Gives(h[b], R, O, Done(b), T, S)
    <3> HIDE DEF Done, y
    <3> QED
      BY <2>6, <2>7, <2>10 DEF x, E, v, a
  <2> HIDE DEF Done
  <2> QED
    BY <2>2, <2>11
<1>3. n \in 0 .. n
    OBVIOUS
<1>4. Gives(h[n], R, O, Done(n), T, S)
  <2> HIDE DEF Done
  <2> QED
    BY <1>2, <1>3
<1> QED
    BY <1>4 DEF Visited

\* The pages of a range under a PML4.
Spots(r, from, to) == {r} \X PagesOf(from, to)

\* The addresses of a loop over the pages of a range.
LEMMA RangeLoop ==
    ASSUME NEW R, NEW O, NEW D, NEW T, NEW S, NEW r \in R, NEW loop \in PageLoops(r, R),
           NEW mm, Gives(mm, R, O, D, T, S),
           NEW from \in Nat, from % PAGE_SIZE = 0, NEW to \in Nat, from <= to, to <= UserEnd,
           D \cap Spots(r, from, to) = {},
           NEW s, s = PageAddresses(from, to), NEW h, Turns(loop, h, Len(s), mm, s)
    PROVE  Gives(h[Len(s)], R, O, D \cup Spots(r, from, to), T, S)
<1> DEFINE n == Len(s)
           Y == Visited(r, s, n)
<1>0. s = PageAddresses(from, to)
    OBVIOUS
<1>1. /\ n \in Nat
      /\ \A i \in 1 .. n : s[i] \in from .. to - 1 /\ s[i] % PAGE_SIZE = 0
      /\ \A i, j \in 1 .. n : PageNumber(s[i]) = PageNumber(s[j]) => i = j
      /\ PagesOf(from, to) = {PageNumber(s[i]) : i \in 1 .. n}
  <2> DEFINE z == PageAddresses(from, to)
             k == Len(z)
  <2>1. /\ k \in Nat
        /\ \A i \in 1 .. k : z[i] \in from .. to - 1 /\ z[i] % PAGE_SIZE = 0
        /\ \A i, j \in 1 .. k : PageNumber(z[i]) = PageNumber(z[j]) => i = j
        /\ PagesOf(from, to) = {PageNumber(z[i]) : i \in 1 .. k}
    BY PageSteps
  <2> QED
    BY <1>0, <2>1
<1> HIDE DEF n
<1>2. Spots(r, from, to) = Y
    BY <1>1 DEF Spots, Visited
<1>3. \A i \in 1 .. n : s[i] \in 0 .. UserEnd - 1 /\ s[i] % PAGE_SIZE = 0
    BY <1>1, UserPages
<1>4. \A i \in 1 .. n : <<r, PageNumber(s[i])>> \notin D
    BY <1>2 DEF Visited
<1>5. Turns(loop, h, n, mm, s)
    BY DEF n
<1>6. Gives(h[n], R, O, D \cup Y, T, S)
    BY <1>1, <1>3, <1>4, <1>5, PageLoop
<1> QED
    BY <1>2, <1>6 DEF n

\* The loop of setup_userspace_memory, and of brk, over the pages of a range.
LEMMA PagesMapped ==
    ASSUME NEW R, NEW O, NEW D, NEW T, NEW S, NEW r \in R, NEW mm, Gives(mm, R, O, D, T, S),
           NEW from \in Nat, from % PAGE_SIZE = 0, NEW to \in Nat, from <= to, to <= UserEnd,
           D \cap Spots(r, from, to) = {}
    PROVE  Gives(MapPages(mm, r, PageAddresses(from, to)), R, O, D \cup Spots(r, from, to), T, S)
<1> DEFINE s == PageAddresses(from, to)
           n == Len(s)
           loop == <<"map", r>>
<1>1. n \in Nat /\ DOMAIN s = 1 .. n
    BY PageSteps
<1>2. s = PageAddresses(from, to) /\ loop \in PageLoops(r, R)
    BY DEF PageLoops
<1>3. PICK h : Turns(<<"map", r>>, h, n, mm, s) /\ MapPages(mm, r, s) = h[n]
  <2> HIDE DEF s, n
  <2> QED
    BY <1>1, MapTurns
<1>4. Turns(loop, h, Len(s), mm, s) /\ MapPages(mm, r, s) = h[Len(s)]
    BY <1>3
<1> HIDE DEF s, loop
<1>5. Gives(h[Len(s)], R, O, D \cup Spots(r, from, to), T, S)
    BY <1>2, <1>4, RangeLoop
<1> QED
    BY <1>4, <1>5 DEF s

\* The loop of fork over the pages of a range.
LEMMA PagesCopied ==
    ASSUME NEW R, NEW O, NEW D, NEW T, NEW S, NEW r \in R, NEW q \in R, NEW mm, Gives(mm, R, O, D, T, S),
           NEW from \in Nat, from % PAGE_SIZE = 0, NEW to \in Nat, from <= to, to <= UserEnd,
           D \cap Spots(r, from, to) = {}
    PROVE  Gives(CopyPages(mm, r, q, PageAddresses(from, to)), R, O, D \cup Spots(r, from, to), T, S)
<1> DEFINE s == PageAddresses(from, to)
           n == Len(s)
           loop == <<"copy", r, q>>
<1>1. n \in Nat /\ DOMAIN s = 1 .. n
    BY PageSteps
<1>2. s = PageAddresses(from, to) /\ loop \in PageLoops(r, R)
    BY DEF PageLoops
<1>3. PICK h : Turns(<<"copy", r, q>>, h, n, mm, s) /\ CopyPages(mm, r, q, s) = h[n]
  <2> HIDE DEF s, n
  <2> QED
    BY <1>1, CopyTurns
<1>4. Turns(loop, h, Len(s), mm, s) /\ CopyPages(mm, r, q, s) = h[Len(s)]
    BY <1>3
<1> HIDE DEF s, loop
<1>5. Gives(h[Len(s)], R, O, D \cup Spots(r, from, to), T, S)
    BY <1>2, <1>4, RangeLoop
<1> QED
    BY <1>4, <1>5 DEF s

-----------------------------------------------------------------------------
(* The ranges of a task.                                                   *)

\* The fields of a task, of a range, and a memory with a task that is being made.
IsTask(t) ==
    t = [state |-> t.state, task_struct |-> t.task_struct, kernel_stack_pages |-> t.kernel_stack_pages,
         pml4_page |-> t.pml4_page, ranges |-> t.ranges, buffers |-> t.buffers,
         heap_bottom |-> t.heap_bottom, heap_top |-> t.heap_top, program_break |-> t.program_break]

IsRange(r) == r = [start |-> r.start, end |-> r.end, type |-> r.type, object |-> r.object]

Pair(x) == x = [mm |-> x.mm, task |-> x.task]

Sequence(q) == \E A : q \in Seq(A)

\* A range begins at a page and is in user memory.
RangeOK(r) ==
    /\ IsRange(r) /\ r.start \in Nat /\ r.end \in Nat
    /\ r.start % PAGE_SIZE = 0 /\ r.start <= r.end /\ r.end <= UserEnd

TwoApart(r, u) == r.end <= u.start \/ u.end <= r.start

\* The ranges of a task do not overlap.
ListOK(q) ==
    /\ Sequence(q)
    /\ \A i \in DOMAIN q : RangeOK(q[i])
    /\ \A i, j \in DOMAIN q : i # j => TwoApart(q[i], q[j])

\* Each has a struct of its own.
Distinct(q) == \A i, j \in DOMAIN q : q[i].object = q[j].object => i = j

ObjectsIn(q) == {q[i].object : i \in DOMAIN q}

SpotsOf(r, q) == UNION {Spots(r, q[i].start, q[i].end) : i \in DOMAIN q}

\* A task with other ranges.
WithRanges(task, q) == [task EXCEPT !.ranges = q]

\* The fields of a task with other ranges.
LEMMA WithRangesIs ==
    ASSUME NEW task, IsTask(task), NEW q, NEW u, u = WithRanges(task, q)
    PROVE  /\ IsTask(u) /\ u.ranges = q /\ u.pml4_page = task.pml4_page /\ u.task_struct = task.task_struct
           /\ u.kernel_stack_pages = task.kernel_stack_pages /\ u.buffers = task.buffers /\ u.state = task.state
           /\ u.heap_bottom = task.heap_bottom /\ u.heap_top = task.heap_top /\ u.program_break = task.program_break
           /\ \A c : WithRanges(u, c) = WithRanges(task, c)
    BY DEF WithRanges, IsTask

\* A sequence and one more element.
Appended(q, e, c) ==
    /\ Sequence(c) /\ Len(q) \in Nat /\ DOMAIN q = 1 .. Len(q) /\ Len(c) = Len(q) + 1
    /\ DOMAIN c = 1 .. Len(q) + 1 /\ c[Len(q) + 1] = e
    /\ \A i \in 1 .. Len(q) : c[i] = q[i]

\* The elements of such a list.
LEMMA AppendIs ==
    ASSUME NEW q, Sequence(q), NEW e, NEW c, c = Append(q, e)
    PROVE  Appended(q, e, c)
<1>1. PICK A : q \in Seq(A)
    BY DEF Sequence
<1> DEFINE B == A \cup {e}
<1>2. q \in Seq(B)
    BY <1>1
<1>3. e \in B
    OBVIOUS
<1> HIDE DEF B
<1>4. /\ c \in Seq(B) /\ Len(q) \in Nat /\ DOMAIN q = 1 .. Len(q) /\ Len(c) = Len(q) + 1
      /\ DOMAIN c = 1 .. Len(q) + 1 /\ c[Len(q) + 1] = e /\ \A i \in 1 .. Len(q) : c[i] = q[i]
    BY <1>2, <1>3
<1>5. Sequence(c)
    BY <1>4 DEF Sequence
<1> QED
    BY <1>4, <1>5 DEF Appended

\* A range is added to a list.
AllApart(q, e) == \A i \in DOMAIN q : TwoApart(q[i], e)

Longer(q, e, c) ==
    /\ e.object \notin ObjectsIn(q) /\ Distinct(q) => Distinct(c)
    /\ ObjectsIn(c) = ObjectsIn(q) \cup {e.object}
    /\ \A r : SpotsOf(r, c) = SpotsOf(r, q) \cup Spots(r, e.start, e.end)

\* A list of ranges stays in order when a range apart from all is appended.
LEMMA ListGrows ==
    ASSUME NEW q, ListOK(q), NEW e, RangeOK(e), AllApart(q, e), NEW c, c = Append(q, e)
    PROVE  ListOK(c) /\ Longer(q, e, c)
<1> DEFINE n == Len(q)
           l == n + 1
<1>1. Sequence(q)
    BY DEF ListOK
<1>0. Appended(q, e, c)
    BY <1>1, AppendIs
<1>2. /\ Sequence(c) /\ n \in Nat /\ DOMAIN q = 1 .. n /\ DOMAIN c = 1 .. l /\ c[l] = e
      /\ \A i \in 1 .. n : c[i] = q[i]
    BY <1>0 DEF Appended
<1>3. /\ DOMAIN q = 1 .. n /\ c[l] = e /\ (\A i \in 1 .. n : c[i] = q[i]) /\ l \notin 1 .. n
      /\ \A i : i \in DOMAIN c <=> i \in 1 .. n \/ i = l
    BY <1>2
<1> HIDE DEF n, l
<1>6. \A i \in DOMAIN c : RangeOK(c[i])
    BY <1>3 DEF ListOK
<1>7. \A i, j \in DOMAIN c : i # j => TwoApart(c[i], c[j])
    BY <1>3 DEF ListOK, TwoApart, AllApart
<1>8. ASSUME e.object \notin ObjectsIn(q), Distinct(q) PROVE Distinct(c)
    BY <1>3, <1>8 DEF Distinct, ObjectsIn
<1>9. ObjectsIn(c) = ObjectsIn(q) \cup {e.object}
    BY <1>3 DEF ObjectsIn
<1>10. ASSUME NEW r PROVE SpotsOf(r, c) = SpotsOf(r, q) \cup Spots(r, e.start, e.end)
    BY <1>3 DEF SpotsOf
<1> QED
    BY <1>2, <1>6, <1>7, <1>8, <1>9, <1>10 DEF ListOK, Longer

\* The task of x has the ranges q, and unless the kernel panicked their
\* structs came to those of S.
Structs(mm, q, R, O, D, T, S) ==
    Distinct(q) /\ ObjectsIn(q) \cap S = {} /\ Holds(mm, R, O, D, T, S \cup ObjectsIn(q))

Makes(x, task, q, R, O, D, T, S) ==
    /\ Pair(x) /\ x.task = WithRanges(task, q) /\ ListOK(q)
    /\ Panicked(x.mm) \/ Structs(x.mm, q, R, O, D, T, S)

NewRange(type, start, end, object) == [start |-> start, end |-> end, type |-> type, object |-> object]

\* A range that fits is added.
Appends(y, task, q, type, start, end, R, O, D, T, S) ==
    \E object : Makes(y, task, Append(q, NewRange(type, start, end, object)), R, O, D, T, S)

\* AddRange appends the range with a new struct.
LEMMA RangeAdded ==
    ASSUME NEW task, IsTask(task), NEW R, NEW O, NEW D, NEW T, NEW S, NEW x, NEW q, Makes(x, task, q, R, O, D, T, S),
           NEW type, NEW start \in Nat, NEW end \in Nat, start % PAGE_SIZE = 0, start <= end, end <= UserEnd,
           \A i \in DOMAIN q : q[i].end <= start \/ end <= q[i].start,
           NEW y, y = AddRange(x, type, start, end)
    PROVE  Appends(y, task, q, type, start, end, R, O, D, T, S)
<1> DEFINE r == slab_alloc(x.mm, "range")
           o == r.object
           e == NewRange(type, start, end, o)
           c == Append(q, e)
           Q == S \cup ObjectsIn(q)
<1>1. /\ Pair(x) /\ x.task = WithRanges(task, q) /\ ListOK(q)
      /\ Panicked(x.mm) \/ (Distinct(q) /\ ObjectsIn(q) \cap S = {} /\ Holds(x.mm, R, O, D, T, Q))
    BY DEF Makes, Structs
<1>3. IsTask(x.task) /\ x.task.ranges = q /\ \A s : WithRanges(x.task, s) = WithRanges(task, s)
    BY <1>1, WithRangesIs
<1>4. y = [mm |-> r.mm, task |-> WithRanges(x.task, c)]
  <2>1. x.task.ranges = q
    BY <1>3
  <2>2. y = [mm |-> r.mm, task |-> [x.task EXCEPT !.ranges = Append(x.task.ranges, e)]]
    BY <1>3 DEF AddRange, NewRange, IsTask
  <2> QED
    BY <2>1, <2>2 DEF WithRanges
<1>5. Panicked(x.mm) => Panicked(r.mm)
    BY MorePanics
<1>6. ASSUME Holds(x.mm, R, O, D, T, Q) PROVE Panicked(r.mm) \/ (o \notin Q /\ Holds(r.mm, R, O, D, T, Q \cup {o}))
  <2>1. r = slab_alloc(x.mm, "range")
    OBVIOUS
  <2> HIDE DEF r, Q
  <2> QED
    BY <1>6, <2>1, HoldsRange
<1> HIDE DEF r
<1>7. y.mm = r.mm /\ y.task = WithRanges(x.task, c) /\ Pair(y)
  <2> HIDE DEF c
  <2> QED
    BY <1>4 DEF Pair
<1>9. RangeOK(e) /\ e.object = o /\ e.start = start /\ e.end = end
    BY DEF RangeOK, NewRange, IsRange
<1>10. AllApart(q, e)
    BY <1>9 DEF TwoApart, AllApart
<1>11. c = Append(q, e)
    OBVIOUS
<1> HIDE DEF e, Q, o, c
<1>12. ListOK(c) /\ Longer(q, e, c)
    BY <1>1, <1>9, <1>10, <1>11, ListGrows
<1>13. y.task = WithRanges(task, c)
    BY <1>3, <1>7
<1>14. Panicked(y.mm) \/ Structs(y.mm, c, R, O, D, T, S)
  <2>1. CASE Panicked(r.mm)
    BY <1>7, <2>1
  <2>2. CASE ~ Panicked(r.mm)
    <3>1. Distinct(q) /\ ObjectsIn(q) \cap S = {} /\ o \notin Q /\ Holds(y.mm, R, O, D, T, Q \cup {o})
      BY <1>1, <1>5, <1>6, <1>7, <2>2
    <3>2. Distinct(c) /\ ObjectsIn(c) = ObjectsIn(q) \cup {o}
      BY <1>9, <1>12, <3>1 DEF Longer, Q
    <3>3. ObjectsIn(c) \cap S = {} /\ S \cup ObjectsIn(c) = Q \cup {o}
      BY <3>1, <3>2 DEF Q
    <3> QED
      BY <3>1, <3>2, <3>3 DEF Structs
  <2> QED
    BY <2>1, <2>2
<1>15. Makes(y, task, c, R, O, D, T, S)
    BY <1>7, <1>12, <1>13, <1>14 DEF Makes
<1> QED
    BY <1>15 DEF Appends, c, e

-----------------------------------------------------------------------------
(* load_elf64.                                                             *)

\* What the assumptions say of a program.
LEMMA ProgramIs ==
    ASSUME NEW prog \in Programs
    PROVE  /\ Len(prog) \in Nat /\ DOMAIN prog = 1 .. Len(prog)
           /\ \A i \in DOMAIN prog :
                 /\ prog[i].p_vaddr \in Nat /\ prog[i].p_memsz \in Nat /\ prog[i].p_vaddr % PAGE_SIZE = 0
                 /\ prog[i].p_vaddr + prog[i].p_memsz <= STACK - PAGE_SIZE
                 /\ prog[i].data \in Seq(Int) /\ Len(prog[i].data) <= prog[i].p_memsz
           /\ \A i, j \in DOMAIN prog : i # j => \/ prog[i].p_vaddr + prog[i].p_memsz <= prog[j].p_vaddr
                                                 \/ prog[j].p_vaddr + prog[j].p_memsz <= prog[i].p_vaddr
<1>1. prog \in Seq([p_vaddr : Nat, p_memsz : Nat, data : Seq(Int)])
    BY SegmentsFit
<1>2. Len(prog) \in Nat /\ DOMAIN prog = 1 .. Len(prog)
      /\ \A i \in DOMAIN prog : prog[i] \in [p_vaddr : Nat, p_memsz : Nat, data : Seq(Int)]
  <2> DEFINE X == [p_vaddr : Nat, p_memsz : Nat, data : Seq(Int)]
  <2> HIDE DEF X
  <2>1. prog \in Seq(X)
    BY <1>1 DEF X
  <2>2. Len(prog) \in Nat /\ DOMAIN prog = 1 .. Len(prog) /\ \A i \in DOMAIN prog : prog[i] \in X
    BY <2>1
  <2> QED
    BY <2>2 DEF X
<1>3. \A i \in DOMAIN prog : prog[i].p_vaddr % PAGE_SIZE = 0
    BY SegmentsAligned
<1>4. \A i \in DOMAIN prog :
           /\ Len(prog[i].data) <= prog[i].p_memsz
           /\ prog[i].p_vaddr + prog[i].p_memsz <= STACK - PAGE_SIZE
           /\ \A j \in DOMAIN prog \ {i} : \/ prog[i].p_vaddr + prog[i].p_memsz <= prog[j].p_vaddr
                                           \/ prog[j].p_vaddr + prog[j].p_memsz <= prog[i].p_vaddr
    BY SegmentsFit
<1>5. \A i \in DOMAIN prog : prog[i].p_vaddr \in Nat /\ prog[i].p_memsz \in Nat /\ prog[i].data \in Seq(Int)
    BY <1>2
<1> QED
    BY <1>2, <1>3, <1>4, <1>5

\* Every range is a segment's, one of the first k.
FromSegments(q, prog, k) ==
    \A i \in DOMAIN q : /\ q[i].type = "NORMAL"
                        /\ \E j \in 1 .. k : /\ q[i].start = prog[j].p_vaddr
                                             /\ q[i].end = prog[j].p_vaddr + prog[j].p_memsz

\* The loop over the program headers, after k turns.
RangesMade(x, task, prog, k, R, O, D, T, S) ==
    \E q : Makes(x, task, q, R, O, D, T, S) /\ FromSegments(q, prog, k)

\* A turn of load_elf64 keeps the list of ranges in order.
LEMMA SegmentTurn ==
    ASSUME NEW task, IsTask(task), NEW R, NEW O, NEW D, NEW T, NEW S, NEW prog \in Programs,
           NEW k \in DOMAIN prog, NEW b, b = k - 1, NEW x, RangesMade(x, task, prog, b, R, O, D, T, S),
           NEW y, y = SegmentRange(x, prog[k])
    PROVE  RangesMade(y, task, prog, k, R, O, D, T, S)
<1> DEFINE start == prog[k].p_vaddr
           end == prog[k].p_vaddr + prog[k].p_memsz
<1>1. /\ Len(prog) \in Nat /\ DOMAIN prog = 1 .. Len(prog)
      /\ start \in Nat /\ end \in Nat /\ start % PAGE_SIZE = 0 /\ start <= end /\ end <= UserEnd
  <2>1. /\ Len(prog) \in Nat /\ DOMAIN prog = 1 .. Len(prog)
        /\ prog[k].p_vaddr \in Nat /\ prog[k].p_memsz \in Nat /\ prog[k].p_vaddr % PAGE_SIZE = 0
        /\ prog[k].p_vaddr + prog[k].p_memsz <= STACK - PAGE_SIZE
    BY ProgramIs
  <2> QED
    BY <2>1, UserPages
<1>2. k \in Nat /\ \A j : j \in 1 .. k <=> j \in 1 .. b \/ j = k
    BY <1>1
<1>3. \A j \in 1 .. b : j \in DOMAIN prog /\ j # k
    BY <1>1
<1>4. CASE y = x
    BY <1>2, <1>4 DEF RangesMade, FromSegments
<1>5. CASE y = AddRange(x, "NORMAL", start, end)
  <2>1. PICK q : Makes(x, task, q, R, O, D, T, S) /\ FromSegments(q, prog, b)
    BY DEF RangesMade
  <2>2. \A i \in DOMAIN q : q[i].end <= start \/ end <= q[i].start
    <3>1. \A j \in 1 .. b : \/ prog[k].p_vaddr + prog[k].p_memsz <= prog[j].p_vaddr
                            \/ prog[j].p_vaddr + prog[j].p_memsz <= prog[k].p_vaddr
      BY <1>3, ProgramIs
    <3> QED
      BY <2>1, <3>1 DEF FromSegments
  <2> HIDE DEF start, end
  <2>3. Appends(y, task, q, "NORMAL", start, end, R, O, D, T, S)
    BY <1>1, <1>5, <2>1, <2>2, RangeAdded
  <2>4. PICK object : Makes(y, task, Append(q, NewRange("NORMAL", start, end, object)), R, O, D, T, S)
    BY <2>3 DEF Appends
  <2> DEFINE e == NewRange("NORMAL", start, end, object)
             c == Append(q, e)
  <2>5. e.type = "NORMAL" /\ e.start = start /\ e.end = end
    BY DEF NewRange
  <2>6. Sequence(q) /\ c = Append(q, e)
    BY <2>1 DEF Makes, ListOK
  <2> HIDE DEF e, c
  <2>7. \A i \in DOMAIN c : c[i] = e \/ (i \in DOMAIN q /\ c[i] = q[i])
    <3>1. Appended(q, e, c)
      BY <2>6, AppendIs
    <3> QED
      BY <3>1 DEF Appended
  <2>8. FromSegments(c, prog, k)
    <3> SUFFICES ASSUME NEW i \in DOMAIN c
                 PROVE  /\ c[i].type = "NORMAL"
                        /\ \E j \in 1 .. k : /\ c[i].start = prog[j].p_vaddr
                                             /\ c[i].end = prog[j].p_vaddr + prog[j].p_memsz
      BY DEF FromSegments
    <3>1. CASE c[i] = e
      BY <1>2, <2>5, <3>1 DEF start, end
    <3>2. CASE i \in DOMAIN q /\ c[i] = q[i]
      BY <1>2, <2>1, <3>2 DEF FromSegments
    <3> QED
      BY <2>7, <3>1, <3>2
  <2> QED
    BY <2>4, <2>8 DEF RangesMade, c, e
<1> QED
    BY <1>4, <1>5 DEF SegmentRange

\* The whole loop.
LEMMA SegmentLoop ==
    ASSUME NEW task, IsTask(task), NEW R, NEW O, NEW D, NEW T, NEW S, NEW prog \in Programs,
           NEW x, RangesMade(x, task, prog, 0, R, O, D, T, S), NEW y, y = MakeRanges(x, prog)
    PROVE  RangesMade(y, task, prog, Len(prog), R, O, D, T, S)
<1> DEFINE n == Len(prog)
<1>1. n \in Nat /\ DOMAIN prog = 1 .. n
    BY ProgramIs
<1> HIDE DEF n
<1>2. PICK h : Turns(<<"ranges">>, h, n, x, prog) /\ MakeRanges(x, prog) = h[n]
    BY <1>1, RangesTurns
<1> DEFINE Bad == {k \in 0 .. n : ~ RangesMade(h[k], task, prog, k, R, O, D, T, S)}
<1>3. Bad = {}
  <2> SUFFICES ASSUME Bad # {} PROVE FALSE
    OBVIOUS
  <2>1. Bad \in SUBSET Nat
    OBVIOUS
  <2>2. PICK b \in Bad : \A k \in Bad : b <= k
    BY <2>1, LeastNatural
  <2>3. b # 0
    BY <1>2, <2>2 DEF Turns
  <2>4. b \in 1 .. n /\ b - 1 \in 0 .. n /\ b - 1 \notin Bad
    <3>1. b \in 0 .. n
      BY <2>2
    <3> HIDE DEF Bad
    <3> QED
      BY <1>1, <2>2, <2>3, <3>1
  <2> DEFINE c == b - 1
             u == h[c]
             v == h[b]
  <2>5. RangesMade(u, task, prog, c, R, O, D, T, S) /\ c = b - 1
    BY <2>4
  <2>6. v = SegmentRange(u, prog[b])
    BY <1>2, <2>4 DEF Turns, Turn
  <2> HIDE DEF c, u, v
  <2>7. RangesMade(v, task, prog, b, R, O, D, T, S)
    BY <1>1, <2>4, <2>5, <2>6, SegmentTurn
  <2> QED
    BY <2>2, <2>7 DEF v
<1>4. n \in 0 .. n
    BY <1>1
<1> QED
    BY <1>2, <1>3, <1>4 DEF n

\* The greatest of a bounded set.
LEMMA MaxIs ==
    ASSUME NEW Z \in SUBSET Nat, Z # {}, NEW B \in Nat, \A z \in Z : z <= B
    PROVE  Max(Z) \in Z /\ \A z \in Z : z <= Max(Z)
<1> DEFINE Y == {k \in Nat : B - k \in Z}
<1>1. Y # {}
  <2>1. PICK z \in Z : TRUE
    OBVIOUS
  <2>2. B - z \in Nat /\ B - (B - z) = z
    BY <2>1
  <2> QED
    BY <2>1, <2>2
<1>2. PICK k \in Y : \A l \in Y : k <= l
    BY <1>1, LeastNatural
<1>3. B - k \in Z /\ k \in Nat
    BY <1>2
<1>4. ASSUME NEW z \in Z PROVE B - k >= z
  <2>1. z \in Nat /\ B - z \in Nat /\ B - (B - z) = z
    OBVIOUS
  <2>2. B - z \in Y
    BY <2>1
  <2>3. k <= B - z
    BY <1>2, <2>2
  <2> QED
    BY <1>3, <2>1, <2>3
<1>5. \E x \in Z : \A y \in Z : x >= y
    BY <1>3, <1>4
<1>6. Max(Z) \in Z /\ \A z \in Z : Max(Z) >= z
    BY <1>5 DEF Max
<1> QED
    BY <1>6

\* Where the heap begins: after all segments, at a page, before the stack.
HeapStart(prog) ==
    PageStart(Max({0} \cup {prog[i].p_vaddr + prog[i].p_memsz : i \in DOMAIN prog}) + PAGE_SIZE - 1)

\* The heap begins after all segments and a page before the stack.
LEMMA HeapFits ==
    ASSUME NEW prog \in Programs
    PROVE  /\ HeapStart(prog) \in Nat /\ HeapStart(prog) % PAGE_SIZE = 0
           /\ HeapStart(prog) + PAGE_SIZE <= STACK
           /\ (HeapStart(prog) + PAGE_SIZE) % PAGE_SIZE = 0
           /\ \A i \in DOMAIN prog : prog[i].p_vaddr + prog[i].p_memsz <= HeapStart(prog)
<1> DEFINE Z == {0} \cup {prog[i].p_vaddr + prog[i].p_memsz : i \in DOMAIN prog}
           top == Max(Z)
           y == top + PAGE_SIZE - 1
           P == PAGE_SIZE
           heap == y - (y % P)
<1>1. P \in Nat \ {0} /\ STACK \in Nat /\ STACK % P = 0 /\ P <= STACK
  <2>1. P \in Nat \ {0} /\ STACK \in Nat /\ STACK % P = 0 /\ STACK > 0
    BY UserPages
  <2>2. 0 % P = 0 /\ 0 \in Nat /\ P \in Nat
    BY <2>1
  <2>3. 0 + P <= STACK
    BY <2>1, <2>2, RoomForPage
  <2> QED
    BY <2>1, <2>3
<1>2. \A i \in DOMAIN prog : prog[i].p_vaddr + prog[i].p_memsz \in Nat /\ prog[i].p_vaddr + prog[i].p_memsz <= STACK - P
    BY ProgramIs
<1>3. Z \in SUBSET Nat /\ Z # {} /\ STACK - P \in Nat /\ \A z \in Z : z <= STACK - P
    BY <1>1, <1>2
<1>4. top \in Nat /\ top <= STACK - P /\ \A z \in Z : z <= top
  <2> DEFINE B == STACK - P
  <2>1. B \in Nat /\ \A z \in Z : z <= B
    BY <1>3
  <2> HIDE DEF Z, B
  <2>2. top \in Z /\ \A z \in Z : z <= top
    BY <1>3, <2>1, MaxIs
  <2> QED
    BY <1>3, <2>2
<1>5. \A i \in DOMAIN prog : prog[i].p_vaddr + prog[i].p_memsz <= top
    BY <1>4
<1>6. HeapStart(prog) = heap
    BY DEF HeapStart, PageStart
<1> HIDE DEF top, Z
<1>7. y \in Nat /\ y < STACK /\ y >= top + (P - 1)
    BY <1>1, <1>4
<1> HIDE DEF y
<1> DEFINE k == y \div P
           z == y % P
<1>8. k \in Nat /\ z \in 0 .. P - 1 /\ y = k * P + z
    BY <1>1, <1>7, DivMod
<1>9. heap = k * P /\ k * P \in Nat
  <2> HIDE DEF k, z
  <2>1. k * P \in Nat
    BY <1>1, <1>8
  <2> QED
    BY <1>1, <1>7, <1>8, <2>1 DEF z
<1>10. heap <= y /\ top <= heap
  <2> HIDE DEF k, z
  <2> QED
    BY <1>1, <1>4, <1>7, <1>8, <1>9
<1> HIDE DEF k, z, heap
<1>11. heap \in Nat /\ heap % P = 0
    BY <1>1, <1>8, <1>9, MultipleIs
<1>12. heap + P <= STACK
  <2>1. heap < STACK
    BY <1>1, <1>7, <1>10, <1>11
  <2> QED
    BY <1>1, <1>11, <2>1, RoomForPage
<1>13. (heap + P) % P = 0
  <2> DEFINE j == k + 1
  <2>1. j \in Nat /\ heap + P = j * P
    BY <1>1, <1>8, <1>9
  <2> HIDE DEF j
  <2> QED
    BY <1>1, <2>1, MultipleIs
<1> QED
    BY <1>2, <1>4, <1>5, <1>6, <1>10, <1>11, <1>12, <1>13

\* The one range of type HEAP ends at a page, below the stack, and nothing
\* else lies between it and the stack.
HeapAt(q, h) ==
    /\ h \in DOMAIN q /\ q[h].type = "HEAP" /\ q[h].end % PAGE_SIZE = 0 /\ q[h].end <= STACK
    /\ \A i \in DOMAIN q \ {h} : q[i].type # "HEAP" /\ (q[i].end <= q[h].start \/ STACK <= q[i].start)

\* The ranges of a program with its heap and its stack.
Layout(z, task, R, O, D, T, S) ==
    \E q, h : Makes(z, task, q, R, O, D, T, S) /\ HeapAt(q, h)

\* load_elf64 makes the ranges of the program, its heap and its stack.
LEMMA LayoutMade ==
    ASSUME NEW task, IsTask(task), NEW R, NEW O, NEW D, NEW T, NEW S, NEW prog \in Programs,
           NEW x, RangesMade(x, task, prog, Len(prog), R, O, D, T, S), NEW heap, heap = HeapStart(prog),
           NEW end, end = heap + PAGE_SIZE,
           NEW y, y = AddRange(x, "HEAP", heap, end), NEW z, z = AddRange(y, "STACK", STACK, UserEnd)
    PROVE  Layout(z, task, R, O, D, T, S)
<1>3. PICK q1 : Makes(x, task, q1, R, O, D, T, S) /\ FromSegments(q1, prog, Len(prog))
    BY DEF RangesMade
<1>4. ListOK(q1) /\ Sequence(q1)
    BY <1>3 DEF Makes, ListOK
<1>5. /\ heap \in Nat /\ heap % PAGE_SIZE = 0 /\ end <= STACK /\ end % PAGE_SIZE = 0 /\ end \in Nat /\ heap <= end
      /\ \A i \in DOMAIN prog : prog[i].p_vaddr + prog[i].p_memsz <= heap
  <2>1. heap + PAGE_SIZE \in Nat /\ heap <= heap + PAGE_SIZE
    BY HeapFits, UserPages
  <2> QED
    BY <2>1, HeapFits
<1>6. /\ STACK \in Nat /\ UserEnd \in Nat /\ STACK % PAGE_SIZE = 0 /\ STACK <= UserEnd
      /\ UserEnd <= UserEnd /\ end <= UserEnd
    BY <1>5, UserPages
<1>7. \A i \in DOMAIN q1 : q1[i].type = "NORMAL" /\ q1[i].end <= heap
  <2>1. DOMAIN prog = 1 .. Len(prog)
    BY ProgramIs
  <2> QED
    BY <1>3, <1>5, <2>1 DEF FromSegments
<1>8. \A i \in DOMAIN q1 : q1[i].end <= heap \/ end <= q1[i].start
    BY <1>7
<1>9. Appends(y, task, q1, "HEAP", heap, end, R, O, D, T, S)
    BY <1>3, <1>5, <1>6, <1>8, RangeAdded
<1>10. PICK o1 : Makes(y, task, Append(q1, NewRange("HEAP", heap, end, o1)), R, O, D, T, S)
    BY <1>9 DEF Appends
<1> DEFINE e1 == NewRange("HEAP", heap, end, o1)
           q2 == Append(q1, e1)
           n == Len(q1)
<1>11. e1.type = "HEAP" /\ e1.start = heap /\ e1.end = end
    BY DEF NewRange
<1> HIDE DEF e1
<1>0. Appended(q1, e1, q2)
    BY <1>4, AppendIs
<1>12. /\ n \in Nat /\ DOMAIN q1 = 1 .. n /\ DOMAIN q2 = 1 .. n + 1 /\ Len(q2) = n + 1
       /\ q2[n + 1] = e1 /\ \A i \in 1 .. n : q2[i] = q1[i]
  <2> HIDE DEF q2
  <2> QED
    BY <1>0 DEF Appended
<1>13. Makes(y, task, q2, R, O, D, T, S)
    BY <1>10 DEF e1
<1> HIDE DEF q2, n
<1>14. Sequence(q2)
    BY <1>13 DEF Makes, ListOK
<1>15. \A i \in DOMAIN q2 : (i = n + 1 /\ q2[i] = e1) \/ (i # n + 1 /\ i \in DOMAIN q1 /\ q2[i] = q1[i])
    BY <1>12
<1>16. \A i \in DOMAIN q2 : q2[i].end <= STACK \/ UserEnd <= q2[i].start
  <2> SUFFICES ASSUME NEW i \in DOMAIN q2 PROVE q2[i].end <= STACK
    OBVIOUS
  <2>1. CASE q2[i] = e1
    BY <1>5, <1>11, <2>1
  <2>2. CASE i \in DOMAIN q1 /\ q2[i] = q1[i]
    <3>1. q2[i].end <= heap /\ q2[i].end \in Nat
      <4>1. q1[i].end \in Nat
        BY <1>4, <2>2 DEF ListOK, RangeOK
      <4> QED
        BY <1>7, <2>2, <4>1
    <3> QED
      BY <1>5, <1>6, <3>1
  <2> QED
    BY <1>15, <2>1, <2>2
<1>17. Appends(z, task, q2, "STACK", STACK, UserEnd, R, O, D, T, S)
    BY <1>6, <1>13, <1>16, RangeAdded
<1>18. PICK o2 : Makes(z, task, Append(q2, NewRange("STACK", STACK, UserEnd, o2)), R, O, D, T, S)
    BY <1>17 DEF Appends
<1> DEFINE e2 == NewRange("STACK", STACK, UserEnd, o2)
           q == Append(q2, e2)
           l == n + 1
<1>19. e2.type = "STACK" /\ e2.start = STACK /\ e2.end = UserEnd
    BY DEF NewRange
<1> HIDE DEF e2
<1>19a. Appended(q2, e2, q)
    BY <1>14, AppendIs
<1>21. Makes(z, task, q, R, O, D, T, S)
    BY <1>18 DEF e2
<1> HIDE DEF q
<1>20. /\ DOMAIN q = 1 .. Len(q2) + 1 /\ q[Len(q2) + 1] = e2 /\ \A i \in DOMAIN q2 : q[i] = q2[i]
    BY <1>19a DEF Appended
<1>22. \A i \in DOMAIN q : q[i] = e2 \/ (i \in DOMAIN q2 /\ q[i] = q2[i])
    BY <1>12, <1>20
<1>23. l \in DOMAIN q /\ q[l] = e1
    BY <1>12, <1>20
<1> HIDE DEF l
<1>24. \A i \in DOMAIN q \ {l} : q[i] = e2 \/ (i \in DOMAIN q1 /\ q[i] = q1[i])
    BY <1>15, <1>22 DEF l
<1>25. HeapAt(q, l)
  <2>1. q[l].type = "HEAP" /\ q[l].end % PAGE_SIZE = 0 /\ q[l].end <= STACK
    BY <1>5, <1>11, <1>23
  <2>2. ASSUME NEW i \in DOMAIN q \ {l}
        PROVE  q[i].type # "HEAP" /\ (q[i].end <= q[l].start \/ STACK <= q[i].start)
    <3>1. CASE q[i] = e2
      BY <1>6, <1>19, <3>1
    <3>2. CASE i \in DOMAIN q1 /\ q[i] = q1[i]
      BY <1>7, <1>11, <1>23, <3>2
    <3> QED
      BY <1>24, <3>1, <3>2
  <2> QED
    BY <1>23, <2>1, <2>2 DEF HeapAt
<1> QED
    BY <1>21, <1>25 DEF Layout

\* The loop of setup_userspace_memory.
LEMMA SetupLoop ==
    ASSUME NEW R, NEW O, NEW D, NEW T, NEW S, NEW r \in R, NEW mm, Gives(mm, R, O, D, T, S),
           \A y \in D : y[1] # r, NEW q, ListOK(q), NEW x, x = setup_userspace_memory(mm, r, q)
    PROVE  Gives(x, R, O, D \cup SpotsOf(r, q), T, S)
<1> DEFINE n == Len(q)
           Y(i) == Spots(r, q[i].start, q[i].end)
           Done(k) == D \cup UNION {Y(i) : i \in 1 .. k}
<1>2. n \in Nat /\ DOMAIN q = 1 .. n
  <2>1. PICK A : q \in Seq(A)
    BY DEF ListOK, Sequence
  <2> QED
    BY <2>1
<1> HIDE DEF n
<1>3. PICK h : Turns(<<"setup", r>>, h, n, mm, q) /\ setup_userspace_memory(mm, r, q) = h[n]
    BY <1>2, SetupTurns
<1>4. ASSUME NEW i \in 1 .. n
      PROVE  /\ q[i].start \in Nat /\ q[i].end \in Nat /\ q[i].start % PAGE_SIZE = 0
             /\ q[i].start <= q[i].end /\ q[i].end <= UserEnd /\ PageStart(q[i].start) = q[i].start
  <2>1. /\ q[i].start \in Nat /\ q[i].end \in Nat /\ q[i].start % PAGE_SIZE = 0
        /\ q[i].start <= q[i].end /\ q[i].end <= UserEnd
    BY <1>2 DEF ListOK, RangeOK
  <2> QED
    BY <2>1 DEF PageStart
<1>5. \A i, j \in 1 .. n : i # j => Y(i) \cap Y(j) = {}
  <2> SUFFICES ASSUME NEW i \in 1 .. n, NEW j \in 1 .. n, i # j PROVE Y(i) \cap Y(j) = {}
    OBVIOUS
  <2>1. q[i].end <= q[j].start \/ q[j].end <= q[i].start
    BY <1>2 DEF ListOK, TwoApart
  <2>2. PagesOf(q[i].start, q[i].end) \cap PagesOf(q[j].start, q[j].end) = {}
    <3>1. CASE q[i].end <= q[j].start
      BY <1>4, <3>1, PagesApart
    <3>2. CASE q[j].end <= q[i].start
      <4>1. PagesOf(q[j].start, q[j].end) \cap PagesOf(q[i].start, q[i].end) = {}
        BY <1>4, <3>2, PagesApart
      <4> QED
        BY <4>1
    <3> QED
      BY <2>1, <3>1, <3>2
  <2> QED
    BY <2>2 DEF Spots
<1>6. \A i \in 1 .. n : D \cap Y(i) = {}
    BY DEF Spots
<1> DEFINE Bad == {k \in 0 .. n : ~ Gives(h[k], R, O, Done(k), T, S)}
<1>7. Bad = {}
  <2> SUFFICES ASSUME Bad # {} PROVE FALSE
    OBVIOUS
  <2>1. Bad \in SUBSET Nat
    OBVIOUS
  <2>2. PICK b \in Bad : \A k \in Bad : b <= k
    BY <2>1, LeastNatural
  <2>3. b # 0
    <3>1. Done(0) = D
      OBVIOUS
    <3>2. h[0] = mm
      BY <1>3 DEF Turns
    <3> HIDE DEF Done
    <3> QED
      BY <2>2, <3>1, <3>2
  <2>4. b \in 1 .. n /\ b - 1 \in 0 .. n /\ b - 1 \notin Bad
    <3>1. b \in 0 .. n
      BY <2>2
    <3> HIDE DEF Bad
    <3> QED
      BY <1>2, <2>2, <2>3, <3>1
  <2>5. Gives(h[b - 1], R, O, Done(b - 1), T, S)
    BY <2>4
  <2> DEFINE from == q[b].start
             to == q[b].end
             u == h[b - 1]
             E == Done(b - 1)
  <2>6. h[b] = MapPages(u, r, PageAddresses(from, to))
    <3>1. h[b] = MapPages(u, r, PageAddresses(PageStart(q[b].start), q[b].end))
      BY <1>3, <2>4 DEF Turns, Turn
    <3> QED
      BY <1>4, <2>4, <3>1
  <2>7. Y(b) \cap E = {} /\ Done(b) = E \cup Y(b)
    <3> HIDE DEF Y
    <3>1. \A i : i \in 1 .. b <=> i \in 1 .. b - 1 \/ i = b
      BY <2>4
    <3>2. \A i \in 1 .. b - 1 : i \in 1 .. n /\ i # b
      BY <1>2, <2>4
    <3>3. Y(b) \cap E = {}
      BY <1>5, <1>6, <2>4, <3>2
    <3>4. \A v : v \in Done(b) <=> v \in E \/ v \in Y(b)
      BY <3>1
    <3> QED
      BY <3>3, <3>4
  <2>8. from \in Nat /\ from % PAGE_SIZE = 0 /\ to \in Nat /\ from <= to /\ to <= UserEnd
    BY <1>4, <2>4
  <2>9. Gives(u, R, O, E, T, S) /\ E \cap Spots(r, from, to) = {}
    BY <2>5, <2>7
  <2> HIDE DEF u, E, from, to
  <2>10. Gives(MapPages(u, r, PageAddresses(from, to)), R, O, E \cup Spots(r, from, to), T, S)
    BY <2>8, <2>9, PagesMapped
  <2>11. Done(b) = E \cup Spots(r, from, to)
    BY <2>7 DEF from, to
  <2> HIDE DEF Done
  <2>12. Gives(h[b], R, O, Done(b), T, S)
    BY <2>6, <2>10, <2>11
  <2> QED
    BY <2>2, <2>12
<1>8. n \in 0 .. n
    BY <1>2
<1>9. Gives(h[n], R, O, Done(n), T, S)
  <2> HIDE DEF Done
  <2> QED
    BY <1>7, <1>8
<1>10. Done(n) = D \cup SpotsOf(r, q)
    BY <1>2 DEF SpotsOf
<1> HIDE DEF Done
<1> QED
    BY <1>3, <1>9, <1>10

\* The bytes of a segment are written.
LEMMA SegmentWritten ==
    ASSUME NEW R, NEW O, NEW D, NEW T, NEW S, NEW r \in R, NEW mm, Gives(mm, R, O, D, T, S),
           NEW prog \in Programs, NEW k \in DOMAIN prog, NEW x, x = CopySegment(mm, r, prog[k])
    PROVE  Gives(x, R, O, D, T, S)
<1> DEFINE seg == prog[k]
           n == Len(seg.data)
           s == [i \in DOMAIN seg.data |-> i]
<1>1. /\ seg.p_vaddr \in Nat /\ seg.p_memsz \in Nat /\ seg.p_vaddr + seg.p_memsz <= STACK - PAGE_SIZE
      /\ seg.data \in Seq(Int) /\ Len(seg.data) <= seg.p_memsz
    BY ProgramIs
<1>2. n \in Nat /\ DOMAIN seg.data = 1 .. n /\ \A i \in 1 .. n : seg.data[i] \in Int
    BY <1>1
<1>3. DOMAIN s = 1 .. n /\ \A i \in 1 .. n : s[i] = i
    BY <1>2
<1>4. x = WriteAll(mm, r, seg, s)
    BY DEF CopySegment
<1> HIDE DEF s, seg, n
<1>5. PICK h : Turns(<<"bytes", r, seg>>, h, n, mm, s) /\ WriteAll(mm, r, seg, s) = h[n]
    BY <1>2, <1>3, BytesTurns
<1>6. \A i \in 1 .. n : seg.p_vaddr + i - 1 \in 0 .. UserEnd - 1
  <2> DEFINE a == seg.p_vaddr
             z == seg.p_memsz
  <2>1. a \in Nat /\ z \in Nat /\ a + z <= STACK - PAGE_SIZE /\ n <= z /\ n \in Nat
    BY <1>1, <1>2 DEF n
  <2>2. STACK \in Nat /\ UserEnd \in Nat /\ STACK < UserEnd /\ PAGE_SIZE \in Nat
    BY UserPages
  <2> HIDE DEF a, z
  <2>3. \A i \in 1 .. n : a + i - 1 \in 0 .. UserEnd - 1
    BY <2>1, <2>2
  <2> QED
    BY <2>3 DEF a
<1> DEFINE Bad == {i \in 0 .. n : ~ Gives(h[i], R, O, D, T, S)}
<1>7. Bad = {}
  <2> SUFFICES ASSUME Bad # {} PROVE FALSE
    OBVIOUS
  <2>1. Bad \in SUBSET Nat
    OBVIOUS
  <2>2. PICK b \in Bad : \A i \in Bad : b <= i
    BY <2>1, LeastNatural
  <2>3. b # 0
    BY <1>5, <2>2 DEF Turns
  <2>4. b \in 1 .. n /\ b - 1 \in 0 .. n /\ b - 1 \notin Bad
    <3>1. b \in 0 .. n
      BY <2>2
    <3> HIDE DEF Bad
    <3> QED
      BY <1>2, <2>2, <2>3, <3>1
  <2> DEFINE u == h[b - 1]
             a == seg.p_vaddr + b - 1
             v == seg.data[b]
             y == h[b]
  <2>5. Gives(u, R, O, D, T, S)
    BY <2>4
  <2>6. y = Write(u, r, a, v)
    BY <1>3, <1>5, <2>4 DEF Turns, Turn, WriteOne
  <2>7. a \in 0 .. UserEnd - 1 /\ v \in Int
    BY <1>2, <1>6, <2>4
  <2> HIDE DEF u, a, v, y
  <2>8. Gives(y, R, O, D, T, S)
    BY <2>5, <2>6, <2>7, HoldsWrite, MorePanics DEF Gives
  <2> QED
    BY <2>2, <2>8 DEF y
<1>8. n \in 0 .. n
    BY <1>2
<1> QED
    BY <1>4, <1>5, <1>7, <1>8

\* All segments.
LEMMA SegmentsWritten ==
    ASSUME NEW R, NEW O, NEW D, NEW T, NEW S, NEW r \in R, NEW mm, Gives(mm, R, O, D, T, S),
           NEW prog \in Programs, NEW x, x = CopySegments(mm, r, prog)
    PROVE  Gives(x, R, O, D, T, S)
<1> DEFINE n == Len(prog)
<1>1. n \in Nat /\ DOMAIN prog = 1 .. n
    BY ProgramIs
<1> HIDE DEF n
<1>2. PICK h : Turns(<<"segments", r>>, h, n, mm, prog) /\ CopySegments(mm, r, prog) = h[n]
    BY <1>1, SegmentsTurns
<1> DEFINE Bad == {k \in 0 .. n : ~ Gives(h[k], R, O, D, T, S)}
<1>3. Bad = {}
  <2> SUFFICES ASSUME Bad # {} PROVE FALSE
    OBVIOUS
  <2>1. Bad \in SUBSET Nat
    OBVIOUS
  <2>2. PICK b \in Bad : \A k \in Bad : b <= k
    BY <2>1, LeastNatural
  <2>3. b # 0
    BY <1>2, <2>2 DEF Turns
  <2>4. b \in 1 .. n /\ b - 1 \in 0 .. n /\ b - 1 \notin Bad
    <3>1. b \in 0 .. n
      BY <2>2
    <3> HIDE DEF Bad
    <3> QED
      BY <1>1, <2>2, <2>3, <3>1
  <2> DEFINE u == h[b - 1]
             v == h[b]
  <2>5. Gives(u, R, O, D, T, S)
    BY <2>4
  <2>6. v = CopySegment(u, r, prog[b])
    BY <1>2, <2>4 DEF Turns, Turn
  <2> HIDE DEF u, v
  <2>7. Gives(v, R, O, D, T, S)
    BY <1>1, <2>4, <2>5, <2>6, SegmentWritten
  <2> QED
    BY <2>2, <2>7 DEF v
<1>4. n \in 0 .. n
    BY <1>1
<1> QED
    BY <1>2, <1>3, <1>4

\* The steps of load_elf64.
LEMMA LoadIs ==
    ASSUME NEW s, NEW prog
    PROVE  LET s1 == MakeRanges(s, prog)
               y  == AddRange(s1, "HEAP", HeapStart(prog), HeapStart(prog) + PAGE_SIZE)
               s2 == AddRange(y, "STACK", STACK, UserEnd)
               m3 == setup_userspace_memory(s2.mm, s2.task.pml4_page, s2.task.ranges)
           IN load_elf64(s, prog) = [s2 EXCEPT !.mm = CopySegments(m3, s.task.pml4_page, prog)]
    BY DEF load_elf64, MakeRanges, SegmentRange, HeapStart, CopySegments, CopySegment, WriteAll, WriteOne

\* What load_elf64 makes of a task without ranges.
Loaded(x, task, R, O, D, T, S) ==
    \E q, h : Makes(x, task, q, R, O, D \cup SpotsOf(task.pml4_page, q), T, S) /\ HeapAt(q, h)

\* A task without ranges.
LEMMA NoRanges == ListOK(<<>>) /\ Distinct(<<>>) /\ ObjectsIn(<<>>) = {} /\ \A r : SpotsOf(r, <<>>) = {}
<1>1. Sequence(<<>>)
  <2>1. <<>> \in Seq(Nat)
    OBVIOUS
  <2> QED
    BY <2>1 DEF Sequence
<1>2. DOMAIN <<>> = {}
    OBVIOUS
<1>3. ListOK(<<>>)
    BY <1>1, <1>2 DEF ListOK
<1>4. Distinct(<<>>)
    BY <1>2 DEF Distinct
<1>5. ObjectsIn(<<>>) = {}
    BY <1>2 DEF ObjectsIn
<1>6. \A r : SpotsOf(r, <<>>) = {}
    BY <1>2 DEF SpotsOf
<1> QED
    BY <1>3, <1>4, <1>5, <1>6

\* load_elf64.
LEMMA Loads ==
    ASSUME NEW task, IsTask(task), NEW R, NEW O, NEW D, NEW T, NEW S, task.pml4_page \in R,
           \A y \in D : y[1] # task.pml4_page, NEW s, Pair(s), s.task = WithRanges(task, <<>>), Gives(s.mm, R, O, D, T, S),
           NEW prog \in Programs, NEW x, x = load_elf64(s, prog)
    PROVE  Loaded(x, task, R, O, D, T, S)
<1> DEFINE r == task.pml4_page
           s1 == MakeRanges(s, prog)
           heap == HeapStart(prog)
           end == heap + PAGE_SIZE
           y  == AddRange(s1, "HEAP", heap, end)
           s2 == AddRange(y, "STACK", STACK, UserEnd)
           m3 == setup_userspace_memory(s2.mm, s2.task.pml4_page, s2.task.ranges)
           m4 == CopySegments(m3, s.task.pml4_page, prog)
<1>1. x = [s2 EXCEPT !.mm = m4]
    BY LoadIs
<1>2. s.task.pml4_page = r
    BY WithRangesIs
<1>3. RangesMade(s, task, prog, 0, R, O, D, T, S)
  <2> DEFINE e == <<>>
  <2>1. ListOK(e) /\ Distinct(e) /\ ObjectsIn(e) = {} /\ FromSegments(e, prog, 0)
    BY NoRanges DEF FromSegments
  <2>2. s.task = WithRanges(task, e)
    OBVIOUS
  <2> HIDE DEF e
  <2>3. S \cup ObjectsIn(e) = S /\ ObjectsIn(e) \cap S = {}
    BY <2>1
  <2>4. Makes(s, task, e, R, O, D, T, S)
    BY <2>1, <2>2, <2>3 DEF Makes, Structs, Gives
  <2> QED
    BY <2>1, <2>4 DEF RangesMade
<1>4. RangesMade(s1, task, prog, Len(prog), R, O, D, T, S)
  <2>1. s1 = MakeRanges(s, prog)
    OBVIOUS
  <2> HIDE DEF s1
  <2> QED
    BY <1>3, <2>1, SegmentLoop
<1> HIDE DEF s1
<1>5. Layout(s2, task, R, O, D, T, S)
  <2>1. heap = HeapStart(prog) /\ end = heap + PAGE_SIZE /\ y = AddRange(s1, "HEAP", heap, end)
        /\ s2 = AddRange(y, "STACK", STACK, UserEnd)
    OBVIOUS
  <2> HIDE DEF heap, end, y, s2
  <2> QED
    BY <1>4, <2>1, LayoutMade
<1> HIDE DEF heap, end, y, s2, m3, m4
<1>6. PICK q, h : Makes(s2, task, q, R, O, D, T, S) /\ HeapAt(q, h)
    BY <1>5 DEF Layout
<1>7. Pair(s2) /\ s2.task = WithRanges(task, q) /\ ListOK(q) /\ (Panicked(s2.mm) \/ Structs(s2.mm, q, R, O, D, T, S))
    BY <1>6 DEF Makes
<1>8. Pair(x) /\ x.mm = m4 /\ x.task = s2.task
    BY <1>1, <1>7 DEF Pair
<1> DEFINE Q == S \cup ObjectsIn(q)
           E == D \cup SpotsOf(r, q)
           v == s2.mm
           C == Distinct(q) /\ ObjectsIn(q) \cap S = {}
<1>9. s2.task.pml4_page = r /\ s2.task.ranges = q
    BY <1>7, WithRangesIs
<1>10. /\ m3 = setup_userspace_memory(v, r, q) /\ m4 = CopySegments(m3, r, prog)
       /\ Panicked(v) \/ (C /\ Holds(v, R, O, D, T, Q))
    BY <1>2, <1>7, <1>9 DEF m3, m4, Structs
<1>11. Gives(v, R, O, D, T, Q) /\ r \in R /\ \A z \in D : z[1] # r
    BY <1>10 DEF Gives
<1> HIDE DEF v, Q, r, C
<1>12. ASSUME NEW U, Gives(v, R, O, D, U, Q) PROVE Gives(m4, R, O, E, U, Q)
  <2>1. Gives(m3, R, O, E, U, Q)
    BY <1>7, <1>10, <1>11, <1>12, SetupLoop
  <2> HIDE DEF E
  <2> QED
    BY <1>10, <1>11, <2>1, SegmentsWritten
<1>13. Gives(m4, R, O, E, T, Q)
    BY <1>11, <1>12
\* Nothing makes up for a panic: what comes of it would hold any structs.
<1>14. Panicked(v) => Panicked(m4)
  <2> SUFFICES ASSUME Panicked(v), ~ Panicked(m4) PROVE FALSE
    OBVIOUS
  <2>1. Gives(v, R, O, D, {}, Q) /\ Gives(v, R, O, D, {0}, Q)
    BY DEF Gives
  <2> HIDE DEF E
  <2>2. Holds(m4, R, O, E, {}, Q) /\ Holds(m4, R, O, E, {0}, Q)
    BY <1>12, <2>1 DEF Gives
  <2>3. {} = {0}
    BY <2>2 DEF Holds
  <2> QED
    BY <2>3
<1> HIDE DEF E
<1>15. Panicked(m4) \/ (C /\ Holds(m4, R, O, E, T, Q))
    BY <1>10, <1>13, <1>14 DEF Gives
<1>16. Makes(x, task, q, R, O, E, T, S)
    BY <1>7, <1>8, <1>15 DEF Makes, Structs, C, Q
<1> QED
    BY <1>6, <1>16 DEF Loaded, E, r

\* What every memory without a panic has.
LEMMA HoldsParts ==
    ASSUME NEW mm, NEW R, NEW O, NEW D, NEW T, NEW S, Holds(mm, R, O, D, T, S)
    PROVE  mm \in Mems /\ NoPanic(mm) /\ R \subseteq Pages /\ O \subseteq Pages /\ R \cap O = {}
<1>1. PICK M : Ok(mm, R, O, M)
    BY DEF Holds
<1>2. PICK g : Good(mm, g, R, O, M)
    BY <1>1 DEF Ok
<1> QED
    BY <1>2 DEF Good

\* The structs of the ranges of a task are freed.
LEMMA RangesFreed ==
    ASSUME NEW mm, NEW R, NEW O, NEW D, NEW T, NEW S, Holds(mm, R, O, D, T, S),
           NEW q, ListOK(q), Distinct(q), ObjectsIn(q) \subseteq S, NEW x, x = FreeRanges(mm, q)
    PROVE  Holds(x, R, O, D, T, S \ ObjectsIn(q))
<1> DEFINE n == Len(q)
           Left(k) == S \ {q[i].object : i \in 1 .. k}
<1>1. n \in Nat /\ DOMAIN q = 1 .. n
  <2>1. PICK A : q \in Seq(A)
    BY DEF ListOK, Sequence
  <2> QED
    BY <2>1
<1> HIDE DEF n
<1>2. PICK h : Turns(<<"free">>, h, n, mm, q) /\ FreeRanges(mm, q) = h[n]
    BY <1>1, FreeTurns
<1> DEFINE Bad == {k \in 0 .. n : ~ Holds(h[k], R, O, D, T, Left(k))}
<1>3. Bad = {}
  <2> SUFFICES ASSUME Bad # {} PROVE FALSE
    OBVIOUS
  <2>1. Bad \in SUBSET Nat
    OBVIOUS
  <2>2. PICK b \in Bad : \A k \in Bad : b <= k
    BY <2>1, LeastNatural
  <2>3. b # 0
    <3>1. Left(0) = S
      OBVIOUS
    <3>2. h[0] = mm
      BY <1>2 DEF Turns
    <3> HIDE DEF Left
    <3> QED
      BY <2>2, <3>1, <3>2
  <2>4. b \in 1 .. n /\ b - 1 \in 0 .. n /\ b - 1 \notin Bad
    <3>1. b \in 0 .. n
      BY <2>2
    <3> HIDE DEF Bad
    <3> QED
      BY <1>1, <2>2, <2>3, <3>1
  <2> DEFINE c == b - 1
             u == h[c]
             v == h[b]
             o == q[b].object
             L == Left(c)
  <2>5. Holds(u, R, O, D, T, L)
    BY <2>4
  <2>6. v = slab_free(u, "range", o)
    BY <1>2, <2>4 DEF Turns, Turn
  <2>7. o \in L /\ Left(b) = L \ {o}
    <3>1. \A i : i \in 1 .. b <=> i \in 1 .. c \/ i = b
      BY <2>4
    <3>2. \A i \in 1 .. c : i \in 1 .. n /\ i # b
      BY <1>1, <2>4
    <3>3. o \in S /\ \A i \in 1 .. c : q[i].object # o
      BY <1>1, <2>4, <3>2 DEF ObjectsIn, Distinct
    <3> HIDE DEF c
    <3> QED
      BY <3>1, <3>3
  <2> HIDE DEF c, u, v, o, L
  <2>8. Holds(v, R, O, D, T, L \ {o})
    BY <2>5, <2>6, <2>7, HoldsRangeFree
  <2> HIDE DEF Left
  <2>9. Holds(h[b], R, O, D, T, Left(b))
    BY <2>7, <2>8 DEF v
  <2> QED
    BY <2>2, <2>9
<1>4. n \in 0 .. n
    BY <1>1
<1>5. Holds(h[n], R, O, D, T, Left(n))
  <2> HIDE DEF Left
  <2> QED
    BY <1>3, <1>4
<1>6. Left(n) = S \ ObjectsIn(q)
    BY <1>1 DEF ObjectsIn
<1> HIDE DEF Left
<1> QED
    BY <1>2, <1>5, <1>6

\* The mapped pages that are not under r.
Elsewhere(D, r) == {y \in D : y[1] # r}

\* free_userspace_memory: the PML4 stays, empty, and may then be freed.
LEMMA MemoryFreed ==
    ASSUME NEW mm, NEW R, NEW O, NEW D, NEW T, NEW S, Holds(mm, R, O, D, T, S), NEW p, NEW r, r = p.pml4_page, r \in R,
           NEW q, q = p.ranges, ListOK(q), Distinct(q), ObjectsIn(q) \subseteq S,
           NEW x, x = free_userspace_memory(mm, p), NEW E, E = Elsewhere(D, r)
    PROVE  /\ Holds(x, R, O, E, T, S \ ObjectsIn(q))
           /\ Holds(x, R \ {r}, O \cup {r}, E, T, S \ ObjectsIn(q))
<1> DEFINE u == UserCleared(mm, r)
           P == R \ {r}
           N == O \cup {r}
<1>1. x = FreeRanges(u, q)
    BY DEF free_userspace_memory, FreeRanges, UserCleared
<1>2. u = UserCleared(mm, r)
    OBVIOUS
<1> HIDE DEF u
<1>3. Holds(u, R, O, E, T, S) /\ Holds(u, R \ {r}, O \cup {r}, E, T, S)
  <2>1. E = {y \in D : y[1] # r}
    BY DEF Elsewhere
  <2> QED
    BY <1>2, <2>1, HoldsCleared
<1>4. Holds(u, P, N, E, T, S)
    BY <1>3
<1> HIDE DEF P, N
<1>5. Holds(x, R, O, E, T, S \ ObjectsIn(q))
    BY <1>1, <1>3, RangesFreed
<1>6. Holds(x, P, N, E, T, S \ ObjectsIn(q))
    BY <1>1, <1>4, RangesFreed
<1> QED
    BY <1>5, <1>6 DEF P, N

\* The pages of a task that are not reached from its PML4.
StackOf(t) == Run(t.kernel_stack_pages, KERNEL_STACK_PAGES)

\* A task that NewTask makes, and the memory it leaves.
NewIn(x, R, O, D, T, S) ==
    LET t == x.task
    IN /\ t.task_struct \notin T /\ StackOf(t) \subseteq Pages \ (R \cup O) /\ t.kernel_stack_pages \in Pages
       /\ t.pml4_page \in Pages \ (R \cup O \cup StackOf(t))
       /\ Holds(x.mm, R \cup {t.pml4_page}, O \cup StackOf(t), D, T \cup {t.task_struct}, S)

Fresh(t) ==
    /\ IsTask(t) /\ t.ranges = <<>> /\ t.buffers = <<>> /\ t.state = "TS_RUNNING"

\* NewTask: a task_struct, a stack and a PML4 that are no one's yet.
LEMMA TaskMade ==
    ASSUME NEW mm, NEW R, NEW O, NEW D, NEW T, NEW S, Holds(mm, R, O, D, T, S), NEW x, x = NewTask(mm)
    PROVE  Pair(x) /\ Fresh(x.task) /\ (Panicked(x.mm) \/ NewIn(x, R, O, D, T, S))
<1> DEFINE t == slab_alloc(mm, "task_struct")
           k == kpage_alloc(t.mm, KERNEL_STACK_PAGES)
           a == AllocZeroed(k.mm)
           o == t.object
           s == k.page
           r == a.page
           N == O \cup Run(s, KERNEL_STACK_PAGES)
           U == T \cup {o}
<1>1. x = [mm |-> WithWord(a.mm, a.page, NewRoot),
           task |-> [state |-> "TS_RUNNING", task_struct |-> t.object, kernel_stack_pages |-> k.page,
                     pml4_page |-> a.page, ranges |-> <<>>, buffers |-> <<>>,
                     heap_bottom |-> 0, heap_top |-> 0, program_break |-> 0]]
    BY DEF NewTask, WithWord, NewRoot
<1>2. Panicked(t.mm) \/ (o \notin T /\ Holds(t.mm, R, O, D, U, S))
  <2>1. t = slab_alloc(mm, "task_struct")
    OBVIOUS
  <2> HIDE DEF t
  <2> QED
    BY <2>1, HoldsStruct
<1> HIDE DEF U
<1>3. /\ Panicked(t.mm) => Panicked(k.mm)
      /\ Holds(t.mm, R, O, D, U, S) =>
                Panicked(k.mm) \/ (/\ Run(s, KERNEL_STACK_PAGES) \subseteq Pages \ (R \cup O) /\ s \in Pages
                                   /\ Holds(k.mm, R, N, D, U, S))
  <2>1. k = kpage_alloc(t.mm, KERNEL_STACK_PAGES)
    OBVIOUS
  <2>2. KERNEL_STACK_PAGES \in Nat \ {0}
    BY MemoryConstants
  <2> DEFINE w == t.mm
  <2>3. k = kpage_alloc(w, KERNEL_STACK_PAGES)
    OBVIOUS
  <2> HIDE DEF k, w
  <2>4. Panicked(w) => Panicked(k.mm)
    BY <2>3, AllocPanics
  <2>5. ASSUME Holds(w, R, O, D, U, S)
        PROVE  Panicked(k.mm) \/ (/\ Run(s, KERNEL_STACK_PAGES) \subseteq Pages \ (R \cup O) /\ s \in Pages
                                  /\ Holds(k.mm, R, N, D, U, S))
    BY <2>2, <2>3, <2>5, HoldsAlloc
  <2> QED
    BY <2>4, <2>5 DEF w
<1>4. /\ Panicked(k.mm) => Panicked(a.mm)
      /\ Holds(k.mm, R, N, D, U, S) =>
                Panicked(a.mm) \/ (r \in Pages \ (R \cup N) /\ Holds(a.mm, R, N \cup {r}, D, U, S))
  <2> DEFINE w == k.mm
  <2>1. a = AllocZeroed(w)
    OBVIOUS
  <2> HIDE DEF a, w, N
  <2>4. Panicked(w) => Panicked(a.mm)
    BY <2>1, AllocPanics
  <2>5. ASSUME Holds(w, R, N, D, U, S)
        PROVE  Panicked(a.mm) \/ (r \in Pages \ (R \cup N) /\ Holds(a.mm, R, N \cup {r}, D, U, S))
    BY <2>1, <2>5, HoldsZeroed
  <2> QED
    BY <2>4, <2>5 DEF w
<1> HIDE DEF t, k, a
<1> DEFINE v == WithWord(a.mm, a.page, NewRoot)
<1>5. /\ Panicked(a.mm) => Panicked(v)
      /\ r \in Pages \ (R \cup N) /\ Holds(a.mm, R, N \cup {r}, D, U, S) =>
                Holds(v, R \cup {r}, N, D, U, S)
  <2>1. Panicked(a.mm) => Panicked(v)
    BY PanicStays
  <2>2. ASSUME r \in Pages \ (R \cup N), Holds(a.mm, R, N \cup {r}, D, U, S)
        PROVE  Holds(v, R \cup {r}, N, D, U, S)
    <3> DEFINE w == a.mm
               V == N \cup {r}
    <3>1. Holds(w, R, V, D, U, S) /\ r \in V /\ v = WithWord(w, r, NewRoot) /\ V \ {r} = N
      BY <2>2
    <3> HIDE DEF w, V, v, r, N
    <3>2. Holds(v, R \cup {r}, V \ {r}, D, U, S)
      BY <3>1, HoldsRoot
    <3> QED
      BY <3>1, <3>2
  <2> QED
    BY <2>1, <2>2
<1> HIDE DEF v
<1>6. /\ Pair(x) /\ x.mm = v /\ Fresh(x.task)
      /\ x.task.task_struct = o /\ x.task.kernel_stack_pages = s /\ x.task.pml4_page = r
    BY <1>1 DEF Pair, Fresh, IsTask, v
<1> HIDE DEF o, s, r
<1>7. CASE Panicked(v)
    BY <1>6, <1>7
<1>8. CASE ~ Panicked(v)
  <2>1. o \notin T /\ Run(s, KERNEL_STACK_PAGES) \subseteq Pages \ (R \cup O) /\ s \in Pages
        /\ r \in Pages \ (R \cup N) /\ Holds(v, R \cup {r}, N, D, U, S)
    BY <1>2, <1>3, <1>4, <1>5, <1>8
  <2>2. NewIn(x, R, O, D, T, S)
    BY <1>6, <2>1 DEF NewIn, StackOf, N, U
  <2> QED
    BY <1>6, <2>2
<1> QED
    BY <1>7, <1>8

-----------------------------------------------------------------------------
(* fork.                                                                   *)

\* Ranges that do not overlap have no page in common.
LEMMA SpotsApart ==
    ASSUME NEW r, NEW e, RangeOK(e), NEW u, RangeOK(u), TwoApart(e, u)
    PROVE  Spots(r, e.start, e.end) \cap Spots(r, u.start, u.end) = {}
<1>1. /\ e.start \in Nat /\ e.end \in Nat /\ e.start % PAGE_SIZE = 0 /\ e.start <= e.end
      /\ u.start \in Nat /\ u.end \in Nat /\ u.start % PAGE_SIZE = 0 /\ u.start <= u.end
    BY DEF RangeOK
<1>2. PagesOf(e.start, e.end) \cap PagesOf(u.start, u.end) = {}
  <2>1. CASE e.end <= u.start
    BY <1>1, <2>1, PagesApart
  <2>2. CASE u.end <= e.start
    <3>1. PagesOf(u.start, u.end) \cap PagesOf(e.start, e.end) = {}
      BY <1>1, <2>2, PagesApart
    <3> QED
      BY <3>1
  <2> QED
    BY <2>1, <2>2 DEF TwoApart
<1> QED
    BY <1>2 DEF Spots

\* Copying pages does not make up for a panic.
LEMMA CopyPanics ==
    ASSUME NEW r, NEW q, NEW from \in Nat, from % PAGE_SIZE = 0, NEW to \in Nat, from <= to, to <= UserEnd,
           NEW mm, Panicked(mm), NEW x, x = CopyPages(mm, r, q, PageAddresses(from, to))
    PROVE  Panicked(x)
<1> DEFINE R == {r, q}
           Z == {}
           T == {0}
           E == Z \cup Spots(r, from, to)
<1>1. r \in R /\ q \in R /\ Z \cap Spots(r, from, to) = {} /\ Z # T
    OBVIOUS
<1>2. Gives(mm, R, Z, Z, Z, Z) /\ Gives(mm, R, Z, Z, T, Z)
    BY DEF Gives
<1> HIDE DEF R, Z, T
<1>3. Gives(x, R, Z, E, Z, Z)
    BY <1>1, <1>2, PagesCopied
<1>4. Gives(x, R, Z, E, T, Z)
    BY <1>1, <1>2, PagesCopied
<1> QED
    BY <1>1, <1>3, <1>4 DEF Gives, Holds

\* The ranges q are the first k of s, with structs of their own.
SameRanges(q, s, k) ==
    /\ DOMAIN q = 1 .. k /\ Len(q) = k
    /\ \A i \in 1 .. k : q[i].start = s[i].start /\ q[i].end = s[i].end /\ q[i].type = s[i].type

\* After k turns of the loop of fork.
Forked(x, task, s, k, R, O, D, T, S) ==
    \E q : SameRanges(q, s, k) /\ Makes(x, task, q, R, O, D \cup SpotsOf(task.pml4_page, q), T, S)

\* The steps of a turn.
LEMMA ForkRangeIs ==
    ASSUME NEW parent, NEW s, NEW e
    PROVE  LET y == AddRange(s, e.type, e.start, e.end)
           IN ForkRange(parent, s, e) =
                [y EXCEPT !.mm = CopyPages(y.mm, y.task.pml4_page, parent.pml4_page, PageAddresses(e.start, e.end))]
    BY DEF ForkRange, CopyPages, CopyPage

\* A turn.
LEMMA ForkTurn ==
    ASSUME NEW task, IsTask(task), NEW R, NEW O, NEW D, NEW T, NEW S, task.pml4_page \in R,
           \A y \in D : y[1] # task.pml4_page, NEW parent, parent.pml4_page \in R,
           NEW s, ListOK(s), NEW n \in Nat, DOMAIN s = 1 .. n, NEW k \in 1 .. n, NEW b, b = k - 1,
           NEW x, Forked(x, task, s, b, R, O, D, T, S), NEW z, z = ForkRange(parent, x, s[k])
    PROVE  Forked(z, task, s, k, R, O, D, T, S)
<1> DEFINE r == task.pml4_page
           p == parent.pml4_page
           e == s[k]
           start == e.start
           end == e.end
           type == e.type
           y == AddRange(x, type, start, end)
           v == CopyPages(y.mm, y.task.pml4_page, p, PageAddresses(start, end))
<1>1. z = [y EXCEPT !.mm = v]
    BY ForkRangeIs
<1>2. PICK q : SameRanges(q, s, b) /\ Makes(x, task, q, R, O, D \cup SpotsOf(r, q), T, S)
    BY DEF Forked
<1>3. RangeOK(e) /\ start \in Nat /\ end \in Nat /\ start % PAGE_SIZE = 0 /\ start <= end /\ end <= UserEnd
    BY DEF ListOK, RangeOK
<1>4. b \in Nat /\ k = b + 1 /\ \A i \in 1 .. b : i \in 1 .. n /\ i # k
    OBVIOUS
<1>5. ListOK(q) /\ Sequence(q) /\ DOMAIN q = 1 .. b /\ Len(q) = b
    BY <1>2 DEF Makes, ListOK, SameRanges
<1>6. \A i \in DOMAIN q : RangeOK(q[i]) /\ TwoApart(q[i], e)
  <2> SUFFICES ASSUME NEW i \in 1 .. b PROVE RangeOK(q[i]) /\ TwoApart(q[i], e)
    BY <1>5
  <2>1. TwoApart(s[i], e) /\ q[i].start = s[i].start /\ q[i].end = s[i].end
    BY <1>2, <1>4 DEF ListOK, SameRanges
  <2> QED
    BY <1>5, <2>1 DEF TwoApart, ListOK
<1>7. \A i \in DOMAIN q : q[i].end <= start \/ end <= q[i].start
    BY <1>6 DEF TwoApart
<1> DEFINE E == D \cup SpotsOf(r, q)
<1>8. Makes(x, task, q, R, O, E, T, S)
    BY <1>2
<1>9. y = AddRange(x, type, start, end)
    OBVIOUS
<1> HIDE DEF E, y, start, end, type
<1>10. Appends(y, task, q, type, start, end, R, O, E, T, S)
    BY <1>3, <1>7, <1>8, <1>9, RangeAdded
<1>11. PICK object : Makes(y, task, Append(q, NewRange(type, start, end, object)), R, O, E, T, S)
    BY <1>10 DEF Appends
<1> DEFINE f == NewRange(type, start, end, object)
           c == Append(q, f)
           w == y.mm
           A == PageAddresses(start, end)
           Z == E \cup Spots(r, start, end)
           Q == S \cup ObjectsIn(c)
           C == Distinct(c) /\ ObjectsIn(c) \cap S = {}
<1>12. f.type = type /\ f.start = start /\ f.end = end /\ RangeOK(f)
    BY <1>3 DEF NewRange, RangeOK, IsRange
<1>13. c = Append(q, f) /\ Makes(y, task, c, R, O, E, T, S)
    BY <1>11
<1> HIDE DEF f, c
<1>14. Appended(q, f, c)
    BY <1>5, <1>13, AppendIs
<1>15. SameRanges(c, s, k)
    BY <1>2, <1>4, <1>5, <1>12, <1>14 DEF Appended, SameRanges, start, end, type
<1>16. /\ Pair(y) /\ y.task = WithRanges(task, c) /\ ListOK(c)
       /\ Panicked(w) \/ (C /\ Holds(w, R, O, E, T, Q))
    BY <1>13 DEF Makes, Structs
<1>17. y.task.pml4_page = r
    BY <1>16, WithRangesIs
<1>18. v = CopyPages(w, r, p, A)
    BY <1>17
<1>19. Pair(z) /\ z.mm = v /\ z.task = y.task
    BY <1>1, <1>16 DEF Pair
<1>20. E \cap Spots(r, start, end) = {}
  <2>1. D \cap Spots(r, start, end) = {}
    BY DEF Spots
  <2>2. \A i \in DOMAIN q : Spots(r, q[i].start, q[i].end) \cap Spots(r, start, end) = {}
    BY <1>3, <1>6, SpotsApart DEF start, end
  <2>3. SpotsOf(r, q) \cap Spots(r, start, end) = {}
    BY <2>2 DEF SpotsOf
  <2> QED
    BY <2>1, <2>3 DEF E
<1>21. Z = D \cup SpotsOf(r, c)
  <2>1. AllApart(q, f)
    BY <1>6, <1>12 DEF AllApart, TwoApart, start, end
  <2>2. Longer(q, f, c)
    BY <1>5, <1>12, <1>13, <2>1, ListGrows
  <2>3. SpotsOf(r, c) = SpotsOf(r, q) \cup Spots(r, start, end)
    BY <1>12, <2>2 DEF Longer
  <2> QED
    BY <2>3 DEF E
<1> HIDE DEF v, w, Q, C, e
<1>22. Panicked(v) \/ (C /\ Holds(v, R, O, Z, T, Q))
  <2>0. r \in R /\ p \in R
    OBVIOUS
  <2> HIDE DEF r, p
  <2>1. CASE Panicked(w)
    BY <1>3, <1>18, <2>1, CopyPanics
  <2>2. CASE C /\ Holds(w, R, O, E, T, Q)
    <3>1. Gives(w, R, O, E, T, Q)
      BY <2>2 DEF Gives
    <3>2. Gives(CopyPages(w, r, p, PageAddresses(start, end)), R, O, E \cup Spots(r, start, end), T, Q)
      BY <1>3, <1>20, <2>0, <3>1, PagesCopied
    <3>3. Gives(v, R, O, Z, T, Q)
      BY <1>18, <3>2
    <3> QED
      BY <2>2, <3>3 DEF Gives
  <2> QED
    BY <1>16, <2>1, <2>2
<1> HIDE DEF Z
<1>23. Makes(z, task, c, R, O, Z, T, S)
    BY <1>16, <1>19, <1>22 DEF Makes, Structs, C, Q
<1> QED
    BY <1>15, <1>21, <1>23 DEF Forked

\* The loop.
LEMMA ForkLoop ==
    ASSUME NEW task, IsTask(task), NEW R, NEW O, NEW D, NEW T, NEW S, task.pml4_page \in R,
           \A y \in D : y[1] # task.pml4_page, NEW parent, parent.pml4_page \in R,
           NEW s, ListOK(s), NEW x, Forked(x, task, s, 0, R, O, D, T, S), NEW z, z = ForkRanges(parent, x, s)
    PROVE  Forked(z, task, s, Len(s), R, O, D, T, S)
<1> DEFINE n == Len(s)
<1>1. n \in Nat /\ DOMAIN s = 1 .. n
  <2>1. PICK A : s \in Seq(A)
    BY DEF ListOK, Sequence
  <2> QED
    BY <2>1
<1> HIDE DEF n
<1>2. PICK h : Turns(<<"fork", parent>>, h, n, x, s) /\ ForkRanges(parent, x, s) = h[n]
    BY <1>1, ForkTurns
<1> DEFINE Bad == {k \in 0 .. n : ~ Forked(h[k], task, s, k, R, O, D, T, S)}
<1>3. Bad = {}
  <2> SUFFICES ASSUME Bad # {} PROVE FALSE
    OBVIOUS
  <2>1. Bad \in SUBSET Nat
    OBVIOUS
  <2>2. PICK b \in Bad : \A k \in Bad : b <= k
    BY <2>1, LeastNatural
  <2>3. b # 0
    BY <1>2, <2>2 DEF Turns
  <2>4. b \in 1 .. n /\ b - 1 \in 0 .. n /\ b - 1 \notin Bad
    <3>1. b \in 0 .. n
      BY <2>2
    <3> HIDE DEF Bad
    <3> QED
      BY <1>1, <2>2, <2>3, <3>1
  <2> DEFINE c == b - 1
             u == h[c]
             v == h[b]
  <2>5. Forked(u, task, s, c, R, O, D, T, S) /\ c = b - 1
    BY <2>4
  <2>6. v = ForkRange(parent, u, s[b])
    BY <1>2, <2>4 DEF Turns, Turn
  <2> HIDE DEF c, u, v
  <2>7. Forked(v, task, s, b, R, O, D, T, S)
    BY <1>1, <2>4, <2>5, <2>6, ForkTurn
  <2> QED
    BY <2>2, <2>7 DEF v
<1>4. n \in 0 .. n
    BY <1>1
<1> QED
    BY <1>2, <1>3, <1>4 DEF n

-----------------------------------------------------------------------------
(* brk.                                                                    *)

\* The ranges with another end of the heap.
WithEnd(q, h, end) == [q EXCEPT ![h].end = end]

Extends(q, h, end, c) ==
    /\ ListOK(c) /\ HeapAt(c, h) /\ c[h].end = end /\ c[h].start = q[h].start
    /\ ObjectsIn(c) = ObjectsIn(q) /\ (Distinct(q) => Distinct(c))
    /\ \A r : SpotsOf(r, c) = SpotsOf(r, q) \cup Spots(r, q[h].end, end)

\* They are still apart, and the pages of the new part are added.
LEMMA HeapExtended ==
    ASSUME NEW q, ListOK(q), NEW h, HeapAt(q, h), NEW end \in Nat, q[h].end <= end, end <= STACK,
           end % PAGE_SIZE = 0, NEW c, c = WithEnd(q, h, end)
    PROVE  Extends(q, h, end, c)
<1> DEFINE u == q[h]
           e == [u EXCEPT !.end = end]
           n == Len(q)
<1>1. PICK A : q \in Seq(A)
    BY DEF ListOK, Sequence
<1>2. n \in Nat /\ DOMAIN q = 1 .. n /\ h \in DOMAIN q /\ RangeOK(u) /\ \A i \in 1 .. n : q[i] \in A
    BY <1>1 DEF HeapAt, ListOK
<1>3. STACK \in Nat /\ UserEnd \in Nat /\ STACK < UserEnd
    BY UserPages
<1>4. /\ RangeOK(e) /\ e.start = u.start /\ e.end = end /\ e.type = u.type /\ e.object = u.object
      /\ u.start \in Nat /\ u.end \in Nat /\ u.start <= u.end
    BY <1>2, <1>3 DEF RangeOK, IsRange
<1>5. c = [i \in 1 .. n |-> IF i = h THEN e ELSE q[i]]
    BY <1>1, <1>2 DEF WithEnd
<1> HIDE DEF e, n, u
<1>6. DOMAIN c = DOMAIN q /\ c[h] = e /\ \A i \in DOMAIN q \ {h} : c[i] = q[i]
    BY <1>2, <1>5
<1>7. Sequence(c)
  <2> DEFINE B == A \cup {e}
  <2>1. c \in [1 .. n -> B]
    BY <1>2, <1>5
  <2> HIDE DEF B
  <2>2. c \in Seq(B)
    BY <1>2, <2>1
  <2> QED
    BY <2>2 DEF Sequence
<1>8. ASSUME NEW i \in DOMAIN q \ {h} PROVE TwoApart(q[i], e) /\ TwoApart(e, q[i])
  <2>1. RangeOK(q[i]) /\ (q[i].end <= u.start \/ STACK <= q[i].start)
    BY <1>8 DEF HeapAt, ListOK, u
  <2>2. q[i].start \in Nat /\ q[i].end \in Nat
    BY <2>1 DEF RangeOK
  <2> QED
    BY <1>3, <1>4, <2>1, <2>2 DEF TwoApart
<1>9. ListOK(c)
  <2>1. \A i \in DOMAIN c : RangeOK(c[i])
    BY <1>4, <1>6 DEF ListOK
  <2>2. \A i, j \in DOMAIN c : i # j => TwoApart(c[i], c[j])
    BY <1>6, <1>8 DEF ListOK
  <2> QED
    BY <1>7, <2>1, <2>2 DEF ListOK
<1>10. HeapAt(c, h)
    BY <1>4, <1>6 DEF HeapAt, u
<1>11. \A i \in DOMAIN q : c[i].object = q[i].object
    BY <1>4, <1>6 DEF u
<1>12. ObjectsIn(c) = ObjectsIn(q) /\ (Distinct(q) => Distinct(c))
    BY <1>6, <1>11 DEF ObjectsIn, Distinct
<1>13. ASSUME NEW r PROVE SpotsOf(r, c) = SpotsOf(r, q) \cup Spots(r, q[h].end, end)
  <2>1. PagesOf(u.start, end) = PagesOf(u.start, u.end) \cup PagesOf(u.end, end)
    <3>1. \A a : a \in u.start .. end - 1 <=> a \in u.start .. u.end - 1 \/ a \in u.end .. end - 1
      BY <1>4 DEF u
    <3> QED
      BY <3>1 DEF PagesOf
  <2>2. Spots(r, e.start, e.end) = Spots(r, u.start, u.end) \cup Spots(r, u.end, end)
    BY <1>4, <2>1 DEF Spots
  <2> DEFINE Z == Spots(r, u.end, end)
             I == DOMAIN q
             X == [i \in I |-> Spots(r, q[i].start, q[i].end)]
             Y == [i \in I |-> Spots(r, c[i].start, c[i].end)]
  <2>3. h \in I /\ Y[h] = X[h] \cup Z /\ \A i \in I \ {h} : Y[i] = X[i]
    BY <1>2, <1>6, <2>2 DEF u
  <2>4. SpotsOf(r, q) = UNION {X[i] : i \in I} /\ SpotsOf(r, c) = UNION {Y[i] : i \in I}
    BY <1>6 DEF SpotsOf
  <2>5. Z = Spots(r, q[h].end, end)
    BY DEF u
  <2> HIDE DEF X, Y, Z, I
  <2> DEFINE U == UNION {X[i] : i \in I}
             W == UNION {Y[i] : i \in I}
  <2>6. \A v : v \in W <=> \E i \in I : v \in Y[i]
    OBVIOUS
  <2>7. \A v : v \in U <=> \E i \in I : v \in X[i]
    OBVIOUS
  <2> HIDE DEF U, W
  <2>8. ASSUME NEW v PROVE v \in W <=> v \in U \cup Z
    <3>1. ASSUME NEW i \in I, v \in Y[i] PROVE v \in U \cup Z
      <4>1. v \in X[i] \/ v \in Z
        BY <2>3, <3>1
      <4> QED
        BY <2>7, <4>1
    <3>2. ASSUME NEW i \in I, v \in X[i] PROVE v \in W
      <4>1. v \in Y[i]
        BY <2>3, <3>2
      <4> QED
        BY <2>6, <4>1
    <3>3. ASSUME v \in Z PROVE v \in W
      BY <2>3, <2>6, <3>3
    <3> QED
      BY <2>6, <2>7, <3>1, <3>2, <3>3
  <2>9. W = U \cup Z
    BY <2>8
  <2> QED
    BY <2>4, <2>5, <2>9 DEF U, W
<1> QED
    BY <1>4, <1>6, <1>9, <1>10, <1>12, <1>13 DEF Extends, u

\* The heap of a task is found.
LEMMA HeapIs ==
    ASSUME NEW q, NEW h, HeapAt(q, h)
    PROVE  /\ (CHOOSE i \in DOMAIN q : q[i].type = "HEAP") = h
           /\ (CHOOSE r \in Range(q) : r.type = "HEAP") = q[h]
<1>1. h \in DOMAIN q /\ q[h].type = "HEAP" /\ \A i \in DOMAIN q : q[i].type = "HEAP" => i = h
    BY DEF HeapAt
<1>2. q[h] \in Range(q) /\ \A r \in Range(q) : r.type = "HEAP" => r = q[h]
    BY <1>1 DEF Range
<1> QED
    BY <1>1, <1>2

\* A task with other ranges and another break.
WithBreak(task, q, end) == [task EXCEPT !.ranges = q, !.program_break = end]

\* What brk makes of a task with the ranges q and the heap h.
Grows(x, task, q, h, to, R, O, D, T, S) ==
    Panicked(x.mm) \/
    \E c, end : /\ x.task = WithBreak(task, c, end) /\ end \in Nat /\ to <= end /\ Extends(q, h, end, c)
                /\ Holds(x.mm, R, O, D \cup Spots(task.pml4_page, q[h].end, end), T, S)

\* brk maps the pages that the heap grows by.
LEMMA HeapGrows ==
    ASSUME NEW task, IsTask(task), NEW R, NEW O, NEW D, NEW T, NEW S, task.pml4_page \in R,
           NEW q, q = task.ranges, ListOK(q), NEW h, HeapAt(q, h),
           \A y \in D : y[1] = task.pml4_page => y \in SpotsOf(task.pml4_page, q),
           NEW to \in Nat, q[h].end < to, to <= STACK,
           NEW mm, Holds(mm, R, O, D, T, S), NEW s, s = [mm |-> mm, task |-> task], NEW x, x = brk(s, to)
    PROVE  Grows(x, task, q, h, to, R, O, D, T, S)
<1> DEFINE r == task.pml4_page
           from == q[h].end
           A == PageAddresses(from, to)
           end == from + Len(A) * PAGE_SIZE
           c == WithEnd(q, h, end)
<1>1. x = [mm |-> MapPages(mm, r, A), task |-> WithBreak(task, c, end)]
  <2>1. s.mm = mm /\ s.task = task /\ (CHOOSE i \in DOMAIN q : q[i].type = "HEAP") = h
    BY HeapIs
  <2>2. x = [mm |-> MapPages(mm, r, A), task |-> [task EXCEPT !.ranges[h].end = end, !.program_break = end]]
    BY <2>1 DEF brk
  <2>3. [task EXCEPT !.ranges[h].end = end, !.program_break = end] = WithBreak(task, c, end)
    <3> HIDE DEF end
    <3> QED
      BY DEF WithBreak, WithEnd, IsTask
  <2> QED
    BY <2>2, <2>3
<1>2. RangeOK(q[h]) /\ from \in Nat /\ from % PAGE_SIZE = 0 /\ q[h].start \in Nat
    BY DEF HeapAt, ListOK, RangeOK
<1>3. STACK \in Nat /\ STACK % PAGE_SIZE = 0 /\ UserEnd \in Nat /\ STACK < UserEnd
    BY UserPages
<1>4. from <= to /\ to <= UserEnd
    BY <1>2, <1>3
<1>5. /\ end \in Nat /\ to <= end /\ end % PAGE_SIZE = 0 /\ PagesOf(from, end) = PagesOf(from, to)
      /\ \A k \in Nat : to <= k /\ k % PAGE_SIZE = 0 => end <= k
  <2> HIDE DEF from
  <2> QED
    BY <1>2, <1>4, PageSteps
<1>6. c = WithEnd(q, h, end)
    OBVIOUS
<1> HIDE DEF end, c
<1>7. end <= STACK /\ from <= end
    BY <1>2, <1>3, <1>4, <1>5
<1>8. Extends(q, h, end, c)
    BY <1>5, <1>6, <1>7, HeapExtended
<1>9. D \cap Spots(r, from, to) = {}
  <2>1. ASSUME NEW i \in DOMAIN q PROVE Spots(r, q[i].start, q[i].end) \cap Spots(r, from, to) = {}
    <3>1. RangeOK(q[i]) /\ q[i].start \in Nat /\ q[i].end \in Nat /\ q[i].start % PAGE_SIZE = 0
      BY DEF ListOK, RangeOK
    <3>2. PagesOf(q[i].start, q[i].end) \cap PagesOf(from, to) = {}
      <4>1. CASE i = h
        BY <1>2, <3>1, <4>1, PagesApart
      <4>2. CASE i # h
        <5>1. q[i].end <= q[h].start \/ STACK <= q[i].start
          BY <4>2 DEF HeapAt
        <5>2. CASE q[i].end <= q[h].start
          <6>1. q[i].end <= from
            BY <1>2, <3>1, <5>2 DEF RangeOK
          <6> HIDE DEF from
          <6> QED
            BY <1>2, <3>1, <6>1, PagesApart
        <5>3. CASE STACK <= q[i].start
          <6>1. to <= q[i].start
            BY <1>3, <3>1, <5>3
          <6> HIDE DEF from
          <6>2. PagesOf(from, to) \cap PagesOf(q[i].start, q[i].end) = {}
            BY <1>2, <3>1, <6>1, PagesApart
          <6> QED
            BY <6>2
        <5> QED
          BY <5>1, <5>2, <5>3
      <4> QED
        BY <4>1, <4>2
    <3> QED
      BY <3>2 DEF Spots
  <2>2. SpotsOf(r, q) \cap Spots(r, from, to) = {}
    BY <2>1 DEF SpotsOf
  <2>3. \A y \in Spots(r, from, to) : y[1] = r
    BY DEF Spots
  <2> QED
    BY <2>2, <2>3
<1>10. Gives(MapPages(mm, r, A), R, O, D \cup Spots(r, from, to), T, S)
  <2>0. r \in R /\ Gives(mm, R, O, D, T, S)
    BY DEF Gives
  <2> HIDE DEF from, r
  <2>1. Gives(MapPages(mm, r, PageAddresses(from, to)), R, O, D \cup Spots(r, from, to), T, S)
    BY <1>2, <1>4, <1>9, <2>0, PagesMapped
  <2> QED
    BY <2>1
<1>11. Spots(r, from, end) = Spots(r, from, to)
    BY <1>5 DEF Spots
<1>12. x.mm = MapPages(mm, r, A) /\ x.task = WithBreak(task, c, end)
    BY <1>1
<1> HIDE DEF A
<1> QED
    BY <1>5, <1>8, <1>10, <1>11, <1>12 DEF Grows, Gives

-----------------------------------------------------------------------------
(* What the tasks own, and the invariant.                                  *)

\* The pages of a task that are not reached from its PML4: its kernel stack
\* and, inside exec, two buffers.
BuffersOf(t) == {t.buffers[i] : i \in DOMAIN t.buffers}

OthersOf(t) == StackOf(t) \cup BuffersOf(t)

\* No two tasks own the same.
Separate(a, b) ==
    /\ a.pml4_page # b.pml4_page /\ a.task_struct # b.task_struct
    /\ OthersOf(a) \cap OthersOf(b) = {} /\ ObjectsIn(a.ranges) \cap ObjectsIn(b.ranges) = {}

\* The tasks L of P own the PML4s R, the other pages O, the mapped pages D,
\* the task_structs T and the structs S of ranges.
Books(P, L, R, O, D, T, S) ==
    /\ R = {P[t].pml4_page : t \in L}
    /\ O = UNION {OthersOf(P[t]) : t \in L}
    /\ D = UNION {SpotsOf(P[t].pml4_page, P[t].ranges) : t \in L}
    /\ T = {P[t].task_struct : t \in L}
    /\ S = UNION {ObjectsIn(P[t].ranges) : t \in L}
    /\ \A s, t \in L : s # t => Separate(P[s], P[t])

\* The spots of a task are under its PML4.
LEMMA SpotsUnder ==
    ASSUME NEW r, NEW q, NEW y \in SpotsOf(r, q)
    PROVE  y[1] = r
<1>1. PICK i \in DOMAIN q : y \in Spots(r, q[i].start, q[i].end)
    BY DEF SpotsOf
<1> QED
    BY <1>1 DEF Spots

\* What a task owns is in the books.
Owns(t, R, O, D, T, S) ==
    /\ t.pml4_page \in R /\ OthersOf(t) \subseteq O /\ SpotsOf(t.pml4_page, t.ranges) \subseteq D
    /\ t.task_struct \in T /\ ObjectsIn(t.ranges) \subseteq S
    /\ \A y \in D : y[1] = t.pml4_page => y \in SpotsOf(t.pml4_page, t.ranges)

\* A task of the books owns what it has.
LEMMA OwnsIt ==
    ASSUME NEW P, NEW L, NEW R, NEW O, NEW D, NEW T, NEW S, Books(P, L, R, O, D, T, S), NEW c \in L, NEW t, t = P[c]
    PROVE  Owns(t, R, O, D, T, S)
<1>1. t.pml4_page \in R
    BY DEF Books
<1>2. OthersOf(t) \subseteq O
    BY DEF Books
<1>3. SpotsOf(t.pml4_page, t.ranges) \subseteq D
    BY DEF Books
<1>4. t.task_struct \in T
    BY DEF Books
<1>5. ObjectsIn(t.ranges) \subseteq S
    BY DEF Books
<1>6. ASSUME NEW y \in D, y[1] = t.pml4_page PROVE y \in SpotsOf(t.pml4_page, t.ranges)
  <2>1. PICK s \in L : y \in SpotsOf(P[s].pml4_page, P[s].ranges)
    BY DEF Books
  <2>2. y[1] = P[s].pml4_page
    BY <2>1, SpotsUnder
  <2>3. s = c
    BY <1>6, <2>2 DEF Books, Separate
  <2> QED
    BY <2>1, <2>3
<1> QED
    BY <1>1, <1>2, <1>3, <1>4, <1>5, <1>6 DEF Owns

\* A task is taken out.
LEMMA BooksWithout ==
    ASSUME NEW P, NEW L, NEW R, NEW O, NEW D, NEW T, NEW S, Books(P, L, R, O, D, T, S), NEW c \in L, NEW t, t = P[c],
           NEW E, E = Elsewhere(D, t.pml4_page)
    PROVE  Books(P, L \ {c}, R \ {t.pml4_page}, O \ OthersOf(t), E, T \ {t.task_struct}, S \ ObjectsIn(t.ranges))
<1> DEFINE K == L \ {c}
<1>1. \A s \in K : s \in L /\ Separate(P[s], t) /\ Separate(t, P[s])
    BY DEF Books
<1>2. \A s \in L : s = c \/ s \in K
    OBVIOUS
<1> HIDE DEF K
<1>3. R \ {t.pml4_page} = {P[s].pml4_page : s \in K}
  <2>1. R = {P[s].pml4_page : s \in L}
    BY DEF Books
  <2> QED
    BY <1>1, <1>2, <2>1 DEF Separate
<1>4. O \ OthersOf(t) = UNION {OthersOf(P[s]) : s \in K}
  <2>1. O = UNION {OthersOf(P[s]) : s \in L}
    BY DEF Books
  <2>2. \A s \in K : OthersOf(P[s]) \cap OthersOf(t) = {}
    BY <1>1 DEF Separate
  <2>3. \A y : y \in O <=> \E s \in L : y \in OthersOf(P[s])
    BY <2>1
  <2>4. \A y : y \in UNION {OthersOf(P[s]) : s \in K} <=> \E s \in K : y \in OthersOf(P[s])
    OBVIOUS
  <2> QED
    BY <1>1, <1>2, <2>2, <2>3, <2>4
<1>5. E = UNION {SpotsOf(P[s].pml4_page, P[s].ranges) : s \in K}
  <2>1. D = UNION {SpotsOf(P[s].pml4_page, P[s].ranges) : s \in L}
    BY DEF Books
  <2>2. \A s \in K : P[s].pml4_page # t.pml4_page
    BY <1>1 DEF Separate
  <2>3. \A s : \A y \in SpotsOf(P[s].pml4_page, P[s].ranges) : y[1] = P[s].pml4_page
    BY SpotsUnder
  <2>4. \A y : y \in D <=> \E s \in L : y \in SpotsOf(P[s].pml4_page, P[s].ranges)
    BY <2>1
  <2>5. \A y : y \in UNION {SpotsOf(P[s].pml4_page, P[s].ranges) : s \in K}
                 <=> \E s \in K : y \in SpotsOf(P[s].pml4_page, P[s].ranges)
    OBVIOUS
  <2>6. \A y : y \in E <=> y \in D /\ y[1] # t.pml4_page
    BY DEF Elsewhere
  <2> QED
    BY <1>1, <1>2, <2>2, <2>3, <2>4, <2>5, <2>6
<1>6. T \ {t.task_struct} = {P[s].task_struct : s \in K}
  <2>1. T = {P[s].task_struct : s \in L}
    BY DEF Books
  <2> QED
    BY <1>1, <1>2, <2>1 DEF Separate
<1>7. S \ ObjectsIn(t.ranges) = UNION {ObjectsIn(P[s].ranges) : s \in K}
  <2>1. S = UNION {ObjectsIn(P[s].ranges) : s \in L}
    BY DEF Books
  <2>2. \A s \in K : ObjectsIn(P[s].ranges) \cap ObjectsIn(t.ranges) = {}
    BY <1>1 DEF Separate
  <2>3. \A y : y \in S <=> \E s \in L : y \in ObjectsIn(P[s].ranges)
    BY <2>1
  <2>4. \A y : y \in UNION {ObjectsIn(P[s].ranges) : s \in K} <=> \E s \in K : y \in ObjectsIn(P[s].ranges)
    OBVIOUS
  <2> QED
    BY <1>1, <1>2, <2>2, <2>3, <2>4
<1>8. \A s, u \in K : s # u => Separate(P[s], P[u])
    BY <1>1 DEF Books
<1>9. Books(P, K, R \ {t.pml4_page}, O \ OthersOf(t), E, T \ {t.task_struct}, S \ ObjectsIn(t.ranges))
    BY <1>3, <1>4, <1>5, <1>6, <1>7, <1>8 DEF Books
<1> QED
    BY <1>9 DEF K

\* A task that owns nothing of the others'.
Apart(t, R, O, T, S) ==
    t.pml4_page \notin R /\ OthersOf(t) \cap O = {} /\ t.task_struct \notin T /\ ObjectsIn(t.ranges) \cap S = {}

\* A task is added.
LEMMA BooksWith ==
    ASSUME NEW P, NEW L, NEW R, NEW O, NEW D, NEW T, NEW S, Books(P, L, R, O, D, T, S), NEW c, c \notin L,
           NEW Q, \A s \in L : Q[s] = P[s], NEW t, t = Q[c], Apart(t, R, O, T, S)
    PROVE  Books(Q, L \cup {c}, R \cup {t.pml4_page}, O \cup OthersOf(t), D \cup SpotsOf(t.pml4_page, t.ranges),
                 T \cup {t.task_struct}, S \cup ObjectsIn(t.ranges))
<1> DEFINE K == L \cup {c}
<1>1. \A s : s \in K <=> s \in L \/ s = c
    OBVIOUS
<1> HIDE DEF K
<1>3. R \cup {t.pml4_page} = {Q[s].pml4_page : s \in K}
  <2>1. R = {P[s].pml4_page : s \in L}
    BY DEF Books
  <2> QED
    BY <1>1, <2>1
<1>4. O \cup OthersOf(t) = UNION {OthersOf(Q[s]) : s \in K}
  <2>1. O = UNION {OthersOf(P[s]) : s \in L}
    BY DEF Books
  <2>2. \A y : y \in O <=> \E s \in L : y \in OthersOf(P[s])
    BY <2>1
  <2>3. \A y : y \in UNION {OthersOf(Q[s]) : s \in K} <=> \E s \in K : y \in OthersOf(Q[s])
    OBVIOUS
  <2> QED
    BY <1>1, <2>2, <2>3
<1>5. D \cup SpotsOf(t.pml4_page, t.ranges) = UNION {SpotsOf(Q[s].pml4_page, Q[s].ranges) : s \in K}
  <2>1. D = UNION {SpotsOf(P[s].pml4_page, P[s].ranges) : s \in L}
    BY DEF Books
  <2>2. \A y : y \in D <=> \E s \in L : y \in SpotsOf(P[s].pml4_page, P[s].ranges)
    BY <2>1
  <2>3. \A y : y \in UNION {SpotsOf(Q[s].pml4_page, Q[s].ranges) : s \in K}
                 <=> \E s \in K : y \in SpotsOf(Q[s].pml4_page, Q[s].ranges)
    OBVIOUS
  <2> QED
    BY <1>1, <2>2, <2>3
<1>6. T \cup {t.task_struct} = {Q[s].task_struct : s \in K}
  <2>1. T = {P[s].task_struct : s \in L}
    BY DEF Books
  <2> QED
    BY <1>1, <2>1
<1>7. S \cup ObjectsIn(t.ranges) = UNION {ObjectsIn(Q[s].ranges) : s \in K}
  <2>1. S = UNION {ObjectsIn(P[s].ranges) : s \in L}
    BY DEF Books
  <2>2. \A y : y \in S <=> \E s \in L : y \in ObjectsIn(P[s].ranges)
    BY <2>1
  <2>3. \A y : y \in UNION {ObjectsIn(Q[s].ranges) : s \in K} <=> \E s \in K : y \in ObjectsIn(Q[s].ranges)
    OBVIOUS
  <2> QED
    BY <1>1, <2>2, <2>3
<1>8. ASSUME NEW s \in L PROVE Separate(Q[s], t) /\ Separate(t, Q[s])
  <2>1. Owns(P[s], R, O, D, T, S)
    BY <1>8, OwnsIt
  <2> QED
    BY <1>8, <2>1 DEF Owns, Apart, Separate
<1>9. \A s, u \in K : s # u => Separate(Q[s], Q[u])
    BY <1>1, <1>8 DEF Books
<1>10. Books(Q, K, R \cup {t.pml4_page}, O \cup OthersOf(t), D \cup SpotsOf(t.pml4_page, t.ranges),
             T \cup {t.task_struct}, S \cup ObjectsIn(t.ranges))
    BY <1>3, <1>4, <1>5, <1>6, <1>7, <1>9 DEF Books
<1> QED
    BY <1>10 DEF K

\* Tasks that own the same.
SameOwned(a, b) ==
    a.pml4_page = b.pml4_page /\ a.task_struct = b.task_struct /\ OthersOf(a) = OthersOf(b) /\ a.ranges = b.ranges

\* The books are right for such tasks too.
LEMMA BooksSame ==
    ASSUME NEW P, NEW L, NEW R, NEW O, NEW D, NEW T, NEW S, Books(P, L, R, O, D, T, S),
           NEW Q, \A s \in L : SameOwned(Q[s], P[s])
    PROVE  Books(Q, L, R, O, D, T, S)
<1>1. \A s \in L : /\ Q[s].pml4_page = P[s].pml4_page /\ Q[s].task_struct = P[s].task_struct
                   /\ OthersOf(Q[s]) = OthersOf(P[s]) /\ Q[s].ranges = P[s].ranges
    BY DEF SameOwned
<1>2. R = {Q[t].pml4_page : t \in L}
    BY <1>1 DEF Books
<1>3. O = UNION {OthersOf(Q[t]) : t \in L}
  <2>1. O = UNION {OthersOf(P[t]) : t \in L}
    BY DEF Books
  <2> QED
    BY <1>1, <2>1
<1>4. D = UNION {SpotsOf(Q[t].pml4_page, Q[t].ranges) : t \in L}
  <2>1. D = UNION {SpotsOf(P[t].pml4_page, P[t].ranges) : t \in L}
    BY DEF Books
  <2> QED
    BY <1>1, <2>1
<1>5. T = {Q[t].task_struct : t \in L}
    BY <1>1 DEF Books
<1>6. S = UNION {ObjectsIn(Q[t].ranges) : t \in L}
  <2>1. S = UNION {ObjectsIn(P[t].ranges) : t \in L}
    BY DEF Books
  <2> QED
    BY <1>1, <2>1
<1>7. \A s, t \in L : s # t => Separate(Q[s], Q[t])
    BY <1>1 DEF Books, Separate
<1> QED
    BY <1>2, <1>3, <1>4, <1>5, <1>6, <1>7 DEF Books

\* The buffers of exec: there only inside exec, or in a process that was
\* killed there.
BuffersOK(t) ==
    \/ t.buffers = <<>> /\ t.state \in {"TS_RUNNING", "TS_ZOMBIE"}
    \/ /\ \E a, b \in Nat : t.buffers = <<a, b>> /\ a # b /\ a \notin StackOf(t) /\ b \notin StackOf(t)
       /\ t.state = "in exec" \/ (KillDuringExec /\ t.state = "TS_ZOMBIE")

TaskOK(t) ==
    /\ IsTask(t) /\ ListOK(t.ranges) /\ Distinct(t.ranges) /\ t.kernel_stack_pages \in Nat /\ BuffersOK(t)

\* The heap of the libc lies in the heap of the kernel.
UserOK(t) ==
    \E h : /\ HeapAt(t.ranges, h) /\ t.program_break = t.ranges[h].end
           /\ t.heap_bottom \in Nat /\ t.ranges[h].start <= t.heap_bottom
           /\ t.heap_top \in Nat /\ t.heap_top <= t.program_break

LivingOf(P) == {t \in Tasks : P[t].state # "none"}

Checked(P, L) == \A t \in L : TaskOK(P[t]) /\ (t \in Procs => UserOK(P[t]))

IsProcs(P) == P = [t \in Tasks |-> P[t]]

\* The books are right for the memory mm.
Owned(mm, P) ==
    \E R, O, D, T, S : Books(P, LivingOf(P), R, O, D, T, S) /\ Holds(mm, R, O, D, T, S)

Sound(mm, P) == IsProcs(P) /\ Checked(P, LivingOf(P)) /\ Owned(mm, P)

\* The inductive invariant.
IInv == Panicked(m) \/ Sound(m, proc)

WithTask(P, c, t) == [P EXCEPT ![c] = t]

\* A task is given other memory.
LEMMA TaskSet ==
    ASSUME NEW P, IsProcs(P), NEW c \in Tasks, NEW K, K = LivingOf(P) \ {c}, Checked(P, K),
           NEW R, NEW O, NEW D, NEW T, NEW S, Books(P, K, R, O, D, T, S),
           NEW t, TaskOK(t), c \in Procs => UserOK(t), Apart(t, R, O, T, S), NEW Q, Q = WithTask(P, c, t),
           NEW mm, Holds(mm, R \cup {t.pml4_page}, O \cup OthersOf(t), D \cup SpotsOf(t.pml4_page, t.ranges),
                         T \cup {t.task_struct}, S \cup ObjectsIn(t.ranges))
    PROVE  Sound(mm, Q)
<1>1. /\ IsProcs(Q) /\ Q[c] = t /\ \A s \in Tasks \ {c} : Q[s] = P[s]
    BY DEF IsProcs, WithTask
<1>2. t.state # "none"
    BY DEF TaskOK, BuffersOK
<1>3. c \notin K /\ K \subseteq Tasks \ {c} /\ LivingOf(Q) = K \cup {c}
    BY <1>1, <1>2 DEF LivingOf
<1>4. \A s \in K : Q[s] = P[s]
    BY <1>1, <1>3
<1>5. Books(Q, K \cup {c}, R \cup {t.pml4_page}, O \cup OthersOf(t), D \cup SpotsOf(t.pml4_page, t.ranges),
            T \cup {t.task_struct}, S \cup ObjectsIn(t.ranges))
    BY <1>1, <1>3, <1>4, BooksWith
<1>6. Checked(Q, K \cup {c})
    BY <1>1, <1>4 DEF Checked
<1>7. Owned(mm, Q)
    BY <1>3, <1>5 DEF Owned
<1> QED
    BY <1>1, <1>3, <1>6, <1>7 DEF Sound

\* The stack that NewTask makes.
LEMMA FreshIs ==
    ASSUME NEW t, Fresh(t)
    PROVE  OthersOf(t) = StackOf(t) /\ ObjectsIn(t.ranges) = {} /\ \A r : SpotsOf(r, t.ranges) = {}
<1>1. BuffersOf(t) = {}
    BY DEF Fresh, BuffersOf
<1> QED
    BY <1>1, NoRanges DEF Fresh, OthersOf

\* A kernel thread is added.
LEMMA ThreadAdded ==
    ASSUME NEW mm, NEW P, Sound(mm, P), NEW c \in Tasks, c \notin Procs, c \notin LivingOf(P),
           NEW x, x = NewTask(mm), NEW Q, Q = WithTask(P, c, x.task)
    PROVE  Panicked(x.mm) \/ Sound(x.mm, Q)
<1> DEFINE t == x.task
           K == LivingOf(P)
<1>1. PICK R, O, D, T, S : Books(P, K, R, O, D, T, S) /\ Holds(mm, R, O, D, T, S)
    BY DEF Sound, Owned
<1>2. Pair(x) /\ Fresh(t) /\ (Panicked(x.mm) \/ NewIn(x, R, O, D, T, S))
    BY <1>1, TaskMade
<1> SUFFICES ASSUME NewIn(x, R, O, D, T, S) PROVE Sound(x.mm, Q)
    BY <1>2
<1>3. OthersOf(t) = StackOf(t) /\ ObjectsIn(t.ranges) = {} /\ \A r : SpotsOf(r, t.ranges) = {}
    BY <1>2, FreshIs
<1>4. /\ t.task_struct \notin T /\ StackOf(t) \subseteq Pages \ (R \cup O) /\ t.kernel_stack_pages \in Pages
      /\ t.pml4_page \in Pages \ (R \cup O \cup StackOf(t))
      /\ Holds(x.mm, R \cup {t.pml4_page}, O \cup StackOf(t), D, T \cup {t.task_struct}, S)
    BY DEF NewIn
<1>5. TaskOK(t)
    BY <1>2, <1>4, NoRanges, MemoryConstants DEF Fresh, TaskOK, BuffersOK, Pages
<1>6. Apart(t, R, O, T, S)
    BY <1>3, <1>4 DEF Apart
<1>7. /\ D \cup SpotsOf(t.pml4_page, t.ranges) = D /\ S \cup ObjectsIn(t.ranges) = S
      /\ K = LivingOf(P) \ {c} /\ Checked(P, K) /\ IsProcs(P)
    BY <1>3 DEF Sound
<1>8. Holds(x.mm, R \cup {t.pml4_page}, O \cup OthersOf(t), D \cup SpotsOf(t.pml4_page, t.ranges),
            T \cup {t.task_struct}, S \cup ObjectsIn(t.ranges))
    BY <1>3, <1>4, <1>7
<1> DEFINE v == x.mm
<1>9. /\ Q = WithTask(P, c, t)
      /\ Holds(v, R \cup {t.pml4_page}, O \cup OthersOf(t), D \cup SpotsOf(t.pml4_page, t.ranges),
                T \cup {t.task_struct}, S \cup ObjectsIn(t.ranges))
    BY <1>8
<1>10. Books(P, K, R, O, D, T, S)
    BY <1>1
<1> HIDE DEF t, v, K
<1>11. Sound(v, Q)
    BY <1>5, <1>6, <1>7, <1>9, <1>10, TaskSet
<1> QED
    BY <1>11 DEF v

\* NewTask does not make up for a panic.
LEMMA NewTaskPanics ==
    ASSUME NEW mm, Panicked(mm)
    PROVE  Panicked(NewTask(mm).mm)
<1> DEFINE t == slab_alloc(mm, "task_struct")
           k == kpage_alloc(t.mm, KERNEL_STACK_PAGES)
           a == AllocZeroed(k.mm)
<1>1. NewTask(mm).mm = WithWord(a.mm, a.page, NewRoot)
    BY DEF NewTask, WithWord, NewRoot
<1>2. Panicked(t.mm)
    BY MorePanics
<1> HIDE DEF t
<1>3. Panicked(k.mm)
    BY <1>2, AllocPanics
<1> HIDE DEF k
<1>4. Panicked(a.mm)
    BY <1>3, AllocPanics
<1> HIDE DEF a
<1> QED
    BY <1>1, <1>4, PanicStays

\* libc_init.
LEMMA LibcInit ==
    ASSUME NEW t, TaskOK(t), NEW h, HeapAt(t.ranges, h), NEW u, u = libc_init(t)
    PROVE  /\ TaskOK(u) /\ UserOK(u) /\ SameOwned(u, t)
<1> DEFINE e == t.ranges[h].end
<1>1. u = [t EXCEPT !.heap_bottom = e, !.heap_top = e, !.program_break = e]
    BY HeapIs DEF libc_init
<1>2. RangeOK(t.ranges[h]) /\ e \in Nat /\ t.ranges[h].start <= e
    BY DEF TaskOK, ListOK, HeapAt, RangeOK
<1> HIDE DEF e
<1>3. /\ IsTask(u) /\ u.ranges = t.ranges /\ u.pml4_page = t.pml4_page /\ u.task_struct = t.task_struct
      /\ u.kernel_stack_pages = t.kernel_stack_pages /\ u.buffers = t.buffers /\ u.state = t.state
      /\ u.heap_bottom = e /\ u.heap_top = e /\ u.program_break = e
    BY <1>1 DEF TaskOK, IsTask
<1>4. StackOf(u) = StackOf(t) /\ OthersOf(u) = OthersOf(t)
    BY <1>3 DEF StackOf, OthersOf, BuffersOf
<1>5. TaskOK(u)
    BY <1>3, <1>4 DEF TaskOK, BuffersOK
<1>6. UserOK(u)
    BY <1>2, <1>3 DEF UserOK, e
<1> QED
    BY <1>3, <1>4, <1>5, <1>6 DEF SameOwned

-----------------------------------------------------------------------------
(* The actions.                                                            *)

\* Before an action.
LEMMA SoundBefore ==
    ASSUME IInv, ~ m.panic
    PROVE  Sound(m, proc) /\ m \in Mems
<1>1. Sound(m, proc)
    BY DEF IInv, Panicked
<1>2. m \in Mems
    BY <1>1, HoldsParts DEF Sound, Owned
<1> QED
    BY <1>1, <1>2

\* After it.
LEMMA SoundAfter ==
    ASSUME m \in Mems, NEW s, NEW new, Panicked(s.mm) \/ Sound(s.mm, new), Outcome(s, new)
    PROVE  IInv'
<1>1. CASE Panicked(s.mm)
  <2>1. s.mm.panic
    BY <1>1 DEF Panicked
  <2>2. m' = [m EXCEPT !.panic = TRUE]
    BY <2>1 DEF Outcome
  <2>3. Panicked(m')
    BY <2>2 DEF Panicked, Shaped, Mems
  <2> QED
    BY <2>3 DEF IInv
<1>2. CASE Sound(s.mm, new)
  <2>1. NoPanic(s.mm)
    BY <1>2, HoldsParts DEF Sound, Owned
  <2>2. ~ s.mm.panic
    BY <2>1 DEF NoPanic
  <2>3. m' = s.mm /\ proc' = new
    BY <2>2 DEF Outcome
  <2> QED
    BY <1>2, <2>3 DEF IInv
<1> QED
    BY <1>1, <1>2

\* A step without Outcome.
LEMMA SoundStep ==
    ASSUME Sound(m', proc')
    PROVE  IInv'
    BY DEF IInv

\* Every mapped page is under a PML4 of the books.
LEMMA BooksRoots ==
    ASSUME NEW P, NEW L, NEW R, NEW O, NEW D, NEW T, NEW S, Books(P, L, R, O, D, T, S), NEW y \in D
    PROVE  y[1] \in R
<1>1. PICK s \in L : y \in SpotsOf(P[s].pml4_page, P[s].ranges)
    BY DEF Books
<1>2. y[1] = P[s].pml4_page
    BY <1>1, SpotsUnder
<1> QED
    BY <1>1, <1>2 DEF Books

\* load_elf64 does not make up for a panic.
LEMMA LoadPanics ==
    ASSUME NEW task, IsTask(task), NEW s, Pair(s), s.task = WithRanges(task, <<>>), Panicked(s.mm),
           NEW prog \in Programs, NEW x, x = load_elf64(s, prog)
    PROVE  Panicked(x.mm)
<1> DEFINE R == {task.pml4_page}
           Z == {}
           T == {0}
<1>1. task.pml4_page \in R /\ (\A y \in Z : y[1] # task.pml4_page) /\ Z # T
    OBVIOUS
<1>2. Gives(s.mm, R, Z, Z, Z, Z) /\ Gives(s.mm, R, Z, Z, T, Z)
    BY DEF Gives
<1> HIDE DEF R, Z, T
<1>3. Loaded(x, task, R, Z, Z, Z, Z)
    BY <1>1, <1>2, Loads
<1>4. Loaded(x, task, R, Z, Z, T, Z)
    BY <1>1, <1>2, Loads
<1>5. Panicked(x.mm) \/ Objects(x.mm, "task_struct") = Z
    BY <1>3 DEF Loaded, Makes, Structs, Holds
<1>6. Panicked(x.mm) \/ Objects(x.mm, "task_struct") = T
    BY <1>4 DEF Loaded, Makes, Structs, Holds
<1> QED
    BY <1>1, <1>5, <1>6

\* A task without ranges is itself.
LEMMA SameWithout ==
    ASSUME NEW t, IsTask(t), t.ranges = <<>>
    PROVE  t = WithRanges(t, <<>>)
    BY DEF IsTask, WithRanges

\* The fields of a new task are good once it has ranges.
LEMMA FreshOK ==
    ASSUME NEW t, Fresh(t), t.kernel_stack_pages \in Pages, NEW q, ListOK(q), Distinct(q), NEW u, u = WithRanges(t, q)
    PROVE  /\ TaskOK(u) /\ OthersOf(u) = StackOf(t) /\ StackOf(u) = StackOf(t) /\ u.ranges = q
           /\ u.pml4_page = t.pml4_page /\ u.task_struct = t.task_struct
<1>1. IsTask(t) /\ t.buffers = <<>> /\ t.state = "TS_RUNNING" /\ t.kernel_stack_pages \in Nat
    BY MemoryConstants DEF Fresh, Pages
<1>2. /\ IsTask(u) /\ u.ranges = q /\ u.pml4_page = t.pml4_page /\ u.task_struct = t.task_struct
      /\ u.kernel_stack_pages = t.kernel_stack_pages /\ u.buffers = <<>> /\ u.state = "TS_RUNNING"
    BY <1>1, WithRangesIs
<1>3. StackOf(u) = StackOf(t) /\ BuffersOf(u) = {}
    BY <1>2 DEF StackOf, BuffersOf
<1> QED
    BY <1>1, <1>2, <1>3 DEF TaskOK, BuffersOK, OthersOf

\* A process is made and has its memory.
LEMMA ProcessAdded ==
    ASSUME NEW P, IsProcs(P), Checked(P, LivingOf(P)), NEW R, NEW O, NEW D, NEW T, NEW S,
           Books(P, LivingOf(P), R, O, D, T, S), NEW p \in Procs, p \notin LivingOf(P),
           NEW x, NewIn(x, R, O, D, T, S), NEW task, task = x.task,
           NEW t, TaskOK(t), UserOK(t), NEW q, t.ranges = q, OthersOf(t) = StackOf(task),
           t.pml4_page = task.pml4_page, t.task_struct = task.task_struct,
           NEW mm, Structs(mm, q, R \cup {task.pml4_page}, O \cup StackOf(task), D \cup SpotsOf(task.pml4_page, q),
                           T \cup {task.task_struct}, S)
    PROVE  Sound(mm, WithTask(P, p, t))
<1> DEFINE K == LivingOf(P)
           Q == WithTask(P, p, t)
<1>1. /\ task.task_struct \notin T /\ StackOf(task) \subseteq Pages \ (R \cup O)
      /\ task.pml4_page \in Pages \ (R \cup O \cup StackOf(task))
    BY DEF NewIn
<1>2. /\ ObjectsIn(q) \cap S = {}
      /\ Holds(mm, R \cup {task.pml4_page}, O \cup StackOf(task), D \cup SpotsOf(task.pml4_page, q),
               T \cup {task.task_struct}, S \cup ObjectsIn(q))
    BY DEF Structs
<1>3. Apart(t, R, O, T, S)
    BY <1>1, <1>2 DEF Apart
<1>4. Holds(mm, R \cup {t.pml4_page}, O \cup OthersOf(t), D \cup SpotsOf(t.pml4_page, t.ranges),
            T \cup {t.task_struct}, S \cup ObjectsIn(t.ranges))
    BY <1>2
<1>5. K = LivingOf(P) \ {p} /\ p \in Tasks /\ Q = WithTask(P, p, t) /\ Checked(P, K) /\ Books(P, K, R, O, D, T, S)
    BY DEF Tasks
<1> HIDE DEF K, Q
<1>6. Sound(mm, Q)
    BY <1>3, <1>4, <1>5, TaskSet
<1> QED
    BY <1>6 DEF Q

\* The first process.
LEMMA ProgramStarted ==
    ASSUME NEW mm, NEW P, Sound(mm, P), NEW p \in Procs, p \notin LivingOf(P), NEW prog \in Programs,
           NEW x, x = NewTask(mm), NEW y, y = load_elf64(x, prog), NEW t, t = libc_init(y.task)
    PROVE  Panicked(y.mm) \/ Sound(y.mm, WithTask(P, p, t))
<1> DEFINE task == x.task
           r == task.pml4_page
<1>1. PICK R, O, D, T, S : Books(P, LivingOf(P), R, O, D, T, S) /\ Holds(mm, R, O, D, T, S)
    BY DEF Sound, Owned
<1>2. Pair(x) /\ Fresh(task) /\ (Panicked(x.mm) \/ NewIn(x, R, O, D, T, S))
    BY <1>1, TaskMade
<1>3. IsTask(task) /\ task = WithRanges(task, <<>>)
    BY <1>2, SameWithout DEF Fresh
<1>4. CASE Panicked(x.mm)
  <2>1. x.task = WithRanges(task, <<>>)
    BY <1>3
  <2> HIDE DEF task
  <2>2. Panicked(y.mm)
    BY <1>2, <1>3, <1>4, <2>1, LoadPanics
  <2> QED
    BY <2>2
<1>5. CASE NewIn(x, R, O, D, T, S)
  <2> DEFINE R2 == R \cup {r}
             O2 == O \cup StackOf(task)
             T2 == T \cup {task.task_struct}
  <2>1. Holds(x.mm, R2, O2, D, T2, S) /\ r \notin R /\ task.kernel_stack_pages \in Pages
    BY <1>5 DEF NewIn
  <2>2. r \in R2 /\ (\A z \in D : z[1] # r) /\ Gives(x.mm, R2, O2, D, T2, S)
    BY <1>1, <2>1, BooksRoots DEF Gives
  <2>3. task.pml4_page \in R2 /\ (\A z \in D : z[1] # task.pml4_page) /\ x.task = WithRanges(task, <<>>)
    BY <1>3, <2>2
  <2> HIDE DEF R2, O2, T2, task
  <2>4. Loaded(y, task, R2, O2, D, T2, S)
    BY <1>2, <1>3, <2>2, <2>3, Loads
  <2>5. PICK q, h : Makes(y, task, q, R2, O2, D \cup SpotsOf(r, q), T2, S) /\ HeapAt(q, h)
    BY <2>4 DEF Loaded
  <2> SUFFICES ASSUME ~ Panicked(y.mm) PROVE Sound(y.mm, WithTask(P, p, t))
    OBVIOUS
  <2>6. y.task = WithRanges(task, q) /\ ListOK(q) /\ Structs(y.mm, q, R2, O2, D \cup SpotsOf(r, q), T2, S)
    BY <2>5 DEF Makes
  <2>7. Distinct(q)
    BY <2>6 DEF Structs
  <2> DEFINE u == y.task
  <2>8. /\ TaskOK(u) /\ OthersOf(u) = StackOf(task) /\ u.ranges = q /\ u.pml4_page = r /\ u.task_struct = task.task_struct
    BY <1>2, <2>1, <2>6, <2>7, FreshOK
  <2>9. TaskOK(t) /\ UserOK(t) /\ SameOwned(t, u)
    <3>1. HeapAt(u.ranges, h) /\ t = libc_init(u)
      BY <2>5, <2>8
    <3> HIDE DEF u
    <3> QED
      BY <2>8, <3>1, LibcInit
  <2>10. t.ranges = q /\ OthersOf(t) = StackOf(task) /\ t.pml4_page = task.pml4_page /\ t.task_struct = task.task_struct
    BY <2>8, <2>9 DEF SameOwned
  <2> DEFINE v == y.mm
  <2>11. Structs(v, q, R \cup {task.pml4_page}, O \cup StackOf(task), D \cup SpotsOf(task.pml4_page, q),
                 T \cup {task.task_struct}, S)
    BY <2>6 DEF R2, O2, T2
  <2>12. IsProcs(P) /\ Checked(P, LivingOf(P)) /\ task = x.task
    BY DEF Sound, task
  <2> HIDE DEF v, u
  <2>13. Sound(v, WithTask(P, p, t))
    BY <1>1, <1>5, <2>9, <2>10, <2>11, <2>12, ProcessAdded
  <2> QED
    BY <2>13 DEF v
<1> QED
    BY <1>2, <1>4, <1>5

\* kmain.
LEMMA BootSound ==
    ASSUME IInv, NEW p \in Procs, NEW prog \in Programs, Boot(p, prog)
    PROVE  IInv'
<1> DEFINE x == NewTask(m)
           y == load_elf64(x, prog)
           k == NewTask(y.mm)
           t == libc_init(y.task)
           P == WithTask(proc, p, t)
           Q == WithTask(P, KT, k.task)
<1>1. ~ m.panic /\ (\A a \in Tasks : proc[a].state = "none") /\ Outcome(k, [proc EXCEPT ![p] = t, ![KT] = k.task])
    BY DEF Boot, Alive
<1>2. Sound(m, proc) /\ m \in Mems
    BY <1>1, SoundBefore
<1>3. LivingOf(proc) = {} /\ KT \notin Procs /\ KT \in Tasks /\ p \in Tasks
    BY <1>1, MemoryAssumption DEF LivingOf, Tasks
<1>4. IsProcs(proc)
    BY <1>2 DEF Sound
<1>5. [proc EXCEPT ![p] = t, ![KT] = k.task] = Q
  <2> DEFINE e == k.task
  <2> HIDE DEF t, e
  <2> QED
    BY <1>3, <1>4 DEF IsProcs, WithTask
<1>6. KT \notin LivingOf(P)
  <2> HIDE DEF t
  <2>1. P[KT] = proc[KT]
    BY <1>3, <1>4 DEF IsProcs, WithTask
  <2> QED
    BY <1>1, <1>3, <2>1 DEF LivingOf
<1>7. Panicked(y.mm) \/ Sound(y.mm, P)
  <2>1. x = NewTask(m) /\ y = load_elf64(x, prog) /\ t = libc_init(y.task) /\ p \notin LivingOf(proc)
    BY <1>3
  <2> HIDE DEF x, y, t
  <2> QED
    BY <1>2, <2>1, ProgramStarted
<1>8. Panicked(k.mm) \/ Sound(k.mm, Q)
  <2> DEFINE v == y.mm
  <2>1. CASE Panicked(v)
    <3> HIDE DEF v
    <3>1. Panicked(NewTask(v).mm)
      BY <2>1, NewTaskPanics
    <3> QED
      BY <3>1 DEF v
  <2>2. CASE Sound(v, P)
    <3>1. k = NewTask(v) /\ Q = WithTask(P, KT, k.task)
      OBVIOUS
    <3> HIDE DEF v, P, k, Q
    <3> QED
      BY <1>3, <1>6, <2>2, <3>1, ThreadAdded
  <2> QED
    BY <1>7, <2>1, <2>2
<1>9. Outcome(k, Q)
    BY <1>1, <1>5
<1> HIDE DEF k, Q
<1> QED
    BY <1>2, <1>8, <1>9, SoundAfter

\* The loop of fork does not make up for a panic.
LEMMA ForkPanics ==
    ASSUME NEW x, Pair(x), NEW task, task = x.task, Fresh(task), Panicked(x.mm), NEW parent, NEW s, ListOK(s),
           NEW z, z = ForkRanges(parent, x, s)
    PROVE  Panicked(z.mm)
<1> DEFINE R == {task.pml4_page, parent.pml4_page}
           Z == {}
           T == {0}
           e == <<>>
<1>1. /\ task.pml4_page \in R /\ parent.pml4_page \in R /\ (\A y \in Z : y[1] # task.pml4_page) /\ Z # T
    OBVIOUS
<1>2. SameRanges(e, s, 0) /\ ListOK(e) /\ IsTask(task)
    BY NoRanges DEF SameRanges, Fresh
<1>3. x.task = WithRanges(task, e)
    BY SameWithout DEF Fresh
<1> HIDE DEF R, Z, T, e
<1>4. ASSUME NEW U PROVE Forked(x, task, s, 0, R, Z, Z, U, Z)
    BY <1>2, <1>3 DEF Forked, Makes
<1>5. ASSUME NEW U PROVE Panicked(z.mm) \/ Objects(z.mm, "task_struct") = U
  <2>1. Forked(x, task, s, 0, R, Z, Z, U, Z)
    BY <1>4
  <2>2. Forked(z, task, s, Len(s), R, Z, Z, U, Z)
    BY <1>1, <1>2, <2>1, ForkLoop
  <2> QED
    BY <2>2 DEF Forked, Makes, Structs, Holds
<1> QED
    BY <1>1, <1>5

\* fork.
LEMMA ForkSound ==
    ASSUME IInv, NEW p \in Procs, NEW c \in Procs, Fork(p, c)
    PROVE  IInv'
<1> DEFINE P == proc
           s == P[p].ranges
           parent == P[p]
           x == NewTask(m)
           z == ForkRanges(parent, x, s)
           t == [z.task EXCEPT !.heap_bottom = parent.heap_bottom, !.heap_top = parent.heap_top,
                               !.program_break = parent.program_break]
           Q == WithTask(P, c, t)
           task == x.task
           r == task.pml4_page
<1>1. ~ m.panic /\ parent.state = "TS_RUNNING" /\ P[c].state = "none" /\ Outcome(z, [proc EXCEPT ![c] = t])
    BY DEF Fork, Running, Alive, ForkRanges
<1>2. Sound(m, P) /\ m \in Mems /\ Outcome(z, Q)
    BY <1>1, SoundBefore DEF WithTask
<1>3. p \in LivingOf(P) /\ c \notin LivingOf(P)
    BY <1>1 DEF LivingOf, Tasks
<1>4. PICK R, O, D, T, S : Books(P, LivingOf(P), R, O, D, T, S) /\ Holds(m, R, O, D, T, S)
    BY <1>2 DEF Sound, Owned
<1>5. IsProcs(P) /\ Checked(P, LivingOf(P)) /\ TaskOK(parent) /\ UserOK(parent) /\ ListOK(s)
    BY <1>2, <1>3 DEF Sound, Checked, TaskOK
<1>6. parent.pml4_page \in R
    BY <1>3, <1>4, OwnsIt DEF Owns
<1>7. Pair(x) /\ Fresh(task) /\ (Panicked(x.mm) \/ NewIn(x, R, O, D, T, S))
    BY <1>4, TaskMade
<1> SUFFICES Panicked(z.mm) \/ Sound(z.mm, Q)
    <2> HIDE DEF z, Q
    <2> QED
      BY <1>2, SoundAfter
<1>8. z = ForkRanges(parent, x, s) /\ task = x.task /\ x = NewTask(m)
    OBVIOUS
<1> HIDE DEF z, x, P, s, parent
<1>9. CASE Panicked(x.mm)
  <2> HIDE DEF task
  <2> QED
    BY <1>5, <1>7, <1>8, <1>9, ForkPanics
<1>10. CASE NewIn(x, R, O, D, T, S)
  <2> DEFINE R2 == R \cup {r}
             O2 == O \cup StackOf(task)
             T2 == T \cup {task.task_struct}
             e == <<>>
             n == Len(s)
  <2>1. Holds(x.mm, R2, O2, D, T2, S) /\ r \notin R /\ task.kernel_stack_pages \in Pages
    BY <1>10 DEF NewIn
  <2>2. r \in R2 /\ parent.pml4_page \in R2 /\ (\A y \in D : y[1] # r)
    BY <1>4, <1>6, <2>1, BooksRoots
  <2>3. SameRanges(e, s, 0) /\ ListOK(e) /\ IsTask(task) /\ Distinct(e) /\ ObjectsIn(e) = {} /\ SpotsOf(r, e) = {}
    BY <1>7, NoRanges DEF SameRanges, Fresh
  <2>4. x.task = WithRanges(task, e)
    BY <1>7, SameWithout DEF Fresh
  <2> HIDE DEF R2, O2, T2, e, task
  <2>5. Forked(x, task, s, 0, R2, O2, D, T2, S)
    <3>1. D \cup SpotsOf(r, e) = D /\ S \cup ObjectsIn(e) = S /\ ObjectsIn(e) \cap S = {}
      BY <2>3
    <3>2. Makes(x, task, e, R2, O2, D \cup SpotsOf(r, e), T2, S)
      BY <1>7, <2>1, <2>3, <2>4, <3>1 DEF Makes, Structs
    <3> QED
      BY <2>3, <3>2 DEF Forked
  <2>6. Forked(z, task, s, n, R2, O2, D, T2, S)
    BY <1>5, <1>8, <2>2, <2>3, <2>5, ForkLoop
  <2>7. PICK q : SameRanges(q, s, n) /\ Makes(z, task, q, R2, O2, D \cup SpotsOf(r, q), T2, S)
    BY <2>6 DEF Forked
  <2> SUFFICES ASSUME ~ Panicked(z.mm) PROVE Sound(z.mm, Q)
    OBVIOUS
  <2>8. z.task = WithRanges(task, q) /\ ListOK(q) /\ Structs(z.mm, q, R2, O2, D \cup SpotsOf(r, q), T2, S)
    BY <2>7 DEF Makes
  <2>9. Distinct(q)
    BY <2>8 DEF Structs
  <2> DEFINE u == z.task
  <2>10. /\ TaskOK(u) /\ OthersOf(u) = StackOf(task) /\ u.ranges = q /\ u.pml4_page = r /\ u.task_struct = task.task_struct
    BY <1>7, <2>1, <2>8, <2>9, FreshOK DEF task
  <2>11. t = [u EXCEPT !.heap_bottom = parent.heap_bottom, !.heap_top = parent.heap_top,
                       !.program_break = parent.program_break]
    OBVIOUS
  <2> HIDE DEF u, t
  <2>12. /\ IsTask(t) /\ t.ranges = q /\ t.pml4_page = r /\ t.task_struct = task.task_struct
         /\ t.kernel_stack_pages = u.kernel_stack_pages /\ t.buffers = u.buffers /\ t.state = u.state
         /\ t.heap_bottom = parent.heap_bottom /\ t.heap_top = parent.heap_top
         /\ t.program_break = parent.program_break
    BY <2>10, <2>11 DEF TaskOK, IsTask
  <2>13. StackOf(t) = StackOf(u) /\ OthersOf(t) = StackOf(task)
    BY <2>10, <2>12 DEF StackOf, OthersOf, BuffersOf
  <2>14. TaskOK(t)
    BY <2>8, <2>9, <2>10, <2>12, <2>13 DEF TaskOK, BuffersOK
  <2>15. UserOK(t)
    <3>1. PICK h : /\ HeapAt(s, h) /\ parent.program_break = s[h].end
                   /\ parent.heap_bottom \in Nat /\ s[h].start <= parent.heap_bottom
                   /\ parent.heap_top \in Nat /\ parent.heap_top <= parent.program_break
      BY <1>5 DEF UserOK, s, parent
    <3>2. DOMAIN s = 1 .. n
      <4>1. PICK A : s \in Seq(A)
        BY <1>5 DEF ListOK, Sequence
      <4> QED
        BY <4>1
    <3> HIDE DEF n
    <3>0. HeapAt(s, h) /\ SameRanges(q, s, n)
      BY <2>7, <3>1
    <3>3. HeapAt(q, h) /\ q[h].start = s[h].start /\ q[h].end = s[h].end
      BY <3>0, <3>2 DEF HeapAt, SameRanges
    <3> QED
      BY <2>12, <3>1, <3>3 DEF UserOK
  <2> DEFINE v == z.mm
  <2>16. Structs(v, q, R \cup {task.pml4_page}, O \cup StackOf(task), D \cup SpotsOf(task.pml4_page, q),
                 T \cup {task.task_struct}, S)
    BY <2>8 DEF R2, O2, T2
  <2>17. t.pml4_page = task.pml4_page /\ task = x.task
    BY <2>12 DEF task
  <2> HIDE DEF v
  <2>18. Sound(v, WithTask(P, c, t))
    BY <1>3, <1>4, <1>5, <1>10, <2>12, <2>13, <2>14, <2>15, <2>16, <2>17, ProcessAdded
  <2> QED
    BY <2>18 DEF v
<1> QED
    BY <1>7, <1>9, <1>10

\* A process has other memory.
LEMMA TaskReplaced ==
    ASSUME NEW P, IsProcs(P), Checked(P, LivingOf(P)), NEW R, NEW O, NEW D, NEW T, NEW S,
           Books(P, LivingOf(P), R, O, D, T, S), NEW p \in Procs, p \in LivingOf(P), NEW o, o = P[p],
           NEW E, E = Elsewhere(D, o.pml4_page), NEW N, N = O \ OthersOf(o), NEW U, U = S \ ObjectsIn(o.ranges),
           NEW t, TaskOK(t), UserOK(t), t.pml4_page = o.pml4_page, t.task_struct = o.task_struct,
           OthersOf(t) \cap N = {}, ObjectsIn(t.ranges) \cap U = {},
           NEW mm, Holds(mm, R, N \cup OthersOf(t), E \cup SpotsOf(t.pml4_page, t.ranges), T, U \cup ObjectsIn(t.ranges))
    PROVE  Sound(mm, WithTask(P, p, t))
<1> DEFINE L == LivingOf(P)
           K == L \ {p}
           V == R \ {o.pml4_page}
           W == T \ {o.task_struct}
           Q == WithTask(P, p, t)
<1>1. Books(P, K, V, N, E, W, U)
  <2>1. Books(P, L, R, O, D, T, S) /\ p \in L
    OBVIOUS
  <2> HIDE DEF L
  <2> QED
    BY <2>1, BooksWithout
<1>2. Owns(o, R, O, D, T, S)
    BY OwnsIt
<1>3. V \cup {t.pml4_page} = R /\ W \cup {t.task_struct} = T /\ t.pml4_page \notin V /\ t.task_struct \notin W
    BY <1>2 DEF Owns
<1>4. Apart(t, V, N, W, U)
    BY <1>3 DEF Apart
<1>5. Checked(P, K) /\ K = LivingOf(P) \ {p} /\ p \in Tasks /\ Q = WithTask(P, p, t)
    BY DEF Checked, Tasks
<1>6. Holds(mm, V \cup {t.pml4_page}, N \cup OthersOf(t), E \cup SpotsOf(t.pml4_page, t.ranges),
            W \cup {t.task_struct}, U \cup ObjectsIn(t.ranges))
    BY <1>3
<1> HIDE DEF K, V, W, Q
<1>7. Sound(mm, Q)
    BY <1>1, <1>4, <1>5, <1>6, TaskSet
<1> QED
    BY <1>7 DEF Q

\* It keeps its ranges.
LEMMA TaskChanged ==
    ASSUME NEW P, IsProcs(P), Checked(P, LivingOf(P)), NEW R, NEW O, NEW D, NEW T, NEW S,
           Books(P, LivingOf(P), R, O, D, T, S), NEW p \in Procs, p \in LivingOf(P), NEW o, o = P[p],
           NEW N, N = O \ OthersOf(o), NEW t, TaskOK(t), UserOK(t), t.pml4_page = o.pml4_page,
           t.task_struct = o.task_struct, t.ranges = o.ranges, OthersOf(t) \cap N = {},
           NEW mm, Holds(mm, R, N \cup OthersOf(t), D, T, S)
    PROVE  Sound(mm, WithTask(P, p, t))
<1> DEFINE E == Elsewhere(D, o.pml4_page)
           U == S \ ObjectsIn(o.ranges)
<1>1. Owns(o, R, O, D, T, S)
    BY OwnsIt
<1>2. U \cup ObjectsIn(t.ranges) = S /\ ObjectsIn(t.ranges) \cap U = {}
    BY <1>1 DEF Owns
<1>3. E \cup SpotsOf(t.pml4_page, t.ranges) = D
  <2>1. \A y \in SpotsOf(t.pml4_page, t.ranges) : y \in D
    BY <1>1 DEF Owns
  <2>2. \A y \in D : y[1] = o.pml4_page => y \in SpotsOf(t.pml4_page, t.ranges)
    BY <1>1 DEF Owns
  <2> QED
    BY <2>1, <2>2 DEF Elsewhere
<1>4. /\ Holds(mm, R, N \cup OthersOf(t), E \cup SpotsOf(t.pml4_page, t.ranges), T, U \cup ObjectsIn(t.ranges))
      /\ E = Elsewhere(D, o.pml4_page) /\ U = S \ ObjectsIn(o.ranges)
    BY <1>2, <1>3
<1> HIDE DEF E, U
<1> QED
    BY <1>2, <1>4, TaskReplaced

\* The books of a living process.
LEMMA TaskBooks ==
    ASSUME NEW mm, NEW P, Sound(mm, P), NEW p \in Procs, P[p].state # "none", NEW o, o = P[p]
    PROVE  /\ IsProcs(P) /\ Checked(P, LivingOf(P)) /\ p \in LivingOf(P) /\ TaskOK(o) /\ UserOK(o)
           /\ \E R, O, D, T, S : /\ Books(P, LivingOf(P), R, O, D, T, S) /\ Holds(mm, R, O, D, T, S)
                                 /\ Owns(o, R, O, D, T, S)
<1>1. p \in LivingOf(P)
    BY DEF LivingOf, Tasks
<1>2. PICK R, O, D, T, S : Books(P, LivingOf(P), R, O, D, T, S) /\ Holds(mm, R, O, D, T, S)
    BY DEF Sound, Owned
<1>3. Owns(o, R, O, D, T, S)
    BY <1>1, <1>2, OwnsIt
<1>4. IsProcs(P) /\ Checked(P, LivingOf(P)) /\ TaskOK(o) /\ UserOK(o)
    BY <1>1 DEF Sound, Checked
<1> QED
    BY <1>1, <1>2, <1>3, <1>4

\* A task with another state and other buffers.
WithBuffers(t, state, buffers) == [t EXCEPT !.state = state, !.buffers = buffers]

\* The fields of such a task.
LEMMA WithBuffersIs ==
    ASSUME NEW t, IsTask(t), NEW state, NEW buffers, NEW u, u = WithBuffers(t, state, buffers)
    PROVE  /\ IsTask(u) /\ u.ranges = t.ranges /\ u.pml4_page = t.pml4_page /\ u.task_struct = t.task_struct
           /\ u.kernel_stack_pages = t.kernel_stack_pages /\ u.buffers = buffers /\ u.state = state
           /\ u.heap_bottom = t.heap_bottom /\ u.heap_top = t.heap_top /\ u.program_break = t.program_break
           /\ StackOf(u) = StackOf(t)
<1>1. /\ IsTask(u) /\ u.ranges = t.ranges /\ u.pml4_page = t.pml4_page /\ u.task_struct = t.task_struct
      /\ u.kernel_stack_pages = t.kernel_stack_pages /\ u.buffers = buffers /\ u.state = state
      /\ u.heap_bottom = t.heap_bottom /\ u.heap_top = t.heap_top /\ u.program_break = t.program_break
    BY DEF IsTask, WithBuffers
<1> QED
    BY <1>1 DEF StackOf

\* The pages of a task without buffers.
LEMMA NoBuffers ==
    ASSUME NEW t, t.buffers = <<>>
    PROVE  OthersOf(t) = StackOf(t)
    BY DEF OthersOf, BuffersOf

\* The pages of a task inside exec.
LEMMA TwoBuffers ==
    ASSUME NEW t, NEW a, NEW b, t.buffers = <<a, b>>
    PROVE  OthersOf(t) = StackOf(t) \cup {a, b} /\ t.buffers[1] = a /\ t.buffers[2] = b
<1>1. DOMAIN t.buffers = {1, 2} /\ t.buffers[1] = a /\ t.buffers[2] = b
    OBVIOUS
<1>2. BuffersOf(t) = {a, b}
    BY <1>1 DEF BuffersOf
<1> QED
    BY <1>1, <1>2 DEF OthersOf

\* A run of one page.
LEMMA RunOne ==
    ASSUME NEW a \in Nat
    PROVE  Run(a, 1) = {a}
    BY DEF Run

\* The buffers of exec are freed.
LEMMA BuffersFreed ==
    ASSUME NEW mm, NEW R, NEW O, NEW D, NEW T, NEW S, Holds(mm, R, O, D, T, S), NEW t, TaskOK(t),
           t.state = "in exec", OthersOf(t) \subseteq O, NEW x, x = FreeBuffers(mm, t)
    PROVE  Holds(x, R, (O \ OthersOf(t)) \cup StackOf(t), D, T, S)
<1>1. PICK a, b \in Nat : t.buffers = <<a, b>> /\ a # b /\ a \notin StackOf(t) /\ b \notin StackOf(t)
    BY DEF TaskOK, BuffersOK
<1>2. OthersOf(t) = StackOf(t) \cup {a, b} /\ t.buffers[1] = a /\ t.buffers[2] = b
  <2>1. t.buffers = <<a, b>>
    BY <1>1
  <2> QED
    BY <2>1, TwoBuffers
<1> DEFINE u == kpage_free(mm, b, 1)
           N == O \ Run(b, 1)
<1>3. Run(a, 1) = {a} /\ Run(b, 1) = {b}
    BY RunOne
<1>4. x = kpage_free(u, a, 1)
    BY <1>2 DEF FreeBuffers
<1>5. Holds(u, R, N, D, T, S)
  <2>1. u = kpage_free(mm, b, 1) /\ Run(b, 1) \subseteq O /\ 1 \in Nat
    BY <1>2, <1>3
  <2> HIDE DEF u
  <2> QED
    BY <1>1, <2>1, HoldsFree
<1>6. Run(a, 1) \subseteq N /\ 1 \in Nat
    BY <1>1, <1>2, <1>3
<1>7. N \ Run(a, 1) = (O \ OthersOf(t)) \cup StackOf(t)
    BY <1>1, <1>2, <1>3
<1> HIDE DEF u, N
<1>8. Holds(x, R, N \ Run(a, 1), D, T, S)
    BY <1>1, <1>4, <1>5, <1>6, HoldsFree
<1> QED
    BY <1>7, <1>8

\* exec allocates its buffers.
LEMMA ExecBeginSound ==
    ASSUME IInv, NEW p \in Procs, ExecBegin(p)
    PROVE  IInv'
<1> DEFINE x == AllocZeroed(m)
           z == AllocZeroed(x.mm)
           a == x.page
           b == z.page
           P == proc
           o == P[p]
           t == WithBuffers(o, "in exec", <<a, b>>)
           Q == WithTask(P, p, t)
<1>1. ~ m.panic /\ o.state = "TS_RUNNING"
      /\ Outcome(z, [proc EXCEPT ![p].state = "in exec", ![p].buffers = <<a, b>>])
    BY DEF ExecBegin, Running
<1>2. Sound(m, P) /\ m \in Mems
    BY <1>1, SoundBefore
<1>3. /\ IsProcs(P) /\ Checked(P, LivingOf(P)) /\ p \in LivingOf(P) /\ TaskOK(o) /\ UserOK(o)
      /\ \E R, O, D, T, S : /\ Books(P, LivingOf(P), R, O, D, T, S) /\ Holds(m, R, O, D, T, S)
                            /\ Owns(o, R, O, D, T, S)
    BY <1>1, <1>2, TaskBooks
<1>4. PICK R, O, D, T, S : Books(P, LivingOf(P), R, O, D, T, S) /\ Holds(m, R, O, D, T, S) /\ Owns(o, R, O, D, T, S)
    BY <1>3
<1>5. Outcome(z, Q)
  <2>1. [proc EXCEPT ![p].state = "in exec", ![p].buffers = <<a, b>>] = Q
    <3> DEFINE c == <<a, b>>
    <3> HIDE DEF c
    <3>1. p \in Tasks
      BY DEF Tasks
    <3> QED
      BY <1>3, <3>1 DEF IsProcs, WithTask, WithBuffers
  <2> QED
    BY <1>1, <2>1
<1> SUFFICES Panicked(z.mm) \/ Sound(z.mm, Q)
  <2> HIDE DEF z, Q
  <2> QED
    BY <1>2, <1>5, SoundAfter
<1>6. Panicked(x.mm) \/ (a \in Pages \ (R \cup O) /\ Holds(x.mm, R, O \cup {a}, D, T, S))
  <2>1. x = AllocZeroed(m)
    OBVIOUS
  <2> HIDE DEF x
  <2> QED
    BY <1>4, <2>1, HoldsZeroed
<1> DEFINE w == x.mm
           N == O \cup {a}
<1>7. CASE Panicked(w)
  <2>0. z = AllocZeroed(w)
    OBVIOUS
  <2> HIDE DEF w, z
  <2>1. Panicked(z.mm)
    BY <1>7, <2>0, AllocPanics
  <2> QED
    BY <2>1
<1>8. CASE a \in Pages \ (R \cup O) /\ Holds(w, R, N, D, T, S)
  <2>1. Panicked(z.mm) \/ (b \in Pages \ (R \cup N) /\ Holds(z.mm, R, N \cup {b}, D, T, S))
    <3>1. z = AllocZeroed(w)
      OBVIOUS
    <3> HIDE DEF w, z, N
    <3> QED
      BY <1>8, <3>1, HoldsZeroed
  <2> SUFFICES ASSUME b \in Pages \ (R \cup N), Holds(z.mm, R, N \cup {b}, D, T, S) PROVE Sound(z.mm, Q)
    BY <2>1
  <2>2. IsTask(o) /\ ListOK(o.ranges) /\ Distinct(o.ranges) /\ o.kernel_stack_pages \in Nat /\ o.buffers = <<>>
    BY <1>1, <1>3 DEF TaskOK, BuffersOK
  <2>3. OthersOf(o) = StackOf(o) /\ StackOf(o) \subseteq O
    BY <1>4, <2>2, NoBuffers DEF Owns
  <2>4. a \in Nat /\ b \in Nat /\ a # b /\ a \notin O /\ b \notin O
    BY <1>8, MemoryConstants DEF Pages
  <2> DEFINE c == <<a, b>>
  <2>5. c = <<a, b>> /\ t = WithBuffers(o, "in exec", c)
    OBVIOUS
  <2> HIDE DEF x, z, a, b, c, t
  <2>6. /\ IsTask(t) /\ t.ranges = o.ranges /\ t.pml4_page = o.pml4_page /\ t.task_struct = o.task_struct
        /\ t.kernel_stack_pages = o.kernel_stack_pages /\ t.buffers = c /\ t.state = "in exec"
        /\ t.heap_bottom = o.heap_bottom /\ t.heap_top = o.heap_top /\ t.program_break = o.program_break
        /\ StackOf(t) = StackOf(o)
    <3> DEFINE e == "in exec"
    <3>1. IsTask(o) /\ t = WithBuffers(o, e, c)
      BY <2>2, <2>5
    <3> HIDE DEF o, e
    <3>2. /\ IsTask(t) /\ t.ranges = o.ranges /\ t.pml4_page = o.pml4_page /\ t.task_struct = o.task_struct
          /\ t.kernel_stack_pages = o.kernel_stack_pages /\ t.buffers = c /\ t.state = e
          /\ t.heap_bottom = o.heap_bottom /\ t.heap_top = o.heap_top /\ t.program_break = o.program_break
          /\ StackOf(t) = StackOf(o)
      BY <3>1, WithBuffersIs
    <3> QED
      BY <3>2 DEF e
  <2>7. TaskOK(t)
    <3>1. BuffersOK(t)
      BY <2>3, <2>4, <2>5, <2>6 DEF BuffersOK
    <3> QED
      BY <2>2, <2>6, <3>1 DEF TaskOK
  <2>8. UserOK(t)
    BY <1>3, <2>6 DEF UserOK
  <2>9. OthersOf(t) = StackOf(o) \cup {a, b}
    <3>1. t.buffers = <<a, b>>
      BY <2>5, <2>6
    <3>2. OthersOf(t) = StackOf(t) \cup {a, b}
      BY <3>1, TwoBuffers
    <3> QED
      BY <2>6, <3>2
  <2> DEFINE F == O \ OthersOf(o)
             v == z.mm
  <2>10. OthersOf(t) \cap F = {} /\ F \cup OthersOf(t) = N \cup {b}
    BY <2>3, <2>4, <2>9
  <2>11. Holds(v, R, F \cup OthersOf(t), D, T, S) /\ F = O \ OthersOf(o) /\ o = P[p]
    BY <2>10
  <2> HIDE DEF F, v, o, P
  <2>12. Sound(v, WithTask(P, p, t))
    BY <1>3, <1>4, <2>6, <2>7, <2>8, <2>10, <2>11, TaskChanged
  <2> QED
    BY <2>12 DEF v
<1> QED
    BY <1>6, <1>7, <1>8

\* A process leaves exec: no buffers.
LEMMA LeavesExec ==
    ASSUME NEW o, IsTask(o), ListOK(o.ranges), Distinct(o.ranges), o.kernel_stack_pages \in Nat,
           NEW t, t = WithBuffers(o, "TS_RUNNING", <<>>)
    PROVE  /\ TaskOK(t) /\ OthersOf(t) = StackOf(o) /\ t.ranges = o.ranges /\ t.pml4_page = o.pml4_page
           /\ t.task_struct = o.task_struct /\ (UserOK(o) => UserOK(t))
<1> DEFINE e == "TS_RUNNING"
           c == <<>>
<1>1. t = WithBuffers(o, e, c)
    OBVIOUS
<1> HIDE DEF e, c
<1>2. /\ IsTask(t) /\ t.ranges = o.ranges /\ t.pml4_page = o.pml4_page /\ t.task_struct = o.task_struct
      /\ t.kernel_stack_pages = o.kernel_stack_pages /\ t.buffers = c /\ t.state = e
      /\ t.heap_bottom = o.heap_bottom /\ t.heap_top = o.heap_top /\ t.program_break = o.program_break
      /\ StackOf(t) = StackOf(o)
    BY <1>1, WithBuffersIs
<1>3. t.buffers = <<>> /\ t.state = "TS_RUNNING"
    BY <1>2 DEF c, e
<1>4. TaskOK(t)
    BY <1>2, <1>3 DEF TaskOK, BuffersOK
<1>5. OthersOf(t) = StackOf(o)
    BY <1>2, <1>3, NoBuffers
<1>6. UserOK(o) => UserOK(t)
    BY <1>2 DEF UserOK
<1> QED
    BY <1>2, <1>4, <1>5, <1>6

\* exec does not find the program.
LEMMA ExecNotFoundSound ==
    ASSUME IInv, NEW p \in Procs, ExecNotFound(p)
    PROVE  IInv'
<1> DEFINE P == proc
           o == P[p]
           t == WithBuffers(o, "TS_RUNNING", <<>>)
           x == FreeBuffers(m, o)
<1>1. ~ m.panic /\ o.state = "in exec" /\ m' = x
      /\ proc' = [proc EXCEPT ![p].state = "TS_RUNNING", ![p].buffers = <<>>]
    BY DEF ExecNotFound
<1>2. Sound(m, P) /\ m \in Mems
    BY <1>1, SoundBefore
<1>3. /\ IsProcs(P) /\ Checked(P, LivingOf(P)) /\ p \in LivingOf(P) /\ TaskOK(o) /\ UserOK(o)
      /\ \E R, O, D, T, S : /\ Books(P, LivingOf(P), R, O, D, T, S) /\ Holds(m, R, O, D, T, S)
                            /\ Owns(o, R, O, D, T, S)
    BY <1>1, <1>2, TaskBooks
<1>4. PICK R, O, D, T, S : Books(P, LivingOf(P), R, O, D, T, S) /\ Holds(m, R, O, D, T, S) /\ Owns(o, R, O, D, T, S)
    BY <1>3
<1>5. proc' = WithTask(P, p, t)
  <2> DEFINE c == <<>>
  <2>1. proc' = [proc EXCEPT ![p].state = "TS_RUNNING", ![p].buffers = c] /\ p \in Tasks
    BY <1>1 DEF Tasks
  <2>2. [proc EXCEPT ![p].state = "TS_RUNNING", ![p].buffers = c] = WithTask(P, p, WithBuffers(o, "TS_RUNNING", c))
    <3> HIDE DEF c
    <3> QED
      BY <1>3, <2>1 DEF IsProcs, WithTask, WithBuffers
  <2> QED
    BY <2>1, <2>2
<1> DEFINE N == O \ OthersOf(o)
<1>6. Holds(x, R, N \cup StackOf(o), D, T, S)
  <2>1. x = FreeBuffers(m, o) /\ OthersOf(o) \subseteq O
    BY <1>4 DEF Owns
  <2> HIDE DEF x, o, P
  <2> QED
    BY <1>1, <1>3, <1>4, <2>1, BuffersFreed
<1>7. /\ TaskOK(t) /\ OthersOf(t) = StackOf(o) /\ t.ranges = o.ranges /\ t.pml4_page = o.pml4_page
      /\ t.task_struct = o.task_struct /\ UserOK(t)
  <2>1. IsTask(o) /\ ListOK(o.ranges) /\ Distinct(o.ranges) /\ o.kernel_stack_pages \in Nat
    BY <1>3 DEF TaskOK
  <2>2. t = WithBuffers(o, "TS_RUNNING", <<>>)
    OBVIOUS
  <2> HIDE DEF t, o
  <2> QED
    BY <1>3, <2>1, <2>2, LeavesExec
<1>8. StackOf(o) \subseteq OthersOf(o)
    BY DEF OthersOf
<1>9. OthersOf(t) \cap N = {} /\ Holds(x, R, N \cup OthersOf(t), D, T, S) /\ N = O \ OthersOf(o) /\ o = P[p]
    BY <1>6, <1>7, <1>8
<1> HIDE DEF x, t, o, N, P
<1>10. Sound(x, WithTask(P, p, t))
    BY <1>3, <1>4, <1>7, <1>9, TaskChanged
<1> QED
    BY <1>1, <1>5, <1>10, SoundStep

\* exec loads the program.
LEMMA ExecFoundSound ==
    ASSUME IInv, NEW p \in Procs, NEW prog \in Programs, ExecFound(p, prog)
    PROVE  IInv'
<1> DEFINE P == proc
           o == P[p]
           r == o.pml4_page
           x == free_userspace_memory(m, o)
           s == [mm |-> x, task |-> WithRanges(o, <<>>)]
           y == load_elf64(s, prog)
           w == Write(y.mm, r, UserEnd - 1, ARGUMENTS)
           f == FreeBuffers(w, o)
           u == WithBuffers(y.task, "TS_RUNNING", <<>>)
           t == libc_init(u)
           Q == WithTask(P, p, t)
           z == IF y.mm.panic THEN y ELSE [y EXCEPT !.mm = f]
<1>1. ~ m.panic /\ o.state = "in exec" /\ Outcome(z, Q)
    BY DEF ExecFound, WithRanges, WithBuffers, WithTask
<1>2. Sound(m, P) /\ m \in Mems
    BY <1>1, SoundBefore
<1>3. /\ IsProcs(P) /\ Checked(P, LivingOf(P)) /\ p \in LivingOf(P) /\ TaskOK(o) /\ UserOK(o)
      /\ \E R, O, D, T, S : /\ Books(P, LivingOf(P), R, O, D, T, S) /\ Holds(m, R, O, D, T, S)
                            /\ Owns(o, R, O, D, T, S)
    BY <1>1, <1>2, TaskBooks
<1>4. PICK R, O, D, T, S : Books(P, LivingOf(P), R, O, D, T, S) /\ Holds(m, R, O, D, T, S) /\ Owns(o, R, O, D, T, S)
    BY <1>3
<1> SUFFICES Panicked(z.mm) \/ Sound(z.mm, Q)
  <2> HIDE DEF z, Q
  <2> QED
    BY <1>1, <1>2, SoundAfter
<1> DEFINE E == Elsewhere(D, r)
           U == S \ ObjectsIn(o.ranges)
           N == O \ OthersOf(o)
<1>5. IsTask(o) /\ ListOK(o.ranges) /\ Distinct(o.ranges) /\ o.kernel_stack_pages \in Nat
    BY <1>3 DEF TaskOK
<1>6. r \in R /\ OthersOf(o) \subseteq O /\ ObjectsIn(o.ranges) \subseteq S
    BY <1>4 DEF Owns
<1>7. Holds(x, R, O, E, T, U)
  <2> DEFINE q == o.ranges
  <2>1. /\ r = o.pml4_page /\ r \in R /\ q = o.ranges /\ ListOK(q) /\ Distinct(q) /\ ObjectsIn(q) \subseteq S
        /\ x = free_userspace_memory(m, o) /\ E = Elsewhere(D, r) /\ U = S \ ObjectsIn(q)
    BY <1>5, <1>6
  <2> HIDE DEF r, q, x, E, U, o, P
  <2> QED
    BY <1>4, <2>1, MemoryFreed
<1>8. Pair(s) /\ s.task = WithRanges(o, <<>>) /\ s.mm = x
  <2> DEFINE k == WithRanges(o, <<>>)
  <2> HIDE DEF x, k
  <2> QED
    BY DEF Pair
<1>9. /\ o.pml4_page \in R /\ (\A v \in E : v[1] # o.pml4_page) /\ Gives(s.mm, R, O, E, T, U)
      /\ y = load_elf64(s, prog)
    BY <1>6, <1>7, <1>8 DEF Gives, Elsewhere
<1> HIDE DEF s, y, x, E, U
<1>10. Loaded(y, o, R, O, E, T, U)
  <2> HIDE DEF o
  <2> QED
    BY <1>5, <1>8, <1>9, Loads
<1>11. PICK q, h : Makes(y, o, q, R, O, E \cup SpotsOf(r, q), T, U) /\ HeapAt(q, h)
    BY <1>10 DEF Loaded
<1> DEFINE F == E \cup SpotsOf(r, q)
           G == U \cup ObjectsIn(q)
           e == y.mm
<1>12. /\ Pair(y) /\ y.task = WithRanges(o, q) /\ ListOK(q)
       /\ Panicked(e) \/ (Distinct(q) /\ ObjectsIn(q) \cap U = {} /\ Holds(e, R, O, F, T, G))
    BY <1>11 DEF Makes, Structs
<1>13. CASE Panicked(e)
  <2>1. z = y
    BY <1>13 DEF Panicked
  <2> QED
    BY <1>13, <2>1
<1>14. CASE Distinct(q) /\ ObjectsIn(q) \cap U = {} /\ Holds(e, R, O, F, T, G)
  <2>1. NoPanic(e)
    BY <1>14, HoldsParts
  <2>2. z.mm = f
    <3>1. z = [y EXCEPT !.mm = f]
      BY <2>1 DEF NoPanic
    <3> HIDE DEF z, f
    <3> QED
      BY <1>12, <3>1 DEF Pair
  <2> HIDE DEF z, F, G, e
  <2>3. Holds(w, R, O, F, T, G)
    <3> DEFINE a == UserEnd - 1
    <3>1. a \in 0 .. UserEnd - 1 /\ ARGUMENTS \in Int
      BY UserPages DEF ARGUMENTS
    <3>2. w = Write(e, r, a, ARGUMENTS) /\ r \in R
      BY <1>6 DEF e
    <3> HIDE DEF a, w, r
    <3> QED
      BY <1>14, <3>1, <3>2, HoldsWrite
  <2>4. Holds(f, R, N \cup StackOf(o), F, T, G)
    <3>1. f = FreeBuffers(w, o)
      OBVIOUS
    <3> HIDE DEF f, w, o
    <3> QED
      BY <1>1, <1>3, <1>6, <2>3, <3>1, BuffersFreed
  <2> DEFINE k == y.task
  <2>5. /\ IsTask(k) /\ k.ranges = q /\ k.pml4_page = r /\ k.task_struct = o.task_struct
        /\ k.kernel_stack_pages = o.kernel_stack_pages
    BY <1>5, <1>12, WithRangesIs
  <2>6. StackOf(k) = StackOf(o) /\ ListOK(k.ranges) /\ Distinct(k.ranges) /\ k.kernel_stack_pages \in Nat
    BY <1>5, <1>12, <1>14, <2>5 DEF StackOf
  <2>7. u = WithBuffers(k, "TS_RUNNING", <<>>) /\ t = libc_init(u)
    OBVIOUS
  <2> HIDE DEF k, u, t, o, r, f
  <2>8. /\ TaskOK(u) /\ OthersOf(u) = StackOf(k) /\ u.ranges = k.ranges /\ u.pml4_page = k.pml4_page
        /\ u.task_struct = k.task_struct
    BY <2>5, <2>6, <2>7, LeavesExec
  <2>9. TaskOK(t) /\ UserOK(t) /\ SameOwned(t, u)
    <3>1. HeapAt(u.ranges, h)
      BY <1>11, <2>5, <2>8
    <3> QED
      BY <2>7, <2>8, <3>1, LibcInit
  <2>10. /\ t.pml4_page = o.pml4_page /\ t.pml4_page = r /\ t.task_struct = o.task_struct
         /\ OthersOf(t) = StackOf(o) /\ t.ranges = q
    BY <2>5, <2>6, <2>8, <2>9 DEF SameOwned, r
  <2>11. StackOf(o) \subseteq OthersOf(o)
    BY DEF OthersOf
  <2>12. OthersOf(t) \cap N = {} /\ ObjectsIn(t.ranges) \cap U = {}
    BY <1>14, <2>10, <2>11
  <2>13. Holds(f, R, N \cup OthersOf(t), E \cup SpotsOf(t.pml4_page, t.ranges), T, U \cup ObjectsIn(t.ranges))
    BY <2>4, <2>10 DEF F, G
  <2>14. E = Elsewhere(D, o.pml4_page) /\ N = O \ OthersOf(o) /\ U = S \ ObjectsIn(o.ranges) /\ o = P[p]
    BY DEF E, U, o, r
  <2> HIDE DEF N, P
  <2>15. Sound(f, WithTask(P, p, t))
    BY <1>3, <1>4, <2>9, <2>10, <2>12, <2>13, <2>14, TaskReplaced
  <2> QED
    BY <2>2, <2>15
<1> QED
    BY <1>12, <1>13, <1>14

\* malloc moves the top of the libc's heap.
WithTop(t, top) == [t EXCEPT !.heap_top = top]

\* The fields of a task with another top.
LEMMA WithTopIs ==
    ASSUME NEW t, IsTask(t), NEW top, NEW u, u = WithTop(t, top)
    PROVE  /\ IsTask(u) /\ u.ranges = t.ranges /\ u.pml4_page = t.pml4_page /\ u.task_struct = t.task_struct
           /\ u.kernel_stack_pages = t.kernel_stack_pages /\ u.buffers = t.buffers /\ u.state = t.state
           /\ u.heap_bottom = t.heap_bottom /\ u.heap_top = top /\ u.program_break = t.program_break
    BY DEF IsTask, WithTop

\* The fields of a task with another break.
LEMMA WithBreakIs ==
    ASSUME NEW t, IsTask(t), NEW q, NEW end, NEW u, u = WithBreak(t, q, end)
    PROVE  /\ IsTask(u) /\ u.ranges = q /\ u.pml4_page = t.pml4_page /\ u.task_struct = t.task_struct
           /\ u.kernel_stack_pages = t.kernel_stack_pages /\ u.buffers = t.buffers /\ u.state = t.state
           /\ u.heap_bottom = t.heap_bottom /\ u.heap_top = t.heap_top /\ u.program_break = end
    BY DEF IsTask, WithBreak

\* malloc.
LEMMA MallocSound ==
    ASSUME IInv, NEW p \in Procs, NEW size \in Sizes, Malloc(p, size)
    PROVE  IInv'
<1> DEFINE P == proc
           o == P[p]
           top == o.heap_top + size
           a == WithTop(o, top)
           s == [mm |-> m, task |-> a]
           z == IF top > o.program_break THEN brk(s, top) ELSE s
           Q == WithTask(P, p, z.task)
<1>1. ~ m.panic /\ o.state = "TS_RUNNING" /\ top <= HeapLimit /\ Outcome(z, Q)
    BY DEF Malloc, Running, WithTask, WithTop
<1>2. Sound(m, P) /\ m \in Mems
    BY <1>1, SoundBefore
<1>3. /\ IsProcs(P) /\ Checked(P, LivingOf(P)) /\ p \in LivingOf(P) /\ TaskOK(o) /\ UserOK(o)
      /\ \E R, O, D, T, S : /\ Books(P, LivingOf(P), R, O, D, T, S) /\ Holds(m, R, O, D, T, S)
                            /\ Owns(o, R, O, D, T, S)
    BY <1>1, <1>2, TaskBooks
<1>4. PICK R, O, D, T, S : Books(P, LivingOf(P), R, O, D, T, S) /\ Holds(m, R, O, D, T, S) /\ Owns(o, R, O, D, T, S)
    BY <1>3
<1> SUFFICES Panicked(z.mm) \/ Sound(z.mm, Q)
  <2> HIDE DEF z, Q
  <2> QED
    BY <1>1, <1>2, SoundAfter
<1>5. PICK h : /\ HeapAt(o.ranges, h) /\ o.program_break = o.ranges[h].end
               /\ o.heap_bottom \in Nat /\ o.ranges[h].start <= o.heap_bottom
               /\ o.heap_top \in Nat /\ o.heap_top <= o.program_break
    BY <1>3 DEF UserOK
<1>6. size \in Nat /\ HeapLimit \in Nat /\ HeapLimit <= STACK /\ STACK \in Nat
    BY MemoryAssumption, UserPages
<1>7. top \in Nat /\ top <= STACK
    BY <1>1, <1>5, <1>6
<1>8. IsTask(o) /\ ListOK(o.ranges) /\ Distinct(o.ranges) /\ o.kernel_stack_pages \in Nat /\ BuffersOK(o)
    BY <1>3 DEF TaskOK
<1>9. /\ IsTask(a) /\ a.ranges = o.ranges /\ a.pml4_page = o.pml4_page /\ a.task_struct = o.task_struct
      /\ a.kernel_stack_pages = o.kernel_stack_pages /\ a.buffers = o.buffers /\ a.state = o.state
      /\ a.heap_bottom = o.heap_bottom /\ a.heap_top = top /\ a.program_break = o.program_break
  <2>1. a = WithTop(o, top)
    OBVIOUS
  <2> HIDE DEF a, top, o
  <2> QED
    BY <1>8, <2>1, WithTopIs
<1>10. o.ranges[h].end \in Nat
    BY <1>5, <1>8 DEF HeapAt, ListOK, RangeOK
<1> DEFINE N == O \ OthersOf(o)
<1>11. OthersOf(o) \subseteq O /\ N \cup OthersOf(o) = O
    BY <1>4 DEF Owns
<1>12. CASE top <= o.program_break
  <2>1. z = s
    BY <1>5, <1>7, <1>10, <1>12
  <2>2. z.mm = m /\ z.task = a
    BY <2>1
  <2>3. StackOf(a) = StackOf(o) /\ OthersOf(a) = OthersOf(o)
    BY <1>9 DEF StackOf, OthersOf, BuffersOf
  <2>4. TaskOK(a)
    BY <1>8, <1>9, <2>3 DEF TaskOK, BuffersOK
  <2>5. UserOK(a)
    BY <1>5, <1>7, <1>9, <1>12 DEF UserOK
  <2>6. OthersOf(a) \cap N = {} /\ Holds(m, R, N \cup OthersOf(a), D, T, S) /\ N = O \ OthersOf(o) /\ o = P[p]
    BY <1>4, <1>11, <2>3
  <2> HIDE DEF a, o, P, N, z
  <2>7. Sound(m, WithTask(P, p, a))
    BY <1>3, <1>4, <1>9, <2>4, <2>5, <2>6, TaskChanged
  <2> QED
    BY <2>2, <2>7
<1>13. CASE top > o.program_break
  <2> DEFINE r == a.pml4_page
             q == a.ranges
  <2>1. z = brk(s, top) /\ s = [mm |-> m, task |-> a] /\ q = a.ranges
    BY <1>13
  <2>2. r \in R /\ ListOK(q) /\ HeapAt(q, h) /\ q[h].end < top /\ \A y \in D : y[1] = r => y \in SpotsOf(r, q)
    BY <1>4, <1>5, <1>7, <1>8, <1>9, <1>10, <1>13 DEF Owns
  <2>3. a.pml4_page \in R /\ \A y \in D : y[1] = a.pml4_page => y \in SpotsOf(a.pml4_page, q)
    BY <2>2
  <2> HIDE DEF z, s, a, top, q
  <2>4. Grows(z, a, q, h, top, R, O, D, T, S)
    BY <1>4, <1>7, <1>9, <2>1, <2>2, <2>3, HeapGrows
  <2> SUFFICES ASSUME ~ Panicked(z.mm) PROVE Sound(z.mm, Q)
    OBVIOUS
  <2>5. PICK c, end : /\ z.task = WithBreak(a, c, end) /\ end \in Nat /\ top <= end /\ Extends(q, h, end, c)
                      /\ Holds(z.mm, R, O, D \cup Spots(r, q[h].end, end), T, S)
    BY <2>4 DEF Grows
  <2> DEFINE t == z.task
  <2>6. /\ IsTask(t) /\ t.ranges = c /\ t.pml4_page = a.pml4_page /\ t.task_struct = a.task_struct
        /\ t.kernel_stack_pages = a.kernel_stack_pages /\ t.buffers = a.buffers /\ t.state = a.state
        /\ t.heap_bottom = a.heap_bottom /\ t.heap_top = a.heap_top /\ t.program_break = end
    BY <1>9, <2>5, WithBreakIs
  <2>7. /\ ListOK(c) /\ HeapAt(c, h) /\ c[h].end = end /\ c[h].start = q[h].start
        /\ ObjectsIn(c) = ObjectsIn(q) /\ (Distinct(q) => Distinct(c))
        /\ SpotsOf(r, c) = SpotsOf(r, q) \cup Spots(r, q[h].end, end)
    BY <2>5 DEF Extends
  <2> HIDE DEF t
  <2>8. StackOf(t) = StackOf(o) /\ OthersOf(t) = OthersOf(o)
    BY <1>9, <2>6 DEF StackOf, OthersOf, BuffersOf
  <2>9. TaskOK(t)
    BY <1>8, <1>9, <2>6, <2>7, <2>8 DEF TaskOK, BuffersOK, q
  <2>10. UserOK(t)
    BY <1>5, <1>7, <1>9, <2>5, <2>6, <2>7 DEF UserOK, q
  <2> DEFINE E == Elsewhere(D, o.pml4_page)
             U == S \ ObjectsIn(o.ranges)
             v == z.mm
             F == D \cup Spots(r, q[h].end, end)
  <2>11. r = o.pml4_page /\ q = o.ranges /\ t.pml4_page = r /\ t.ranges = c /\ t.task_struct = o.task_struct
    BY <1>9, <2>6 DEF q
  <2>12. E \cup SpotsOf(t.pml4_page, t.ranges) = F
    <3>1. SpotsOf(r, q) \subseteq D /\ \A y \in D : y[1] = r => y \in SpotsOf(r, q)
      BY <1>4, <2>11 DEF Owns
    <3>2. \A y : y \in E <=> y \in D /\ y[1] # r
      BY <2>11 DEF Elsewhere
    <3>3. SpotsOf(t.pml4_page, t.ranges) = SpotsOf(r, q) \cup Spots(r, q[h].end, end)
      BY <2>7, <2>11
    <3> HIDE DEF E
    <3> QED
      BY <3>1, <3>2, <3>3
  <2>13. U \cup ObjectsIn(t.ranges) = S /\ ObjectsIn(t.ranges) \cap U = {}
    BY <1>4, <2>7, <2>11 DEF Owns
  <2>14. Holds(v, R, N \cup OthersOf(t), E \cup SpotsOf(t.pml4_page, t.ranges), T, U \cup ObjectsIn(t.ranges))
    BY <1>11, <2>5, <2>8, <2>12, <2>13
  <2>15. /\ OthersOf(t) \cap N = {} /\ N = O \ OthersOf(o) /\ o = P[p] /\ t.pml4_page = o.pml4_page
         /\ E = Elsewhere(D, o.pml4_page) /\ U = S \ ObjectsIn(o.ranges)
    BY <2>8, <2>11
  <2> HIDE DEF E, U, N, o, P, v
  <2>16. Sound(v, WithTask(P, p, t))
    BY <1>3, <1>4, <2>9, <2>10, <2>11, <2>13, <2>14, <2>15, TaskReplaced
  <2> QED
    BY <2>16 DEF t, v
<1> QED
    BY <1>5, <1>7, <1>10, <1>12, <1>13

\* A program writes to its memory.
LEMMA StoreSound ==
    ASSUME IInv, NEW p \in Procs, NEW address \in StoreAddresses, Store(p, address)
    PROVE  IInv'
<1> DEFINE P == proc
           o == P[p]
           r == o.pml4_page
           x == Write(m, r, address, 7)
<1>1. ~ m.panic /\ o.state = "TS_RUNNING" /\ m' = x /\ proc' = proc
    BY DEF Store, Running
<1>2. Sound(m, P) /\ m \in Mems
    BY <1>1, SoundBefore
<1>3. /\ IsProcs(P) /\ Checked(P, LivingOf(P)) /\ p \in LivingOf(P) /\ TaskOK(o) /\ UserOK(o)
      /\ \E R, O, D, T, S : /\ Books(P, LivingOf(P), R, O, D, T, S) /\ Holds(m, R, O, D, T, S)
                            /\ Owns(o, R, O, D, T, S)
    BY <1>1, <1>2, TaskBooks
<1>4. PICK R, O, D, T, S : Books(P, LivingOf(P), R, O, D, T, S) /\ Holds(m, R, O, D, T, S) /\ Owns(o, R, O, D, T, S)
    BY <1>3
<1>5. r \in R /\ address \in 0 .. UserEnd - 1 /\ 7 \in Int /\ x = Write(m, r, address, 7)
    BY <1>4, MemoryAssumption DEF Owns
<1> DEFINE k == 7
<1>6. k \in Int /\ x = Write(m, r, address, k)
    BY <1>5
<1> HIDE DEF x, r, k
<1>7. Holds(x, R, O, D, T, S)
    BY <1>4, <1>5, <1>6, HoldsWrite
<1>8. Sound(x, P)
    BY <1>2, <1>4, <1>7 DEF Sound, Owned
<1> QED
    BY <1>1, <1>8, SoundStep

\* A process dies.
LEMMA DieSound ==
    ASSUME IInv, NEW p \in Procs, Die(p)
    PROVE  IInv'
<1> DEFINE P == proc
           o == P[p]
           t == WithBuffers(o, "TS_ZOMBIE", o.buffers)
<1>1. /\ o.state = "TS_RUNNING" \/ (KillDuringExec /\ o.state = "in exec")
      /\ m' = m /\ proc' = [proc EXCEPT ![p].state = "TS_ZOMBIE"]
    BY DEF Die
<1>1a. ~ m.panic
    BY DEF Die
<1>2. Sound(m, P) /\ m \in Mems
    BY <1>1a, SoundBefore
<1>3. /\ IsProcs(P) /\ Checked(P, LivingOf(P)) /\ p \in LivingOf(P) /\ TaskOK(o) /\ UserOK(o)
      /\ \E R, O, D, T, S : /\ Books(P, LivingOf(P), R, O, D, T, S) /\ Holds(m, R, O, D, T, S)
                            /\ Owns(o, R, O, D, T, S)
    BY <1>1, <1>2, TaskBooks
<1>4. PICK R, O, D, T, S : Books(P, LivingOf(P), R, O, D, T, S) /\ Holds(m, R, O, D, T, S) /\ Owns(o, R, O, D, T, S)
    BY <1>3
<1>5. IsTask(o) /\ ListOK(o.ranges) /\ Distinct(o.ranges) /\ o.kernel_stack_pages \in Nat /\ BuffersOK(o)
    BY <1>3 DEF TaskOK
<1>6. proc' = WithTask(P, p, t)
  <2>1. p \in Tasks /\ proc = [i \in Tasks |-> proc[i]]
    BY <1>3 DEF Tasks, IsProcs
  <2>2. [proc[p] EXCEPT !.state = "TS_ZOMBIE"] = t
    BY <1>5 DEF WithBuffers, IsTask
  <2>3. proc' = [proc EXCEPT ![p] = [proc[p] EXCEPT !.state = "TS_ZOMBIE"]]
    BY <1>1, <2>1
  <2> QED
    BY <2>2, <2>3 DEF WithTask
<1> DEFINE e == "TS_ZOMBIE"
           b == o.buffers
<1>7. t = WithBuffers(o, e, b)
    OBVIOUS
<1> HIDE DEF t, e, b
<1>8. /\ IsTask(t) /\ t.ranges = o.ranges /\ t.pml4_page = o.pml4_page /\ t.task_struct = o.task_struct
      /\ t.kernel_stack_pages = o.kernel_stack_pages /\ t.buffers = b /\ t.state = e
      /\ t.heap_bottom = o.heap_bottom /\ t.heap_top = o.heap_top /\ t.program_break = o.program_break
      /\ StackOf(t) = StackOf(o)
    BY <1>5, <1>7, WithBuffersIs
<1>9. t.buffers = o.buffers /\ t.state = "TS_ZOMBIE"
    BY <1>8 DEF b, e
<1>10. OthersOf(t) = OthersOf(o)
    BY <1>8, <1>9 DEF OthersOf, BuffersOf
<1>11. TaskOK(t)
  <2>1. BuffersOK(t)
    <3>1. CASE o.state = "TS_RUNNING"
      <4>1. t.buffers = <<>>
        BY <1>5, <1>9, <3>1 DEF BuffersOK
      <4> QED
        BY <1>9, <4>1 DEF BuffersOK
    <3>2. CASE KillDuringExec /\ o.state = "in exec"
      <4>1. \E c, d \in Nat : o.buffers = <<c, d>> /\ c # d /\ c \notin StackOf(o) /\ d \notin StackOf(o)
        BY <1>5, <3>2 DEF BuffersOK
      <4> QED
        BY <1>8, <1>9, <3>2, <4>1 DEF BuffersOK
    <3> QED
      BY <3>1, <3>2 DEF Die
  <2> QED
    BY <1>5, <1>8, <2>1 DEF TaskOK
<1>12. UserOK(t)
    BY <1>3, <1>8 DEF UserOK
<1> DEFINE N == O \ OthersOf(o)
<1>13. OthersOf(t) \cap N = {} /\ Holds(m, R, N \cup OthersOf(t), D, T, S) /\ N = O \ OthersOf(o) /\ o = P[p]
  <2>1. N \cup OthersOf(o) = O
    BY <1>4 DEF Owns
  <2> QED
    BY <1>4, <1>10, <2>1
<1> HIDE DEF N, o, P
<1>14. Sound(m, WithTask(P, p, t))
    BY <1>3, <1>4, <1>8, <1>11, <1>12, <1>13, TaskChanged
<1>15. m' = m
    BY DEF Die
<1> QED
    BY <1>6, <1>14, <1>15, SoundStep

\* The pages and structs of a task are freed; the buffers of a task killed
\* inside exec are lost.
LEMMA TaskFreed ==
    ASSUME NEW mm, NEW R, NEW O, NEW D, NEW T, NEW S, Holds(mm, R, O, D, T, S), NEW o, TaskOK(o),
           o.state = "TS_ZOMBIE", Owns(o, R, O, D, T, S), NEW E, E = Elsewhere(D, o.pml4_page),
           NEW u, u = free_userspace_memory(mm, o), NEW v, v = kpage_free(u, o.pml4_page, 1),
           NEW w, w = kpage_free(v, o.kernel_stack_pages, KERNEL_STACK_PAGES),
           NEW x, x = slab_free(w, "task_struct", o.task_struct)
    PROVE  Holds(x, R \ {o.pml4_page}, O \ OthersOf(o), E, T \ {o.task_struct}, S \ ObjectsIn(o.ranges))
<1> DEFINE r == o.pml4_page
           k == o.kernel_stack_pages
           q == o.ranges
           V == R \ {r}
           U == S \ ObjectsIn(q)
           N == O \cup {r}
           F == O \ StackOf(o)
           W == T \ {o.task_struct}
<1>1. r \in R /\ OthersOf(o) \subseteq O /\ ObjectsIn(q) \subseteq S /\ o.task_struct \in T
    BY DEF Owns
<1>2. ListOK(q) /\ Distinct(q) /\ k \in Nat /\ BuffersOK(o)
    BY DEF TaskOK
<1>3. Holds(u, V, N, E, T, U)
  <2>1. r = o.pml4_page /\ q = o.ranges /\ E = Elsewhere(D, r)
    OBVIOUS
  <2> HIDE DEF r, q
  <2>2. Holds(u, R \ {r}, O \cup {r}, E, T, S \ ObjectsIn(q))
    BY <1>1, <1>2, <2>1, MemoryFreed
  <2> QED
    BY <2>2
<1>4. r \in Nat /\ r \notin O
  <2>1. R \subseteq Pages /\ R \cap O = {}
    BY HoldsParts
  <2>2. r \in R
    BY <1>1
  <2> HIDE DEF r
  <2>3. r \in Pages /\ r \notin O
    BY <2>1, <2>2
  <2> QED
    BY <2>3, MemoryConstants DEF Pages
<1>5. Run(r, 1) = {r}
    BY <1>4, RunOne
<1>6. N \ Run(r, 1) = O /\ Run(r, 1) \subseteq N /\ 1 \in Nat /\ v = kpage_free(u, r, 1)
    BY <1>4, <1>5
<1> HIDE DEF N, V, U, r
<1>7. Holds(v, V, O, E, T, U)
  <2>1. Holds(v, V, N \ Run(r, 1), E, T, U)
    BY <1>3, <1>4, <1>6, HoldsFree
  <2> QED
    BY <1>6, <2>1
<1>8. KERNEL_STACK_PAGES \in Nat /\ Run(k, KERNEL_STACK_PAGES) \subseteq O /\ F = O \ Run(k, KERNEL_STACK_PAGES)
      /\ w = kpage_free(v, k, KERNEL_STACK_PAGES)
    BY <1>1, MemoryConstants DEF OthersOf, StackOf
<1> HIDE DEF k, F
<1>9. Holds(w, V, F, E, T, U)
  <2>1. Holds(w, V, O \ Run(k, KERNEL_STACK_PAGES), E, T, U)
    BY <1>2, <1>7, <1>8, HoldsFree
  <2> QED
    BY <1>8, <2>1
<1> DEFINE c == o.task_struct
<1>10. c \in T /\ x = slab_free(w, "task_struct", c) /\ W = T \ {c}
    BY <1>1
<1> HIDE DEF c, W
<1>11. Holds(x, V, F, E, W, U)
    BY <1>9, <1>10, HoldsStructFree
<1>12. Holds(x, V, O \ OthersOf(o), E, W, U)
  <2>1. CASE o.buffers = <<>>
    <3>1. F = O \ OthersOf(o)
      BY <2>1, NoBuffers DEF F
    <3> QED
      BY <1>11, <3>1
  <2>2. CASE o.buffers # <<>>
    <3>1. KillDuringExec
      BY <1>2, <2>2 DEF BuffersOK
    <3> DEFINE X == BuffersOf(o)
    <3>2. F \ X = O \ OthersOf(o)
      BY DEF F, OthersOf
    <3> HIDE DEF X
    <3>3. Holds(x, V, F \ X, E, W, U)
      BY <1>11, <3>1, HoldsLost
    <3> QED
      BY <3>2, <3>3
  <2> QED
    BY <2>1, <2>2
<1> QED
    BY <1>12 DEF V, W, U, r, c

\* A zombie is reaped.
LEMMA ReapSound ==
    ASSUME IInv, NEW p \in Procs, Reap(p)
    PROVE  IInv'
<1> DEFINE P == proc
           o == P[p]
           u == free_userspace_memory(m, o)
           v == kpage_free(u, o.pml4_page, 1)
           w == kpage_free(v, o.kernel_stack_pages, KERNEL_STACK_PAGES)
           x == slab_free(w, "task_struct", o.task_struct)
           Q == WithTask(P, p, None)
           L == LivingOf(P)
           K == L \ {p}
<1>1. ~ m.panic /\ o.state = "TS_ZOMBIE" /\ m' = x /\ proc' = Q
    BY DEF Reap, WithTask
<1>2. Sound(m, P) /\ m \in Mems
    BY <1>1, SoundBefore
<1>3. /\ IsProcs(P) /\ Checked(P, LivingOf(P)) /\ p \in LivingOf(P) /\ TaskOK(o) /\ UserOK(o)
      /\ \E R, O, D, T, S : /\ Books(P, LivingOf(P), R, O, D, T, S) /\ Holds(m, R, O, D, T, S)
                            /\ Owns(o, R, O, D, T, S)
    BY <1>1, <1>2, TaskBooks
<1>4. PICK R, O, D, T, S : Books(P, L, R, O, D, T, S) /\ Holds(m, R, O, D, T, S) /\ Owns(o, R, O, D, T, S)
    BY <1>3
<1> DEFINE E == Elsewhere(D, o.pml4_page)
<1>5. /\ E = Elsewhere(D, o.pml4_page) /\ u = free_userspace_memory(m, o) /\ v = kpage_free(u, o.pml4_page, 1)
      /\ w = kpage_free(v, o.kernel_stack_pages, KERNEL_STACK_PAGES) /\ x = slab_free(w, "task_struct", o.task_struct)
      /\ o = P[p]
    OBVIOUS
<1>6. /\ IsProcs(Q) /\ Q[p] = None /\ \A s \in Tasks \ {p} : Q[s] = P[s]
  <2>1. p \in Tasks
    BY DEF Tasks
  <2>2. Q = [P EXCEPT ![p] = None]
    BY DEF WithTask
  <2> HIDE DEF Q
  <2> QED
    BY <1>3, <2>1, <2>2 DEF IsProcs
<1>7. LivingOf(Q) = K /\ \A s \in K : Q[s] = P[s]
  <2> HIDE DEF Q, P
  <2> QED
    BY <1>6 DEF LivingOf, None
<1>8. Checked(Q, K)
  <2> HIDE DEF Q, P
  <2>1. \A s \in K : TaskOK(P[s]) /\ (s \in Procs => UserOK(P[s]))
    BY <1>3 DEF Checked
  <2> HIDE DEF K
  <2> QED
    BY <1>7, <2>1 DEF Checked
<1>9. p \in L
    BY <1>3
<1> HIDE DEF E, u, v, w, x, o, P, L, Q
<1>10. Holds(x, R \ {o.pml4_page}, O \ OthersOf(o), E, T \ {o.task_struct}, S \ ObjectsIn(o.ranges))
    BY <1>1, <1>3, <1>4, <1>5, TaskFreed
<1> DEFINE a == R \ {o.pml4_page}
           b == O \ OthersOf(o)
           c == T \ {o.task_struct}
           d == S \ ObjectsIn(o.ranges)
<1>11. Books(P, K, a, b, E, c, d)
    BY <1>4, <1>5, <1>9, BooksWithout
<1>12. Holds(x, a, b, E, c, d)
    BY <1>10
<1> HIDE DEF a, b, c, d, K
<1>13. \A s \in K : SameOwned(Q[s], P[s])
    BY <1>7 DEF SameOwned
<1>14. Books(Q, K, a, b, E, c, d)
    BY <1>11, <1>13, BooksSame
<1>15. Owned(x, Q)
    BY <1>7, <1>12, <1>14 DEF Owned
<1>16. Sound(x, Q)
    BY <1>6, <1>7, <1>8, <1>15 DEF Sound
<1> QED
    BY <1>1, <1>16, SoundStep

\* kmem_init leaves nothing in use.
LEMMA MemoryStarts ==
    Holds(kmem_init, {}, {}, {}, {}, {})
<1> DEFINE mm == kmem_init
           g == [p \in Pages |-> [kind |-> 7, root |-> 0, base |-> 0]]
           M == [y \in {} |-> 0]
<1>1. 0 \in Pages /\ 0 < page_array_pages
    BY MemoryConstants DEF Pages
<1>2. mm \in Mems
  <2>1. [i \in Pages |-> IF i < page_array_pages THEN "KPAGE_PAGE_ARRAY" ELSE "KPAGE_FREE"] \in [Pages -> Statuses]
    BY DEF Statuses
  <2>2. [i \in Pages |-> Zeroed] \in [Pages -> [Slots -> Int]]
    BY DEF Zeroed
  <2>3. [a \in {"task_struct", "range"} |-> [pages |-> <<>>, free |-> {}]] \in [Allocators -> Slabs]
    <3>1. <<>> \in Seq(Pages)
      OBVIOUS
    <3>2. [pages |-> <<>>, free |-> {}] \in Slabs
      BY <3>1 DEF Slabs
    <3> QED
      BY <3>2 DEF Allocators
  <2> QED
    BY <2>1, <2>2, <2>3 DEF kmem_init, Mems
<1>3. /\ \A p \in Pages : mm.status[p] = IF p < page_array_pages THEN "KPAGE_PAGE_ARRAY" ELSE "KPAGE_FREE"
      /\ mm.kmem_used_pages = 0 /\ mm.panic = FALSE
      /\ \A a \in Allocators : mm.slab[a].pages = <<>> /\ mm.slab[a].free = {}
    BY DEF kmem_init, Allocators
<1>4. g \in [Pages -> Labels] /\ \A p \in Pages : g[p].kind = 7
    BY <1>1 DEF Labels
<1> HIDE DEF mm, g
<1>5. StatusOK(mm, g)
  <2>1. \A p \in Pages : mm.status[p] # "KPAGE_USED"
    BY <1>3
  <2>2. UsedPages(mm) = {}
    BY <2>1 DEF UsedPages
  <2>3. mm.kmem_used_pages = Cardinality(UsedPages(mm))
    BY <1>3, <2>2, FS_EmptySet
  <2>4. mm.status[0] = "KPAGE_PAGE_ARRAY"
    BY <1>1, <1>3
  <2> QED
    BY <1>4, <2>1, <2>3, <2>4 DEF StatusOK
<1>6. RootsOK(g) /\ EntriesLead(mm, g) /\ PagesReached(mm, g) /\ LabelsUnique(g)
    BY <1>4 DEF RootsOK, EntriesLead, PagesReached, LabelsUnique, IsEntry
<1>7. SlabsOK(mm, g)
  <2>1. \A a \in Allocators : DOMAIN mm.slab[a].pages = {} /\ mm.slab[a].free = {}
    BY <1>3
  <2> QED
    BY <1>4, <2>1 DEF SlabsOK
<1>8. DOMAIN M = {} /\ M = [y \in DOMAIN M |-> M[y]]
    OBVIOUS
<1> HIDE DEF M
<1>9. ContentsAre(mm, g, M)
    BY <1>4, <1>8 DEF ContentsAre
<1> DEFINE Z == {}
<1>10. Z = {p \in Pages : g[p].kind = 4} /\ Z = {p \in Pages : g[p].kind = 5}
    BY <1>4
<1> HIDE DEF Z
<1>11. Good(mm, g, Z, Z, M)
    BY <1>2, <1>3, <1>4, <1>5, <1>6, <1>7, <1>9, <1>10 DEF Good, NoPanic
<1>12. Ok(mm, Z, Z, M)
    BY <1>11 DEF Ok
<1>13. Objects(mm, "task_struct") = {} /\ Objects(mm, "range") = {}
  <2>1. "task_struct" \in Allocators /\ "range" \in Allocators
    BY DEF Allocators
  <2>2. \A a \in Allocators : Range(mm.slab[a].pages) = {}
    BY <1>3 DEF Range
  <2> QED
    BY <2>1, <2>2 DEF Objects
<1>14. Holds(mm, Z, Z, Z, Z, Z)
    BY <1>8, <1>12, <1>13 DEF Holds, Z
<1> QED
    BY <1>14 DEF mm, Z

\* The initial state.
LEMMA InitSound ==
    ASSUME Init
    PROVE  IInv
<1>1. m = kmem_init /\ proc = [t \in Tasks |-> None]
    BY DEF Init
<1> DEFINE Z == {}
<1>2. LivingOf(proc) = Z
    BY <1>1 DEF LivingOf, None
<1>3. IsProcs(proc) /\ Checked(proc, Z)
    BY <1>1 DEF IsProcs, Checked
<1>4. Books(proc, Z, Z, Z, Z, Z, Z)
    BY DEF Books
<1>5. Holds(m, Z, Z, Z, Z, Z)
    BY <1>1, MemoryStarts
<1> HIDE DEF Z
<1>6. Owned(m, proc)
    BY <1>2, <1>4, <1>5 DEF Owned
<1> QED
    BY <1>2, <1>3, <1>6 DEF IInv, Sound

\* The inductive invariant holds in every reachable state: unless the kernel
\* has panicked, the tables, pages and structs of the memory are exactly
\* those that the tasks own, and the lists of ranges are in order.
THEOREM MemoryInvariant == Spec => []IInv
<1>1. Init => IInv
    BY InitSound
<1>2. IInv /\ [Next]_vars => IInv'
  <2> SUFFICES ASSUME IInv, [Next]_vars PROVE IInv'
    OBVIOUS
  <2>1. CASE \E p \in Procs, prog \in Programs : Boot(p, prog)
    BY <2>1, BootSound
  <2>2. CASE \E p, c \in Procs : Fork(p, c)
    BY <2>2, ForkSound
  <2>3. CASE \E p \in Procs : ExecBegin(p)
    BY <2>3, ExecBeginSound
  <2>4. CASE \E p \in Procs : ExecNotFound(p)
    BY <2>4, ExecNotFoundSound
  <2>5. CASE \E p \in Procs : Die(p)
    BY <2>5, DieSound
  <2>6. CASE \E p \in Procs : Reap(p)
    BY <2>6, ReapSound
  <2>7. CASE \E p \in Procs, prog \in Programs : ExecFound(p, prog)
    BY <2>7, ExecFoundSound
  <2>8. CASE \E p \in Procs, size \in Sizes : Malloc(p, size)
    BY <2>8, MallocSound
  <2>9. CASE \E p \in Procs, address \in StoreAddresses : Store(p, address)
    BY <2>9, StoreSound
  <2>10. CASE UNCHANGED vars
    <3>1. m' = m /\ proc' = proc
      BY <2>10 DEF vars
    <3> QED
      BY <3>1 DEF IInv
  <2> QED
    BY <2>1, <2>2, <2>3, <2>4, <2>5, <2>6, <2>7, <2>8, <2>9, <2>10 DEF Next
<1> QED
    BY <1>1, <1>2, PTL DEF Spec

\* malloc hands out mapped memory only: a process that runs can use every
\* word that its libc has given to it.
THEOREM MallocedStaysMapped == Spec => []MallocedIsMapped
<1>1. IInv => MallocedIsMapped
  <2> SUFFICES ASSUME IInv, NEW p \in Procs, proc[p].state = "TS_RUNNING", ~ m.panic,
                      NEW a \in proc[p].heap_bottom .. proc[p].heap_top - 1
               PROVE  Walk(m, proc[p].pml4_page, a) # 0
    BY DEF MallocedIsMapped
  <2> DEFINE o == proc[p]
             r == o.pml4_page
             q == o.ranges
  <2>1. Sound(m, proc)
    BY SoundBefore
  <2>2. /\ TaskOK(o) /\ UserOK(o)
        /\ \E R, O, D, T, S : /\ Books(proc, LivingOf(proc), R, O, D, T, S) /\ Holds(m, R, O, D, T, S)
                              /\ Owns(o, R, O, D, T, S)
    <3>1. o.state # "none" /\ o = proc[p]
      OBVIOUS
    <3> HIDE DEF o
    <3> QED
      BY <2>1, <3>1, TaskBooks
  <2>3. PICK R, O, D, T, S : Holds(m, R, O, D, T, S) /\ Owns(o, R, O, D, T, S)
    BY <2>2
  <2>4. PICK h : /\ HeapAt(q, h) /\ o.program_break = q[h].end
                 /\ o.heap_bottom \in Nat /\ q[h].start <= o.heap_bottom
                 /\ o.heap_top \in Nat /\ o.heap_top <= o.program_break
    BY <2>2 DEF UserOK
  <2>5. h \in DOMAIN q /\ q[h].end \in Nat /\ q[h].start \in Nat /\ q[h].end <= UserEnd
    BY <2>2, <2>4 DEF HeapAt, TaskOK, ListOK, RangeOK
  <2>6. a \in q[h].start .. q[h].end - 1 /\ a \in 0 .. UserEnd - 1
    BY <2>4, <2>5, UserPages
  <2>7. <<r, PageNumber(a)>> \in Spots(r, q[h].start, q[h].end)
    BY <2>6 DEF Spots, PagesOf
  <2>8. <<r, PageNumber(a)>> \in D /\ r \in R
    BY <2>3, <2>5, <2>7 DEF Owns, SpotsOf
  <2> QED
    BY <2>3, <2>6, <2>8, HoldsWalk
<1> QED
    BY <1>1, MemoryInvariant, PTL

\* An injective map, given by its graph, keeps the number of elements.
LEMMA SameNumber ==
    ASSUME NEW A, IsFiniteSet(A), NEW f, f = [x \in A |-> f[x]], \A x, y \in A : f[x] = f[y] => x = y,
           NEW B, \A y : y \in B <=> \E x \in A : y = f[x]
    PROVE  Cardinality(A) = Cardinality(B) /\ IsFiniteSet(B)
<1>1. f \in [A -> B] /\ \A y \in B : \E x \in A : f[x] = y
  <2>1. \A x \in A : f[x] \in B
    OBVIOUS
  <2> QED
    BY <2>1
<1>2. f \in Bijection(A, B)
    BY <1>1 DEF Bijection, Injection, Surjection, IsInjective
<1> QED
    BY <1>2, FS_Bijection DEF ExistsBijection

\* The structs in use are those of the living tasks and their ranges, each
\* of one task and of one range.
THEOREM ObjectsStayAccounted == Spec => []ObjectsAccounted
<1>1. IInv => ObjectsAccounted
  <2> SUFFICES ASSUME IInv, ~ m.panic PROVE ObjectsAccounted
    BY DEF ObjectsAccounted
  <2> DEFINE P == proc
             L == LivingOf(P)
             ranges == UNION {{t} \X DOMAIN P[t].ranges : t \in L}
             structs == {P[y[1]].ranges[y[2]].object : y \in ranges}
  <2>1. Sound(m, P)
    BY SoundBefore
  <2>2. PICK R, O, D, T, S : Books(P, L, R, O, D, T, S) /\ Holds(m, R, O, D, T, S)
    BY <2>1 DEF Sound, Owned
  <2>3. InUseObjects("task_struct") = T /\ InUseObjects("range") = S
    BY <2>2 DEF InUseObjects, Holds, Objects, ObjectSlots
  <2>4. IsFiniteSet(L) /\ L \subseteq Tasks
    <3>1. IsFiniteSet(Procs)
      BY MemoryAssumption
    <3>2. IsFiniteSet(Tasks)
      BY <3>1, FS_AddElement DEF Tasks
    <3>3. L \subseteq Tasks
      BY DEF LivingOf
    <3> QED
      BY <3>2, <3>3, FS_Subset
  <2>5. \A t \in L : ListOK(P[t].ranges) /\ Distinct(P[t].ranges)
    BY <2>1 DEF Sound, Checked, TaskOK
  <2>6. /\ \A y : y \in T <=> \E t \in L : y = P[t].task_struct
        /\ \A s, t \in L : P[s].task_struct = P[t].task_struct => s = t
    BY <2>2 DEF Books, Separate
  <2>7. T = {P[t].task_struct : t \in L}
    BY <2>2 DEF Books
  <2>8. Cardinality(T) = Cardinality(L)
    <3> DEFINE f == [t \in L |-> P[t].task_struct]
    <3>1. \A t \in L : f[t] = P[t].task_struct
      OBVIOUS
    <3>2. f = [t \in L |-> f[t]]
      OBVIOUS
    <3> HIDE DEF f, L, P
    <3>3. (\A x, y \in L : f[x] = f[y] => x = y) /\ \A y : y \in T <=> \E x \in L : y = f[x]
      BY <2>6, <3>1
    <3> QED
      BY <2>4, <3>2, <3>3, SameNumber
  <2>9. \A y : y \in ranges <=> \E t \in L : \E i \in DOMAIN P[t].ranges : y = <<t, i>>
    <3>1. \A y : y \in ranges <=> \E t \in L : y \in {t} \X DOMAIN P[t].ranges
      OBVIOUS
    <3>2. \A t, y : y \in {t} \X DOMAIN P[t].ranges <=> \E i \in DOMAIN P[t].ranges : y = <<t, i>>
      OBVIOUS
    <3> HIDE DEF ranges
    <3> QED
      BY <3>1, <3>2
  <2>10. \A y : y \in S <=> \E t \in L : \E i \in DOMAIN P[t].ranges : y = P[t].ranges[i].object
    <3>1. S = UNION {ObjectsIn(P[t].ranges) : t \in L}
      BY <2>2 DEF Books
    <3>2. \A y : y \in S <=> \E t \in L : y \in ObjectsIn(P[t].ranges)
      BY <3>1
    <3>4. ASSUME NEW y \in S PROVE \E t \in L : \E i \in DOMAIN P[t].ranges : y = P[t].ranges[i].object
      <4>1. PICK t \in L : y \in ObjectsIn(P[t].ranges)
        BY <3>2
      <4>2. PICK i \in DOMAIN P[t].ranges : y = P[t].ranges[i].object
        BY <4>1 DEF ObjectsIn
      <4> QED
        BY <4>2
    <3>5. ASSUME NEW t \in L, NEW i \in DOMAIN P[t].ranges PROVE P[t].ranges[i].object \in S
      <4>1. P[t].ranges[i].object \in ObjectsIn(P[t].ranges)
        BY DEF ObjectsIn
      <4> QED
        BY <3>2, <4>1
    <3> HIDE DEF L, P
    <3> QED
      BY <3>4, <3>5
  <2>11. \A s, t \in L : \A i \in DOMAIN P[s].ranges, j \in DOMAIN P[t].ranges :
            P[s].ranges[i].object = P[t].ranges[j].object => s = t /\ i = j
    <3> SUFFICES ASSUME NEW s \in L, NEW t \in L, NEW i \in DOMAIN P[s].ranges, NEW j \in DOMAIN P[t].ranges,
                        P[s].ranges[i].object = P[t].ranges[j].object
                 PROVE  s = t /\ i = j
      OBVIOUS
    <3>1. P[s].ranges[i].object \in ObjectsIn(P[s].ranges) /\ P[t].ranges[j].object \in ObjectsIn(P[t].ranges)
      BY DEF ObjectsIn
    <3>2. s = t
      BY <2>2, <3>1 DEF Books, Separate
    <3> QED
      BY <2>5, <3>2 DEF Distinct
  <2>12. IsFiniteSet(ranges)
    <3> DEFINE d == [t \in L |-> {t} \X DOMAIN P[t].ranges]
    <3>1. ASSUME NEW t \in L PROVE IsFiniteSet({t} \X DOMAIN P[t].ranges)
      <4>1. PICK A : P[t].ranges \in Seq(A)
        BY <2>5 DEF ListOK, Sequence
      <4>2. DOMAIN P[t].ranges = 1 .. Len(P[t].ranges) /\ Len(P[t].ranges) \in Nat
        BY <4>1
      <4>3. IsFiniteSet(DOMAIN P[t].ranges)
        BY <4>2, FS_Interval
      <4>4. IsFiniteSet({t})
        BY FS_Singleton
      <4> QED
        BY <4>3, <4>4, FS_Product
    <3> DEFINE X == {{t} \X DOMAIN P[t].ranges : t \in L}
    <3>2. IsFiniteSet(X)
      <4>1. \A t \in L : d[t] = {t} \X DOMAIN P[t].ranges
        OBVIOUS
      <4>2. d \in [L -> X] /\ \A y \in X : \E t \in L : d[t] = y
        OBVIOUS
      <4>3. d \in Surjection(L, X)
        <5> HIDE DEF d, X
        <5> QED
          BY <4>2 DEF Surjection
      <4> HIDE DEF d, X
      <4> QED
        BY <2>4, <4>3, FS_Surjection
    <3>3. \A x \in X : IsFiniteSet(x)
      BY <3>1
    <3> HIDE DEF X
    <3>4. IsFiniteSet(UNION X)
      BY <3>2, <3>3, FS_UNION
    <3> QED
      BY <3>4 DEF X
  <2> DEFINE f == [y \in ranges |-> P[y[1]].ranges[y[2]].object]
  <2>13. f = [y \in ranges |-> f[y]] /\ \A y \in ranges : f[y] = P[y[1]].ranges[y[2]].object
    OBVIOUS
  <2>14. structs = {f[y] : y \in ranges}
    <3> HIDE DEF ranges
    <3> QED
      OBVIOUS
  <2> HIDE DEF f, ranges, structs, P, L
  <2>15. \A t \in L : \A i \in DOMAIN P[t].ranges : <<t, i>> \in ranges /\ f[<<t, i>>] = P[t].ranges[i].object
    <3> SUFFICES ASSUME NEW t \in L, NEW i \in DOMAIN P[t].ranges
                 PROVE  <<t, i>> \in ranges /\ f[<<t, i>>] = P[t].ranges[i].object
      OBVIOUS
    <3>1. <<t, i>> \in ranges
      BY <2>9
    <3> QED
      BY <2>13, <3>1
  <2>16. \A x, y \in ranges : f[x] = f[y] => x = y
    BY <2>9, <2>11, <2>15
  <2>17. \A y : y \in S <=> \E x \in ranges : y = f[x]
    <3>1. \A y \in S : \E x \in ranges : y = f[x]
      <4> SUFFICES ASSUME NEW y \in S PROVE \E x \in ranges : y = f[x]
        OBVIOUS
      <4>1. PICK t \in L : \E i \in DOMAIN P[t].ranges : y = P[t].ranges[i].object
        BY <2>10
      <4>2. PICK i \in DOMAIN P[t].ranges : y = P[t].ranges[i].object
        BY <4>1
      <4>3. <<t, i>> \in ranges /\ f[<<t, i>>] = y
        BY <2>15, <4>2
      <4> QED
        BY <4>3
    <3>2. \A x \in ranges : \E t \in L : \E i \in DOMAIN P[t].ranges : x = <<t, i>> /\ f[x] = P[t].ranges[i].object
      BY <2>9, <2>15
    <3>3. \A x \in ranges : f[x] \in S
      BY <2>10, <3>2
    <3> QED
      BY <3>1, <3>3
  <2>18. structs = S
    BY <2>14, <2>17
  <2>19. Cardinality(ranges) = Cardinality(S)
    BY <2>12, <2>13, <2>16, <2>17, SameNumber
  <2>20. L = {t \in Tasks : Alive(t)}
    BY DEF L, P, LivingOf, Alive
  <2> QED
    BY <2>3, <2>7, <2>8, <2>18, <2>19, <2>20 DEF ObjectsAccounted, ranges, structs, P
<1> QED
    BY <1>1, MemoryInvariant, PTL

-----------------------------------------------------------------------------
(* The uses of pages, one kind after the other.                            *)

StackUses(t)  == {<<t, "stack", i, proc[t].kernel_stack_pages + i>> : i \in 0 .. KERNEL_STACK_PAGES - 1}
Pml4Uses(t)   == {<<t, "pml4", 0, proc[t].pml4_page>>}
BufferUses(t) == {<<t, "buffer", i, proc[t].buffers[i]>> : i \in DOMAIN proc[t].buffers}
EntryUses(t)  == {<<t, "entry", e, m.word[e[1]][e[2]]>> : e \in UserEntries(m, proc[t].pml4_page)}
SlabUses(a)   == {<<a, "slab", k, m.slab[a].pages[k]>> : k \in DOMAIN m.slab[a].pages}

IsUse(u) == u = <<u[1], u[2], u[3], u[4]>>

\* PageUses are the uses of the living tasks and of the slabs.
LEMMA UsesAre ==
    ASSUME DOMAIN m.slab = Allocators, NEW u
    PROVE  u \in PageUses <=> \/ \E t \in LivingOf(proc) : u \in StackUses(t)
                              \/ \E t \in LivingOf(proc) : u \in Pml4Uses(t)
                              \/ \E t \in LivingOf(proc) : u \in BufferUses(t)
                              \/ \E t \in LivingOf(proc) : u \in EntryUses(t)
                              \/ \E a \in Allocators : u \in SlabUses(a)
<1> DEFINE X == {t \in Tasks : Alive(t)}
           Y == DOMAIN m.slab
<1>1. X = LivingOf(proc) /\ Y = Allocators
    BY DEF LivingOf, Alive
<1>2. PageUses = (UNION {StackUses(t) \cup Pml4Uses(t) \cup BufferUses(t) \cup EntryUses(t) : t \in X})
                 \cup (UNION {SlabUses(a) : a \in Y})
    BY DEF PageUses, StackUses, Pml4Uses, BufferUses, EntryUses, SlabUses
<1> HIDE DEF X, Y
<1>3. u \in PageUses <=>
         \/ \E t \in X : u \in StackUses(t) \cup Pml4Uses(t) \cup BufferUses(t) \cup EntryUses(t)
         \/ \E a \in Y : u \in SlabUses(a)
    BY <1>2
<1> QED
    BY <1>1, <1>3

\* Uses with the same parts are the same.
LEMMA SameUse ==
    ASSUME NEW u, IsUse(u), NEW v, IsUse(v), u[1] = v[1], u[2] = v[2], u[3] = v[3], u[4] = v[4]
    PROVE  u = v
    BY DEF IsUse

\* The parts of a use of each kind.
LEMMA UseParts ==
    /\ \A t : \A u \in StackUses(t) : /\ IsUse(u) /\ u[1] = t /\ u[2] = "stack" /\ u[3] \in 0 .. KERNEL_STACK_PAGES - 1
                                      /\ u[4] = proc[t].kernel_stack_pages + u[3]
    /\ \A t : \A u \in Pml4Uses(t) : IsUse(u) /\ u[1] = t /\ u[2] = "pml4" /\ u[3] = 0 /\ u[4] = proc[t].pml4_page
    /\ \A t : \A u \in BufferUses(t) : /\ IsUse(u) /\ u[1] = t /\ u[2] = "buffer"
                                       /\ u[3] \in DOMAIN proc[t].buffers /\ u[4] = proc[t].buffers[u[3]]
    /\ \A t : \A u \in EntryUses(t) : /\ IsUse(u) /\ u[1] = t /\ u[2] = "entry"
                                      /\ u[3] \in UserEntries(m, proc[t].pml4_page)
                                      /\ u[4] = m.word[u[3][1]][u[3][2]]
    /\ \A a : \A u \in SlabUses(a) : /\ IsUse(u) /\ u[1] = a /\ u[2] = "slab"
                                     /\ u[3] \in DOMAIN m.slab[a].pages /\ u[4] = m.slab[a].pages[u[3]]
<1>1. ASSUME NEW t, NEW u \in StackUses(t)
      PROVE  /\ IsUse(u) /\ u[1] = t /\ u[2] = "stack" /\ u[3] \in 0 .. KERNEL_STACK_PAGES - 1
             /\ u[4] = proc[t].kernel_stack_pages + u[3]
    BY DEF StackUses, IsUse
<1>2. ASSUME NEW t, NEW u \in Pml4Uses(t)
      PROVE  IsUse(u) /\ u[1] = t /\ u[2] = "pml4" /\ u[3] = 0 /\ u[4] = proc[t].pml4_page
    BY DEF Pml4Uses, IsUse
<1>3. ASSUME NEW t, NEW u \in BufferUses(t)
      PROVE  /\ IsUse(u) /\ u[1] = t /\ u[2] = "buffer"
             /\ u[3] \in DOMAIN proc[t].buffers /\ u[4] = proc[t].buffers[u[3]]
    BY DEF BufferUses, IsUse
<1>4. ASSUME NEW t, NEW u \in EntryUses(t)
      PROVE  /\ IsUse(u) /\ u[1] = t /\ u[2] = "entry"
             /\ u[3] \in UserEntries(m, proc[t].pml4_page) /\ u[4] = m.word[u[3][1]][u[3][2]]
    BY DEF EntryUses, IsUse
<1>5. ASSUME NEW a, NEW u \in SlabUses(a)
      PROVE  /\ IsUse(u) /\ u[1] = a /\ u[2] = "slab"
             /\ u[3] \in DOMAIN m.slab[a].pages /\ u[4] = m.slab[a].pages[u[3]]
    BY DEF SlabUses, IsUse
<1> QED
    BY <1>1, <1>2, <1>3, <1>4, <1>5

\* What the labels say of the pages of uses: the kind, and who has it.
LEMMA UseLabels ==
    ASSUME NEW g, NEW R, NEW O, NEW M, Good(m, g, R, O, M), NEW D, NEW T, NEW S,
           Books(proc, LivingOf(proc), R, O, D, T, S), Checked(proc, LivingOf(proc))
    PROVE  /\ \A t \in LivingOf(proc) : \A u \in StackUses(t) : u[4] \in StackOf(proc[t]) /\ u[4] \in Pages /\ g[u[4]].kind = 5
           /\ \A t \in LivingOf(proc) : \A u \in Pml4Uses(t) : u[4] \in Pages /\ g[u[4]].kind = 4
           /\ \A t \in LivingOf(proc) : \A u \in BufferUses(t) : u[4] \in BuffersOf(proc[t]) /\ u[4] \in Pages /\ g[u[4]].kind = 5
           /\ \A t \in LivingOf(proc) : \A u \in EntryUses(t) :
                 u[4] \in Pages /\ g[u[4]].kind \in 0 .. 3 /\ g[u[4]].root = proc[t].pml4_page
           /\ \A a \in Allocators : \A u \in SlabUses(a) : u[4] \in Pages /\ g[u[4]].kind = 6
<1>1. ASSUME NEW t \in LivingOf(proc)
      PROVE  proc[t].pml4_page \in R /\ OthersOf(proc[t]) \subseteq O /\ proc[t].kernel_stack_pages \in Nat
  <2> DEFINE o == proc[t]
  <2>1. Owns(o, R, O, D, T, S)
    BY OwnsIt
  <2> QED
    BY <2>1 DEF Owns, Checked, TaskOK
<1>2. R = {p \in Pages : g[p].kind = 4} /\ O = {p \in Pages : g[p].kind = 5}
    BY DEF Good
<1>3. ASSUME NEW t \in LivingOf(proc), NEW u \in StackUses(t)
      PROVE  u[4] \in StackOf(proc[t]) /\ u[4] \in Pages /\ g[u[4]].kind = 5
  <2>1. u[3] \in 0 .. KERNEL_STACK_PAGES - 1 /\ u[4] = proc[t].kernel_stack_pages + u[3]
    BY UseParts
  <2>2. u[4] \in StackOf(proc[t])
    BY <1>1, <2>1, MemoryConstants DEF StackOf, Run
  <2> QED
    BY <1>1, <1>2, <2>2 DEF OthersOf
<1>4. ASSUME NEW t \in LivingOf(proc), NEW u \in Pml4Uses(t) PROVE u[4] \in Pages /\ g[u[4]].kind = 4
  <2>1. u[4] = proc[t].pml4_page
    BY UseParts
  <2> QED
    BY <1>1, <1>2, <2>1
<1>5. ASSUME NEW t \in LivingOf(proc), NEW u \in BufferUses(t)
      PROVE  u[4] \in BuffersOf(proc[t]) /\ u[4] \in Pages /\ g[u[4]].kind = 5
  <2>1. u[3] \in DOMAIN proc[t].buffers /\ u[4] = proc[t].buffers[u[3]]
    BY UseParts
  <2>2. u[4] \in BuffersOf(proc[t])
    BY <2>1 DEF BuffersOf
  <2> QED
    BY <1>1, <1>2, <2>2 DEF OthersOf
<1>6. ASSUME NEW t \in LivingOf(proc), NEW u \in EntryUses(t)
      PROVE  u[4] \in Pages /\ g[u[4]].kind \in 0 .. 3 /\ g[u[4]].root = proc[t].pml4_page
  <2> DEFINE r == proc[t].pml4_page
             E == UserEntries(m, r)
  <2>1. u[3] \in E /\ u[4] = m.word[u[3][1]][u[3][2]]
    BY UseParts
  <2>2. u[4] \in Targets(m, E)
    BY <2>1 DEF Targets
  <2>3. \A q : q \in Targets(m, E) <=> q \in Pages /\ g[q].kind \in 0 .. 3 /\ g[q].root = r
    <3>1. r \in R
      BY <1>1
    <3> HIDE DEF r
    <3> QED
      BY <3>1, EntriesAre
  <2> HIDE DEF r, E
  <2>4. u[4] \in Pages /\ g[u[4]].kind \in 0 .. 3 /\ g[u[4]].root = r
    BY <2>2, <2>3
  <2> QED
    BY <2>4 DEF r
<1>7. ASSUME NEW a \in Allocators, NEW u \in SlabUses(a) PROVE u[4] \in Pages /\ g[u[4]].kind = 6
  <2>1. u[3] \in DOMAIN m.slab[a].pages /\ u[4] = m.slab[a].pages[u[3]]
    BY UseParts
  <2>2. m.slab[a].pages \in Seq(Pages) /\ SlabsOK(m, g)
    BY DEF Good, Mems, Slabs
  <2>3. u[4] \in Pages
    BY <2>1, <2>2
  <2> QED
    BY <2>1, <2>2, <2>3 DEF SlabsOK
<1> QED
    BY <1>3, <1>4, <1>5, <1>6, <1>7

\* The buffers of exec are not in the stack.
LEMMA BuffersElsewhere ==
    ASSUME NEW o, BuffersOK(o), NEW y \in BuffersOf(o)
    PROVE  y \notin StackOf(o)
<1>1. PICK i \in DOMAIN o.buffers : y = o.buffers[i]
    BY DEF BuffersOf
<1>2. CASE o.buffers = <<>>
    BY <1>1, <1>2
<1>3. CASE \E a, b \in Nat : o.buffers = <<a, b>> /\ a # b /\ a \notin StackOf(o) /\ b \notin StackOf(o)
  <2>1. PICK a, b \in Nat : o.buffers = <<a, b>> /\ a # b /\ a \notin StackOf(o) /\ b \notin StackOf(o)
    BY <1>3
  <2>2. y = a \/ y = b
    BY <1>1, <2>1
  <2> QED
    BY <2>1, <2>2
<1> QED
    BY <1>2, <1>3 DEF BuffersOK

\* No page has two uses.
LEMMA OneUse ==
    ASSUME NEW g, NEW R, NEW O, NEW M, Good(m, g, R, O, M), NEW D, NEW T, NEW S,
           Books(proc, LivingOf(proc), R, O, D, T, S), Checked(proc, LivingOf(proc)),
           NEW u \in PageUses, NEW v \in PageUses, u[4] = v[4]
    PROVE  u = v
<1> DEFINE L == LivingOf(proc)
<1>1. /\ \A t \in L : \A x \in StackUses(t) : x[4] \in StackOf(proc[t]) /\ x[4] \in Pages /\ g[x[4]].kind = 5
      /\ \A t \in L : \A x \in Pml4Uses(t) : x[4] \in Pages /\ g[x[4]].kind = 4
      /\ \A t \in L : \A x \in BufferUses(t) : x[4] \in BuffersOf(proc[t]) /\ x[4] \in Pages /\ g[x[4]].kind = 5
      /\ \A t \in L : \A x \in EntryUses(t) :
            x[4] \in Pages /\ g[x[4]].kind \in 0 .. 3 /\ g[x[4]].root = proc[t].pml4_page
      /\ \A a \in Allocators : \A x \in SlabUses(a) : x[4] \in Pages /\ g[x[4]].kind = 6
    BY UseLabels
<1>2. \A s, t \in L : s # t => Separate(proc[s], proc[t])
    BY DEF Books
<1>3. ASSUME NEW x, x \in PageUses
      PROVE  \/ \E t \in L : x \in StackUses(t)
             \/ \E t \in L : x \in Pml4Uses(t)
             \/ \E t \in L : x \in BufferUses(t)
             \/ \E t \in L : x \in EntryUses(t)
             \/ \E a \in Allocators : x \in SlabUses(a)
  <2>1. DOMAIN m.slab = Allocators
    BY DEF Good, Mems
  <2> QED
    BY <1>3, <2>1, UsesAre
<1> HIDE DEF L
\* Two pages of the tasks' own.
<1>4. ASSUME NEW s \in L, NEW t \in L, u[4] \in OthersOf(proc[s]), v[4] \in OthersOf(proc[t]) PROVE s = t
    BY <1>2, <1>4 DEF Separate
<1>5. \A t \in L : BuffersOK(proc[t]) /\ proc[t].kernel_stack_pages \in Nat
    BY DEF Checked, TaskOK, L
<1>6. CASE \E t \in L : u \in StackUses(t)
  <2>1. PICK s \in L : u \in StackUses(s)
    BY <1>6
  <2>2. u[4] \in StackOf(proc[s]) /\ u[4] \in OthersOf(proc[s]) /\ g[u[4]].kind = 5
    BY <1>1, <2>1 DEF OthersOf
  <2>3. PICK t \in L : v \in StackUses(t) \/ v \in BufferUses(t)
    BY <1>1, <1>3, <2>2
  <2>4. v[4] \in OthersOf(proc[t])
    BY <1>1, <2>3 DEF OthersOf
  <2>5. s = t
    BY <1>4, <2>2, <2>4
  <2>6. CASE v \in StackUses(t)
    <3>1. /\ IsUse(u) /\ u[1] = s /\ u[2] = "stack" /\ u[3] \in 0 .. KERNEL_STACK_PAGES - 1
          /\ u[4] = proc[s].kernel_stack_pages + u[3]
          /\ IsUse(v) /\ v[1] = t /\ v[2] = "stack" /\ v[3] \in 0 .. KERNEL_STACK_PAGES - 1
          /\ v[4] = proc[t].kernel_stack_pages + v[3]
      BY <2>1, <2>6, UseParts
    <3>2. u[3] = v[3]
      <4> DEFINE k == proc[s].kernel_stack_pages
                 i == u[3]
                 j == v[3]
      <4>1. v[4] = k + j /\ u[4] = k + i
        BY <2>5, <3>1
      <4>2. k \in Nat
        BY <1>5
      <4>3. i \in 0 .. KERNEL_STACK_PAGES - 1 /\ j \in 0 .. KERNEL_STACK_PAGES - 1
        BY <3>1
      <4> HIDE DEF k, i, j
      <4>4. k + i = k + j
        BY <4>1
      <4>5. i = j
        BY <4>2, <4>3, <4>4, MemoryConstants
      <4> QED
        BY <4>5 DEF i, j
    <3> QED
      BY <2>5, <3>1, <3>2, SameUse
  <2>7. CASE v \in BufferUses(t)
    <3>1. v[4] \in BuffersOf(proc[s]) /\ v[4] \in StackOf(proc[s])
      BY <1>1, <2>2, <2>5, <2>7
    <3> DEFINE o == proc[s]
               y == v[4]
    <3>2. BuffersOK(o) /\ y \in BuffersOf(o) /\ y \in StackOf(o)
      BY <1>5, <3>1
    <3> HIDE DEF o, y
    <3> QED
      BY <3>2, BuffersElsewhere
  <2> QED
    BY <2>3, <2>6, <2>7
<1>7. CASE \E t \in L : u \in BufferUses(t)
  <2>1. PICK s \in L : u \in BufferUses(s)
    BY <1>7
  <2>2. u[4] \in BuffersOf(proc[s]) /\ u[4] \in OthersOf(proc[s]) /\ g[u[4]].kind = 5
    BY <1>1, <2>1 DEF OthersOf
  <2>3. PICK t \in L : v \in StackUses(t) \/ v \in BufferUses(t)
    BY <1>1, <1>3, <2>2
  <2>4. v[4] \in OthersOf(proc[t])
    BY <1>1, <2>3 DEF OthersOf
  <2>5. s = t
    BY <1>4, <2>2, <2>4
  <2> DEFINE o == proc[s]
  <2>6. \/ o.buffers = <<>>
        \/ \E a, b \in Nat : o.buffers = <<a, b>> /\ a # b /\ a \notin StackOf(o) /\ b \notin StackOf(o)
    <3>1. BuffersOK(o)
      BY <1>5
    <3> HIDE DEF o
    <3> QED
      BY <3>1 DEF BuffersOK
  <2>7. CASE v \in StackUses(t)
    <3>1. v[4] \in StackOf(o)
      BY <1>1, <2>5, <2>7
    <3>2. u[4] \in BuffersOf(o) /\ u[4] \in StackOf(o)
      BY <2>2, <3>1
    <3> HIDE DEF o
    <3> QED
      BY <2>6, <3>2 DEF BuffersOf
  <2>8. CASE v \in BufferUses(t)
    <3>1. /\ IsUse(u) /\ u[1] = s /\ u[2] = "buffer" /\ u[3] \in DOMAIN o.buffers /\ u[4] = o.buffers[u[3]]
          /\ IsUse(v) /\ v[1] = t /\ v[2] = "buffer" /\ v[3] \in DOMAIN o.buffers /\ v[4] = o.buffers[v[3]]
      BY <2>1, <2>5, <2>8, UseParts
    <3>2. \A i, j \in DOMAIN o.buffers : o.buffers[i] = o.buffers[j] => i = j
      <4> HIDE DEF o
      <4> QED
        BY <2>6
    <3> QED
      BY <2>5, <3>1, <3>2, SameUse
  <2> QED
    BY <2>3, <2>7, <2>8
<1>8. CASE \E t \in L : u \in Pml4Uses(t)
  <2>1. PICK s \in L : u \in Pml4Uses(s)
    BY <1>8
  <2>2. PICK t \in L : v \in Pml4Uses(t)
    BY <1>1, <1>3, <2>1
  <2>3. /\ IsUse(u) /\ u[1] = s /\ u[2] = "pml4" /\ u[3] = 0 /\ u[4] = proc[s].pml4_page
        /\ IsUse(v) /\ v[1] = t /\ v[2] = "pml4" /\ v[3] = 0 /\ v[4] = proc[t].pml4_page
    BY <2>1, <2>2, UseParts
  <2>4. s = t
    BY <1>2, <2>3 DEF Separate
  <2> QED
    BY <2>3, <2>4, SameUse
<1>9. CASE \E t \in L : u \in EntryUses(t)
  <2>1. PICK s \in L : u \in EntryUses(s)
    BY <1>9
  <2>2. PICK t \in L : v \in EntryUses(t)
    BY <1>1, <1>3, <2>1
  <2>3. s = t
    BY <1>1, <1>2, <2>1, <2>2 DEF Separate
  <2> DEFINE r == proc[s].pml4_page
             E == UserEntries(m, r)
  <2>4. /\ IsUse(u) /\ u[1] = s /\ u[2] = "entry" /\ u[3] \in E /\ u[4] = m.word[u[3][1]][u[3][2]]
        /\ IsUse(v) /\ v[1] = t /\ v[2] = "entry" /\ v[3] \in E /\ v[4] = m.word[v[3][1]][v[3][2]]
    BY <2>1, <2>2, <2>3, UseParts
  <2>5. \A c, e \in E : m.word[c[1]][c[2]] = m.word[e[1]][e[2]] => c = e
    <3>1. r \in R
      BY DEF Books, L
    <3> HIDE DEF r
    <3> QED
      BY <3>1, EntriesAre
  <2>6. u[3] = v[3]
    BY <2>4, <2>5
  <2> QED
    BY <2>3, <2>4, <2>6, SameUse
<1>10. CASE \E a \in Allocators : u \in SlabUses(a)
  <2>1. PICK a \in Allocators : u \in SlabUses(a)
    BY <1>10
  <2>2. PICK b \in Allocators : v \in SlabUses(b)
    BY <1>1, <1>3, <2>1
  <2>3. /\ IsUse(u) /\ u[1] = a /\ u[2] = "slab" /\ u[3] \in DOMAIN m.slab[a].pages /\ u[4] = m.slab[a].pages[u[3]]
        /\ IsUse(v) /\ v[1] = b /\ v[2] = "slab" /\ v[3] \in DOMAIN m.slab[b].pages /\ v[4] = m.slab[b].pages[v[3]]
    BY <2>1, <2>2, UseParts
  <2>4. SlabsOK(m, g)
    BY DEF Good
  <2>5. a = b /\ u[3] = v[3]
    <3> DEFINE i == u[3]
               j == v[3]
    <3>1. i \in DOMAIN m.slab[a].pages /\ j \in DOMAIN m.slab[b].pages /\ m.slab[a].pages[i] = m.slab[b].pages[j]
      BY <2>3
    <3> HIDE DEF i, j
    <3>2. \A c, d \in Allocators : \A x \in DOMAIN m.slab[c].pages : \A y \in DOMAIN m.slab[d].pages :
             m.slab[c].pages[x] = m.slab[d].pages[y] => c = d /\ x = y
      BY <2>4 DEF SlabsOK
    <3>3. a = b /\ i = j
      BY <3>1, <3>2
    <3> QED
      BY <3>3 DEF i, j
  <2> QED
    BY <2>3, <2>5, SameUse
<1> QED
    BY <1>3, <1>6, <1>7, <1>8, <1>9, <1>10

\* The pages with a use are those with a label.
LEMMA UsedByLabel ==
    ASSUME NEW g, NEW R, NEW O, NEW M, Good(m, g, R, O, M), NEW D, NEW T, NEW S,
           Books(proc, LivingOf(proc), R, O, D, T, S), Checked(proc, LivingOf(proc))
    PROVE  /\ \A u \in PageUses : u[4] \in Pages /\ g[u[4]].kind # 7
           /\ \A q \in Pages : g[q].kind # 7 => \E u \in PageUses : q = u[4]
<1> DEFINE L == LivingOf(proc)
<1>1. /\ \A t \in L : \A x \in StackUses(t) : x[4] \in StackOf(proc[t]) /\ x[4] \in Pages /\ g[x[4]].kind = 5
      /\ \A t \in L : \A x \in Pml4Uses(t) : x[4] \in Pages /\ g[x[4]].kind = 4
      /\ \A t \in L : \A x \in BufferUses(t) : x[4] \in BuffersOf(proc[t]) /\ x[4] \in Pages /\ g[x[4]].kind = 5
      /\ \A t \in L : \A x \in EntryUses(t) :
            x[4] \in Pages /\ g[x[4]].kind \in 0 .. 3 /\ g[x[4]].root = proc[t].pml4_page
      /\ \A a \in Allocators : \A x \in SlabUses(a) : x[4] \in Pages /\ g[x[4]].kind = 6
    BY UseLabels
<1>2. \A x : x \in PageUses <=> \/ \E t \in L : x \in StackUses(t)
                                \/ \E t \in L : x \in Pml4Uses(t)
                                \/ \E t \in L : x \in BufferUses(t)
                                \/ \E t \in L : x \in EntryUses(t)
                                \/ \E a \in Allocators : x \in SlabUses(a)
  <2>1. DOMAIN m.slab = Allocators
    BY DEF Good, Mems
  <2> QED
    BY <2>1, UsesAre
<1>3. R = {proc[t].pml4_page : t \in L} /\ O = UNION {OthersOf(proc[t]) : t \in L}
    BY DEF Books
<1>4. /\ R = {p \in Pages : g[p].kind = 4} /\ O = {p \in Pages : g[p].kind = 5}
      /\ \A q \in Pages : g[q].kind \in 0 .. 7 /\ g[q].root \in Pages
      /\ RootsOK(g) /\ SlabsOK(m, g)
    BY DEF Good, Labels
<1> HIDE DEF L
<1>5. \A u \in PageUses : u[4] \in Pages /\ g[u[4]].kind # 7
    BY <1>1, <1>2
<1>6. ASSUME NEW q \in Pages, g[q].kind # 7 PROVE \E u \in PageUses : q = u[4]
  <2>1. CASE g[q].kind \in 0 .. 3
    <3>1. g[q].root \in R
      BY <1>4, <2>1 DEF RootsOK
    <3>2. PICK t \in L : g[q].root = proc[t].pml4_page
      BY <1>3, <3>1
    <3> DEFINE r == proc[t].pml4_page
               E == UserEntries(m, r)
    <3>3. \A x : x \in Targets(m, E) <=> x \in Pages /\ g[x].kind \in 0 .. 3 /\ g[x].root = r
      <4>1. r \in R
        BY <3>1, <3>2
      <4> HIDE DEF r
      <4> QED
        BY <4>1, EntriesAre
    <3>4. q \in Targets(m, E)
      BY <2>1, <3>2, <3>3
    <3>5. PICK e \in E : q = m.word[e[1]][e[2]]
      BY <3>4 DEF Targets
    <3> DEFINE u == <<t, "entry", e, q>>
    <3>6. u \in EntryUses(t)
      BY <3>5 DEF EntryUses
    <3>7. u[4] = q
      OBVIOUS
    <3> HIDE DEF u
    <3> QED
      BY <1>2, <3>6, <3>7
  <2>2. CASE g[q].kind = 4
    <3>1. PICK t \in L : q = proc[t].pml4_page
      BY <1>3, <1>4, <2>2
    <3> DEFINE u == <<t, "pml4", 0, q>>
    <3>2. u \in Pml4Uses(t) /\ u[4] = q
      BY <3>1 DEF Pml4Uses
    <3> HIDE DEF u
    <3> QED
      BY <1>2, <3>2
  <2>3. CASE g[q].kind = 5
    <3>1. q \in O
      BY <1>4, <2>3
    <3>2. PICK t \in L : q \in OthersOf(proc[t])
      BY <1>3, <3>1
    <3>3. CASE q \in StackOf(proc[t])
      <4> DEFINE k == proc[t].kernel_stack_pages
                 i == q - k
                 u == <<t, "stack", i, q>>
      <4>1. k \in Nat
        BY DEF Checked, TaskOK, L
      <4>2. q \in k .. k + KERNEL_STACK_PAGES - 1
        BY <3>3 DEF StackOf, Run
      <4>3. i \in 0 .. KERNEL_STACK_PAGES - 1 /\ k + i = q
        <5> HIDE DEF k
        <5> QED
          BY <4>1, <4>2, MemoryConstants
      <4>4. u \in StackUses(t)
        <5> HIDE DEF i
        <5> QED
          BY <4>3 DEF StackUses
      <4>5. u[4] = q
        OBVIOUS
      <4> HIDE DEF u
      <4> QED
        BY <1>2, <4>4, <4>5
    <3>4. CASE q \in BuffersOf(proc[t])
      <4>1. PICK i \in DOMAIN proc[t].buffers : q = proc[t].buffers[i]
        BY <3>4 DEF BuffersOf
      <4> DEFINE u == <<t, "buffer", i, q>>
      <4>2. u \in BufferUses(t) /\ u[4] = q
        BY <4>1 DEF BufferUses
      <4> HIDE DEF u
      <4> QED
        BY <1>2, <4>2
    <3> QED
      BY <3>2, <3>3, <3>4 DEF OthersOf
  <2>4. CASE g[q].kind = 6
    <3>1. PICK a \in Allocators : \E k \in DOMAIN m.slab[a].pages : m.slab[a].pages[k] = q
      BY <1>4, <2>4 DEF SlabsOK
    <3>2. PICK k \in DOMAIN m.slab[a].pages : m.slab[a].pages[k] = q
      BY <3>1
    <3> DEFINE u == <<a, "slab", k, q>>
    <3>3. u \in SlabUses(a) /\ u[4] = q
      BY <3>2 DEF SlabUses
    <3> HIDE DEF u
    <3> QED
      BY <1>2, <3>3
  <2>5. g[q].kind \in 0 .. 3 \/ g[q].kind = 4 \/ g[q].kind = 5 \/ g[q].kind = 6
    BY <1>4, <1>6
  <2> QED
    BY <2>1, <2>2, <2>3, <2>4, <2>5
<1> QED
    BY <1>5, <1>6

\* As long as no process is killed inside exec: every page that the
\* allocator counts as used has exactly one use, and no other page has one.
THEOREM PagesStayAccounted ==
    ASSUME ~ KillDuringExec
    PROVE  Spec => []PagesAccounted
<1>1. IInv => PagesAccounted
  <2> SUFFICES ASSUME IInv, ~ m.panic PROVE PagesAccounted
    BY DEF PagesAccounted
  <2> DEFINE used == UsedPages(m)
             f == [u \in PageUses |-> u[4]]
  <2>1. Sound(m, proc)
    BY SoundBefore
  <2>2. PICK R, O, D, T, S : Books(proc, LivingOf(proc), R, O, D, T, S) /\ Holds(m, R, O, D, T, S)
    BY <2>1 DEF Sound, Owned
  <2>3. PICK M : Ok(m, R, O, M)
    BY <2>2 DEF Holds
  <2>4. PICK g : Good(m, g, R, O, M)
    BY <2>3 DEF Ok
  <2>5. Checked(proc, LivingOf(proc))
    BY <2>1 DEF Sound
  <2>6. StatusOK(m, g)
    BY <2>4 DEF Good
  <2>7. \A q \in Pages : q \in used <=> g[q].kind # 7
    BY <2>6 DEF StatusOK, UsedPages
  <2>8. /\ \A u \in PageUses : u[4] \in Pages /\ g[u[4]].kind # 7
        /\ \A q \in Pages : g[q].kind # 7 => \E u \in PageUses : q = u[4]
    BY <2>2, <2>4, <2>5, UsedByLabel
  <2>9. \A u, v \in PageUses : u[4] = v[4] => u = v
    BY <2>2, <2>4, <2>5, OneUse
  <2>10. used \subseteq Pages /\ IsFiniteSet(used)
    <3>1. used \subseteq Pages
      BY DEF UsedPages
    <3> HIDE DEF used
    <3> QED
      BY <3>1, PagesFinite, FS_Subset
  <2>11. \A y : y \in used <=> \E u \in PageUses : y = u[4]
    BY <2>7, <2>8, <2>10
  <2>12. f \in Injection(PageUses, used) /\ f \in Surjection(PageUses, used)
    <3>1. \A u \in PageUses : f[u] = u[4]
      OBVIOUS
    <3>2. f \in [PageUses -> used]
      BY <2>11
    <3> HIDE DEF f, used
    <3>3. \A u, v \in PageUses : f[u] = f[v] => u = v
      BY <2>9, <3>1
    <3>4. \A y \in used : \E u \in PageUses : f[u] = y
      BY <2>11, <3>1
    <3> QED
      BY <3>2, <3>3, <3>4 DEF Injection, Surjection, IsInjective
  <2>13. Cardinality(PageUses) = Cardinality(used)
    <3> HIDE DEF f, used
    <3> QED
      BY <2>10, <2>12, FS_Injection
  <2>14. {u[4] : u \in PageUses} = used
    <3> HIDE DEF used
    <3> QED
      BY <2>11
  <2>15. m.kmem_used_pages = Cardinality(used)
    BY <2>6 DEF StatusOK
  <2> QED
    BY <2>13, <2>14, <2>15 DEF PagesAccounted, UsedPages
<1> QED
    BY <1>1, MemoryInvariant, PTL

\* Whatever is killed: no page is used twice, and none is used that the
\* allocator holds as free.
THEOREM PagesNeverShared ==
    Spec => [](~ m.panic => \A u, v \in PageUses : m.status[u[4]] = "KPAGE_USED" /\ (u[4] = v[4] => u = v))
<1>1. IInv => (~ m.panic => \A u, v \in PageUses : m.status[u[4]] = "KPAGE_USED" /\ (u[4] = v[4] => u = v))
  <2> SUFFICES ASSUME IInv, ~ m.panic, NEW u \in PageUses, NEW v \in PageUses
               PROVE  m.status[u[4]] = "KPAGE_USED" /\ (u[4] = v[4] => u = v)
    OBVIOUS
  <2>1. Sound(m, proc)
    BY SoundBefore
  <2>2. PICK R, O, D, T, S : Books(proc, LivingOf(proc), R, O, D, T, S) /\ Holds(m, R, O, D, T, S)
    BY <2>1 DEF Sound, Owned
  <2>3. PICK M : Ok(m, R, O, M)
    BY <2>2 DEF Holds
  <2>4. PICK g : Good(m, g, R, O, M)
    BY <2>3 DEF Ok
  <2>5. Checked(proc, LivingOf(proc))
    BY <2>1 DEF Sound
  <2>6. \A q \in Pages : g[q].kind # 7 => m.status[q] = "KPAGE_USED"
    BY <2>4 DEF Good, StatusOK
  <2>7. u[4] \in Pages /\ g[u[4]].kind # 7
    BY <2>2, <2>4, <2>5, UsedByLabel
  <2>8. u[4] = v[4] => u = v
    BY <2>2, <2>4, <2>5, OneUse
  <2> QED
    BY <2>6, <2>7, <2>8
<1> QED
    BY <1>1, MemoryInvariant, PTL
=============================================================================
