------------------------------ MODULE VfsProof ------------------------------
(***************************************************************************)
(* The tree of inodes stays sound, and the files that were loaded from an  *)
(* exFAT volume hold what is on it.                                        *)
(*                                                                         *)
(* A phase is what the entry just read of a directory leaves open: after a *)
(* file entry ("file" or "dir") the inode that was added waits for its     *)
(* info entry, then its dentry for a name.  The proof follows the phase of *)
(* each task that is loading a directory: until its info entry is there,   *)
(* an inode has no name, so that no path leads to it and no other task     *)
(* begins to load it; and no other task fills the same dentry.             *)
(*                                                                         *)
(* The loops of the code are recursive functions in the model; that they   *)
(* exist, and what they keep, follows from the least turn that would not.  *)
(***************************************************************************)
EXTENDS Vfs, TLAPS, WellFoundedInduction, SequenceTheorems

-----------------------------------------------------------------------------
(* Natural numbers.                                                        *)

\* A set of natural numbers that is not empty has a least element: what the
\* searches for the first free id and the first matching entry rely on.
LEMMA LeastNatural ==
    ASSUME NEW T \in SUBSET Nat, T # {}
    PROVE  \E x \in T : \A y \in T : x <= y
<1>1. \E x \in T : \A y \in T : <<y, x>> \notin OpToRel(<, Nat)
    BY NatLessThanWellFounded, WFMin
<1>2. \A x, y \in Nat : y < x => <<y, x>> \in OpToRel(<, Nat)
    BY DEF OpToRel
<1>3. PICK R : /\ \E x \in T : \A y \in T : <<y, x>> \notin R
               /\ \A x, y \in Nat : y < x => <<y, x>> \in R
    BY <1>1, <1>2, Zenon
<1>4. PICK x \in T : \A y \in T : <<y, x>> \notin R
    BY <1>3
<1>5. ASSUME NEW y \in T PROVE x <= y
  <2>1. x \in Nat /\ y \in Nat /\ ~(y < x)
    BY <1>3, <1>4
  <2> QED
    BY <2>1
<1> QED
    BY <1>5

-----------------------------------------------------------------------------
(* The inductive invariant.                                              *)

\* A sequence of anything.
Sequence(s) == \E S : s \in Seq(S)

-----------------------------------------------------------------------------
(* The tree.                                                               *)

InodeFields == {"type", "superblock", "dentry_lh", "start", "file_length", "clusters", "load_needed", "device", "loads"}
DentryFields == {"name", "inode", "mounted_inode"}

\* Where to load a directory from.
Ready(p, n) == n.type = "dir" /\ n.load_needed => StartOK(p, n.start)

InodeOK(n) ==
    /\ DOMAIN n = InodeFields
    /\ n.loads \in Nat /\ n.load_needed \in BOOLEAN /\ n.file_length \in Nat
    /\ Sequence(n.clusters) /\ Sequence(n.dentry_lh)
    /\ n.load_needed => n.type \in {"dir", "file"}
    /\ n.type = "file" /\ n.load_needed => \E c : IsChain(c, n.start, n.file_length)

FsOK(p, f) ==
    /\ DOMAIN f = {"inode", "dentry"} /\ Sequence(f.inode) /\ Sequence(f.dentry)
    /\ ROOT \in DOMAIN f.inode
    /\ \A i \in DOMAIN f.inode :
          /\ InodeOK(f.inode[i])
          /\ \A k \in DOMAIN f.inode[i].dentry_lh :
                /\ f.inode[i].dentry_lh[k] \in DOMAIN f.dentry
                /\ f.dentry[f.inode[i].dentry_lh[k]].inode \in DOMAIN f.inode
    /\ \A k \in DOMAIN f.dentry :
          /\ DOMAIN f.dentry[k] = DentryFields
          /\ f.dentry[k].inode \in DOMAIN f.inode \cup {NULL}
          /\ f.dentry[k].mounted_inode # NULL =>
                /\ f.dentry[k].mounted_inode \in DOMAIN f.inode
                /\ f.inode[f.dentry[k].mounted_inode].type = "dir"
                /\ Ready(p, f.inode[f.dentry[k].mounted_inode])
          /\ f.dentry[k].inode # NULL /\ f.dentry[k].name # <<>> => Ready(p, f.inode[f.dentry[k].inode])
    /\ \A k, l \in DOMAIN f.dentry :
          f.dentry[k].inode = f.dentry[l].inode /\ f.dentry[k].inode # NULL => k = l

-----------------------------------------------------------------------------
(* The tasks.                                                              *)

WalkFields == {"status", "buf", "inode", "dentry", "parent", "cluster", "cur", "byte_offset", "device"}

InDir(w) == w.status \in {"page", "fat"}
InFile(w, i) == w.status = "file fat" /\ w.inode = i

\* The dentry a directory's load is filling, in phase q.
Filling(p, f, cur, q) ==
    /\ cur \in 0 .. Len(f.dentry)
    /\ q \in {"file", "dir", "info", "name"} => cur # 0 /\ f.dentry[cur].inode # NULL
    /\ q \in {"file", "dir"} => f.dentry[cur].name = <<>> /\ f.inode[f.dentry[cur].inode].type = q
    /\ q = "file" => f.inode[f.dentry[cur].inode].loads = 0
    /\ q \in {"info", "name"} => Ready(p, f.inode[f.dentry[cur].inode])

WalkOK(p, f, w, q) ==
    /\ w.status \in {"walk", "exists", "page", "fat", "file fat"} =>
          DOMAIN w = WalkFields /\ w.buf \in Nat \ {0} /\ w.inode \in DOMAIN f.inode
    /\ InDir(w) => /\ f.inode[w.inode].type = "dir" /\ w.cluster \in DOMAIN DiskPages
                   /\ Filling(p, f, w.cur, q)
    /\ w.status = "file fat" => f.inode[w.inode].type = "file"

\* The first m clusters of the file are known.
Listed(n, c, m) ==
    /\ IsChain(c, n.start, n.file_length)
    /\ Len(n.clusters) = m /\ m \in 0 .. n.file_length
    /\ \A k \in 1 .. m : n.clusters[k] = [byte_offset |-> k - 1, device_offset |-> c[k]]

Partial(n, w) ==
    \E c, m : /\ Listed(n, c, m) /\ m > 0
              /\ w.byte_offset = m - 1 /\ w.cluster = c[m]

FileOK(n, i, W) ==
    /\ n.loads = 0 => (n.load_needed => n.clusters = <<>>) /\ \A t \in Tasks : ~ InFile(W[t], i)
    /\ n.loads = 1 /\ n.load_needed =>
          /\ \A t \in Tasks : InFile(W[t], i) => Partial(n, W[t])
          /\ \A t, u \in Tasks : InFile(W[t], i) /\ InFile(W[u], i) => t = u
    /\ n.loads = 1 /\ ~ n.load_needed =>
          /\ \E c : Listed(n, c, n.file_length)
          /\ \A t \in Tasks : ~ InFile(W[t], i)

All(p, f, W, Q) ==
    /\ FsOK(p, f)
    /\ \A t \in Tasks : WalkOK(p, f, W[t], Q[t])
    /\ \A i \in DOMAIN f.inode : f.inode[i].type = "file" => FileOK(f.inode[i], i, W)
    /\ \A t, u \in Tasks :
          t # u /\ InDir(W[t]) /\ InDir(W[u]) /\ Q[t] \in {"file", "dir"} => W[u].cur # W[t].cur

PhaseOf(p, w) ==
    CASE w.status = "page" -> p[w.cluster][0]
      [] w.status = "fat"  -> p[w.cluster][EntriesOf(DiskPages[w.cluster])]
      [] OTHER -> "none"

CallsOK ==
    \A t \in Tasks : walk[t].status # "idle" =>
        /\ call[t] \in Calls
        /\ walk[t].status \in {"walk", "page", "fat", "file fat"} /\ walk[t].device # NULL => call[t].op = "mount"

TreeInv(p) == All(p, fs, walk, [t \in Tasks |-> PhaseOf(p, walk[t])])

-----------------------------------------------------------------------------
(* Sequences, and a tree that grows by one node.                           *)

\* A sequence is a function on 1 to its length.
LEMMA SequenceDomain ==
    ASSUME NEW s, Sequence(s)
    PROVE  Len(s) \in Nat /\ DOMAIN s = 1 .. Len(s)
    BY LenProperties DEF Sequence

\* One element more.
LEMMA AppendElements ==
    ASSUME NEW s, Sequence(s), NEW c
    PROVE  /\ Sequence(Append(s, c)) /\ Len(Append(s, c)) = Len(s) + 1
           /\ \A i \in 1 .. Len(s) : Append(s, c)[i] = s[i]
           /\ Append(s, c)[Len(s) + 1] = c
<1>1. PICK S : s \in Seq(S)
    BY DEF Sequence
<1>2. s \in Seq(S \cup {c}) /\ c \in S \cup {c}
  <2>1. Len(s) \in Nat /\ s \in [1 .. Len(s) -> S \cup {c}]
    BY <1>1, LenProperties
  <2> QED
    BY <2>1
<1> DEFINE T == S \cup {c}
<1> HIDE DEF T
<1>3. s \in Seq(T) /\ c \in T
    BY <1>2 DEF T
<1> QED
    BY <1>3, AppendProperties DEF Sequence

\* One element changed.
LEMMA ExceptElements ==
    ASSUME NEW s, Sequence(s), NEW i, NEW e, NEW t, t = [s EXCEPT ![i] = e]
    PROVE  /\ Sequence(t) /\ Len(t) = Len(s) /\ DOMAIN t = DOMAIN s
           /\ \A j \in DOMAIN s : t[j] = IF j = i THEN e ELSE s[j]
<1>1. PICK S : s \in Seq(S)
    BY DEF Sequence
<1> DEFINE T == S \cup {e}
           n == Len(s)
<1>2. n \in Nat /\ s \in [1 .. n -> T] /\ DOMAIN s = 1 .. n
    BY <1>1, LenProperties
<1> HIDE DEF n
<1>3. t \in [1 .. n -> T]
    BY <1>2
<1> HIDE DEF T
<1>4. t \in Seq(T) /\ Len(t) = n
    BY <1>2, <1>3
<1>5. \A j \in DOMAIN s : t[j] = IF j = i THEN e ELSE s[j]
    BY <1>2
<1> QED
    BY <1>2, <1>3, <1>4, <1>5 DEF Sequence, n

\* A new inode n, and perhaps a new dentry for it and a place in a directory,
\* or a mount that leads to it.
Grown(p, f, g, n) ==
    /\ DOMAIN g = {"inode", "dentry"} /\ Sequence(g.inode) /\ Sequence(g.dentry)
    /\ Len(g.inode) = Len(f.inode) + 1 /\ Len(g.dentry) \in {Len(f.dentry), Len(f.dentry) + 1}
    /\ g.inode[Len(f.inode) + 1] = n
    /\ InodeOK(n) /\ n.loads = 0 /\ n.clusters = <<>> /\ n.dentry_lh = <<>>
    /\ \A i \in DOMAIN f.inode :
          \/ g.inode[i] = f.inode[i]
          \/ /\ g.inode[i] = [f.inode[i] EXCEPT !.dentry_lh = Append(@, Len(f.dentry) + 1)]
             /\ Len(g.dentry) = Len(f.dentry) + 1
             /\ g.dentry[Len(f.dentry) + 1].inode = Len(f.inode) + 1
    /\ \A k \in DOMAIN f.dentry :
          \/ g.dentry[k] = f.dentry[k]
          \/ /\ g.dentry[k] = [f.dentry[k] EXCEPT !.mounted_inode = Len(f.inode) + 1]
             /\ n.type = "dir" /\ Ready(p, n)
    /\ Len(g.dentry) = Len(f.dentry) + 1 =>
          LET d == g.dentry[Len(f.dentry) + 1]
          IN /\ DOMAIN d = DentryFields /\ d.mounted_inode = NULL
             /\ d.inode \in {NULL, Len(f.inode) + 1}
             /\ d.name = <<>> \/ Ready(p, n)

\* What is old keeps what other tasks know of it.
LEMMA GrownOld ==
    ASSUME NEW p, NEW f, NEW g, NEW n, FsOK(p, f), Grown(p, f, g, n)
    PROVE  /\ Len(f.inode) \in Nat /\ Len(f.dentry) \in Nat
           /\ DOMAIN f.inode = 1 .. Len(f.inode) /\ DOMAIN f.dentry = 1 .. Len(f.dentry)
           /\ DOMAIN g.inode = 1 .. Len(f.inode) + 1 /\ DOMAIN g.dentry = 1 .. Len(g.dentry)
           /\ DOMAIN f.dentry \subseteq DOMAIN g.dentry
           /\ \A i \in DOMAIN f.inode :
                 /\ DOMAIN g.inode[i] = InodeFields
                 /\ g.inode[i].type = f.inode[i].type /\ g.inode[i].superblock = f.inode[i].superblock
                 /\ g.inode[i].loads = f.inode[i].loads
                 /\ g.inode[i].load_needed = f.inode[i].load_needed /\ g.inode[i].start = f.inode[i].start
                 /\ g.inode[i].file_length = f.inode[i].file_length /\ g.inode[i].clusters = f.inode[i].clusters
           /\ \A k \in DOMAIN f.dentry :
                 /\ DOMAIN g.dentry[k] = DentryFields
                 /\ g.dentry[k].inode = f.dentry[k].inode /\ g.dentry[k].name = f.dentry[k].name
<1>1. /\ Len(f.inode) \in Nat /\ Len(f.dentry) \in Nat
      /\ DOMAIN f.inode = 1 .. Len(f.inode) /\ DOMAIN f.dentry = 1 .. Len(f.dentry)
    BY SequenceDomain DEF FsOK
<1>2. DOMAIN g.inode = 1 .. Len(g.inode) /\ DOMAIN g.dentry = 1 .. Len(g.dentry)
    BY SequenceDomain DEF Grown
<1>3. Len(g.inode) = Len(f.inode) + 1 /\ Len(g.dentry) \in {Len(f.dentry), Len(f.dentry) + 1}
    BY DEF Grown
<1>4. ASSUME NEW i \in DOMAIN f.inode
      PROVE  /\ DOMAIN g.inode[i] = InodeFields
             /\ g.inode[i].type = f.inode[i].type /\ g.inode[i].superblock = f.inode[i].superblock
             /\ g.inode[i].loads = f.inode[i].loads
             /\ g.inode[i].load_needed = f.inode[i].load_needed /\ g.inode[i].start = f.inode[i].start
             /\ g.inode[i].file_length = f.inode[i].file_length /\ g.inode[i].clusters = f.inode[i].clusters
  <2>1. DOMAIN f.inode[i] = InodeFields
    BY DEF FsOK, InodeOK
  <2>2. \/ g.inode[i] = f.inode[i]
        \/ g.inode[i] = [f.inode[i] EXCEPT !.dentry_lh = Append(@, Len(f.dentry) + 1)]
    BY DEF Grown
  <2> DEFINE a == f.inode[i]
             b == g.inode[i]
             lh == Append(a.dentry_lh, Len(f.dentry) + 1)
  <2>3. b = a \/ b = [a EXCEPT !.dentry_lh = lh]
    BY <2>2
  <2> HIDE DEF a, b, lh
  <2>4. DOMAIN a = InodeFields
    BY <2>1 DEF a
  <2>5. /\ DOMAIN b = InodeFields
        /\ b.type = a.type /\ b.superblock = a.superblock /\ b.loads = a.loads
        /\ b.load_needed = a.load_needed /\ b.start = a.start
        /\ b.file_length = a.file_length /\ b.clusters = a.clusters
    BY <2>3, <2>4 DEF InodeFields
  <2> QED
    BY <2>5 DEF a, b
<1>5. ASSUME NEW k \in DOMAIN f.dentry
      PROVE  /\ DOMAIN g.dentry[k] = DentryFields
             /\ g.dentry[k].inode = f.dentry[k].inode /\ g.dentry[k].name = f.dentry[k].name
  <2>1. DOMAIN f.dentry[k] = DentryFields
    BY DEF FsOK
  <2>2. \/ g.dentry[k] = f.dentry[k]
        \/ g.dentry[k] = [f.dentry[k] EXCEPT !.mounted_inode = Len(f.inode) + 1]
    BY DEF Grown
  <2> QED
    BY <2>1, <2>2 DEF DentryFields
<1> QED
    BY <1>1, <1>2, <1>3, <1>4, <1>5

\* Ready depends on three fields.
LEMMA SameReady ==
    ASSUME NEW p, NEW a, NEW b, a.type = b.type, a.load_needed = b.load_needed, a.start = b.start, Ready(p, a)
    PROVE  Ready(p, b)
    BY DEF Ready

\* The tree with one node more is a tree.
LEMMA GrownTree ==
    ASSUME NEW p, NEW f, NEW g, NEW n, FsOK(p, f), Grown(p, f, g, n)
    PROVE  FsOK(p, g)
<1> DEFINE N == Len(f.inode)
           M == Len(f.dentry)
<1>1. /\ N \in Nat /\ M \in Nat /\ Len(g.dentry) \in {M, M + 1}
      /\ DOMAIN f.inode = 1 .. N /\ DOMAIN f.dentry = 1 .. M
      /\ DOMAIN g.inode = 1 .. N + 1 /\ DOMAIN g.dentry = 1 .. Len(g.dentry)
    BY GrownOld DEF Grown
<1>2. /\ ROOT \in DOMAIN f.inode
      /\ \A i \in DOMAIN f.inode : InodeOK(f.inode[i])
      /\ \A i \in DOMAIN f.inode : \A k \in DOMAIN f.inode[i].dentry_lh :
            /\ f.inode[i].dentry_lh[k] \in DOMAIN f.dentry
            /\ f.dentry[f.inode[i].dentry_lh[k]].inode \in DOMAIN f.inode
    BY DEF FsOK
<1>3. \A i \in DOMAIN f.inode :
         /\ DOMAIN g.inode[i] = InodeFields
         /\ g.inode[i].type = f.inode[i].type /\ g.inode[i].loads = f.inode[i].loads
         /\ g.inode[i].load_needed = f.inode[i].load_needed /\ g.inode[i].start = f.inode[i].start
         /\ g.inode[i].file_length = f.inode[i].file_length /\ g.inode[i].clusters = f.inode[i].clusters
    BY GrownOld
<1>4. \A k \in DOMAIN f.dentry :
         /\ DOMAIN g.dentry[k] = DentryFields
         /\ g.dentry[k].inode = f.dentry[k].inode /\ g.dentry[k].name = f.dentry[k].name
    BY GrownOld
<1>5. /\ g.inode[N + 1] = n /\ InodeOK(n) /\ n.loads = 0 /\ n.clusters = <<>> /\ n.dentry_lh = <<>>
      /\ DOMAIN g = {"inode", "dentry"} /\ Sequence(g.inode) /\ Sequence(g.dentry)
    BY DEF Grown
<1>6. ASSUME NEW i \in DOMAIN f.inode
      PROVE  /\ Sequence(g.inode[i].dentry_lh)
             /\ \A k \in DOMAIN g.inode[i].dentry_lh :
                   \/ k \in DOMAIN f.inode[i].dentry_lh /\ g.inode[i].dentry_lh[k] = f.inode[i].dentry_lh[k]
                   \/ g.inode[i].dentry_lh[k] = M + 1 /\ Len(g.dentry) = M + 1 /\ g.dentry[M + 1].inode = N + 1
  <2> DEFINE a == f.inode[i]
             lh == a.dentry_lh
             new == Append(lh, M + 1)
  <2>1. DOMAIN a = InodeFields /\ Sequence(lh)
    BY <1>2 DEF InodeOK
  <2>2. \/ g.inode[i] = a
        \/ /\ g.inode[i] = [a EXCEPT !.dentry_lh = new]
           /\ Len(g.dentry) = M + 1 /\ g.dentry[M + 1].inode = N + 1
    BY DEF Grown
  <2>3. CASE g.inode[i] = a
    BY <2>1, <2>3
  <2>4. CASE /\ g.inode[i] = [a EXCEPT !.dentry_lh = new]
             /\ Len(g.dentry) = M + 1 /\ g.dentry[M + 1].inode = N + 1
    <3>1. /\ Sequence(new) /\ Len(new) = Len(lh) + 1
          /\ \A k \in 1 .. Len(lh) : new[k] = lh[k]
          /\ new[Len(lh) + 1] = M + 1
      BY <2>1, AppendElements
    <3>2. DOMAIN new = 1 .. Len(new) /\ DOMAIN lh = 1 .. Len(lh) /\ Len(lh) \in Nat
      BY <2>1, <3>1, SequenceDomain
    <3> HIDE DEF new
    <3>3. g.inode[i].dentry_lh = new
      BY <2>1, <2>4 DEF InodeFields
    <3>4. ASSUME NEW k \in DOMAIN new
          PROVE  (k \in DOMAIN lh /\ new[k] = lh[k]) \/ new[k] = M + 1
      BY <3>1, <3>2
    <3> QED
      BY <2>4, <3>1, <3>3, <3>4
  <2> QED
    BY <2>2, <2>3, <2>4
<1> HIDE DEF N, M
<1>7. DOMAIN f.inode \subseteq DOMAIN g.inode /\ DOMAIN f.dentry \subseteq DOMAIN g.dentry
    BY <1>1
<1>8. ASSUME NEW i \in DOMAIN g.inode PROVE InodeOK(g.inode[i])
  <2>1. CASE i \in DOMAIN f.inode
    <3>1. InodeOK(f.inode[i])
      BY <1>2, <2>1
    <3> QED
      BY <1>3, <1>6, <2>1, <3>1 DEF InodeOK
  <2>2. CASE i \notin DOMAIN f.inode
    <3>1. i = N + 1
      BY <1>1, <2>2
    <3> QED
      BY <1>5, <3>1
  <2> QED
    BY <2>1, <2>2
<1>9. ASSUME NEW i \in DOMAIN g.inode, NEW k \in DOMAIN g.inode[i].dentry_lh
      PROVE  /\ g.inode[i].dentry_lh[k] \in DOMAIN g.dentry
             /\ g.dentry[g.inode[i].dentry_lh[k]].inode \in DOMAIN g.inode
  <2>1. CASE i \in DOMAIN f.inode
    <3> DEFINE x == g.inode[i].dentry_lh[k]
    <3>1. CASE k \in DOMAIN f.inode[i].dentry_lh /\ x = f.inode[i].dentry_lh[k]
      <4>1. x \in DOMAIN f.dentry /\ f.dentry[x].inode \in DOMAIN f.inode
        BY <1>2, <2>1, <3>1
      <4> QED
        BY <1>4, <1>7, <4>1
    <3>2. CASE x = M + 1 /\ Len(g.dentry) = M + 1 /\ g.dentry[M + 1].inode = N + 1
      BY <1>1, <3>2
    <3> QED
      BY <1>6, <2>1, <3>1, <3>2
  <2>2. CASE i \notin DOMAIN f.inode
    <3>1. i = N + 1
      BY <1>1, <2>2
    <3>2. g.inode[i].dentry_lh = <<>>
      BY <1>5, <3>1
    <3>3. k \in DOMAIN <<>>
      BY <3>2
    <3> QED
      BY <3>3
  <2> QED
    BY <2>1, <2>2
<1>10. \A i \in DOMAIN f.inode : Ready(p, f.inode[i]) => Ready(p, g.inode[i])
    BY <1>3, SameReady
<1>11. ASSUME NEW k \in DOMAIN g.dentry, k \notin DOMAIN f.dentry
       PROVE  /\ k = M + 1 /\ Len(g.dentry) = M + 1
              /\ DOMAIN g.dentry[k] = DentryFields /\ g.dentry[k].mounted_inode = NULL
              /\ g.dentry[k].inode \in {NULL, N + 1} /\ (g.dentry[k].name = <<>> \/ Ready(p, n))
  <2>1. k = M + 1 /\ Len(g.dentry) = M + 1
    BY <1>1, <1>11
  <2> QED
    BY <2>1 DEF Grown, M, N
<1>12. ASSUME NEW k \in DOMAIN g.dentry
       PROVE  /\ DOMAIN g.dentry[k] = DentryFields
              /\ g.dentry[k].inode \in DOMAIN g.inode \cup {NULL}
              /\ g.dentry[k].mounted_inode # NULL =>
                    /\ g.dentry[k].mounted_inode \in DOMAIN g.inode
                    /\ g.inode[g.dentry[k].mounted_inode].type = "dir"
                    /\ Ready(p, g.inode[g.dentry[k].mounted_inode])
              /\ g.dentry[k].inode # NULL /\ g.dentry[k].name # <<>> => Ready(p, g.inode[g.dentry[k].inode])
  <2>1. CASE k \in DOMAIN f.dentry
    <3> DEFINE d == f.dentry[k]
               e == g.dentry[k]
    <3>1. /\ DOMAIN d = DentryFields /\ d.inode \in DOMAIN f.inode \cup {NULL}
          /\ d.mounted_inode # NULL => /\ d.mounted_inode \in DOMAIN f.inode
                                       /\ f.inode[d.mounted_inode].type = "dir"
                                       /\ Ready(p, f.inode[d.mounted_inode])
          /\ d.inode # NULL /\ d.name # <<>> => Ready(p, f.inode[d.inode])
      BY <2>1 DEF FsOK
    <3>2. DOMAIN e = DentryFields /\ e.inode = d.inode /\ e.name = d.name
      BY <1>4, <2>1
    <3>3. e = d \/ (e = [d EXCEPT !.mounted_inode = N + 1] /\ n.type = "dir" /\ Ready(p, n))
      BY <2>1 DEF Grown, N
    <3> HIDE DEF d, e
    <3>4. e.mounted_inode = d.mounted_inode \/ (e.mounted_inode = N + 1 /\ n.type = "dir" /\ Ready(p, n))
      BY <3>1, <3>3 DEF DentryFields
    <3>5. e.mounted_inode # NULL =>
             /\ e.mounted_inode \in DOMAIN g.inode /\ g.inode[e.mounted_inode].type = "dir"
             /\ Ready(p, g.inode[e.mounted_inode])
      <4>1. CASE e.mounted_inode = d.mounted_inode
        BY <1>3, <1>7, <1>10, <3>1, <4>1
      <4>2. CASE e.mounted_inode = N + 1 /\ n.type = "dir" /\ Ready(p, n)
        <5>1. N + 1 \in DOMAIN g.inode
          BY <1>1
        <5> QED
          BY <1>5, <4>2, <5>1
      <4> QED
        BY <3>4, <4>1, <4>2
    <3>6. e.inode # NULL /\ e.name # <<>> => Ready(p, g.inode[e.inode])
      BY <1>10, <3>1, <3>2
    <3> QED
      BY <1>7, <3>1, <3>2, <3>5, <3>6 DEF d, e
  <2>2. CASE k \notin DOMAIN f.dentry
    <3>1. N + 1 \in DOMAIN g.inode
      BY <1>1
    <3> QED
      BY <1>5, <1>11, <2>2, <3>1
  <2> QED
    BY <2>1, <2>2
<1>13. ASSUME NEW k \in DOMAIN g.dentry, NEW l \in DOMAIN g.dentry,
              g.dentry[k].inode = g.dentry[l].inode, g.dentry[k].inode # NULL
       PROVE  k = l
  <2>1. \A m \in DOMAIN f.dentry : g.dentry[m].inode \in DOMAIN f.inode \cup {NULL}
    BY <1>4 DEF FsOK
  <2>2. N + 1 \notin DOMAIN f.inode
    BY <1>1
  <2>3. CASE k \in DOMAIN f.dentry /\ l \in DOMAIN f.dentry
    <3>1. f.dentry[k].inode = f.dentry[l].inode /\ f.dentry[k].inode # NULL
      BY <1>4, <1>13, <2>3
    <3> QED
      BY <2>3, <3>1 DEF FsOK
  <2>4. CASE k \notin DOMAIN f.dentry
    <3>1. k = M + 1 /\ g.dentry[k].inode = N + 1
      BY <1>11, <1>13, <2>4
    <3>2. l \notin DOMAIN f.dentry
      BY <1>13, <2>1, <2>2, <3>1
    <3> QED
      BY <1>11, <3>1, <3>2
  <2>5. CASE l \notin DOMAIN f.dentry
    <3>1. l = M + 1 /\ g.dentry[l].inode = N + 1
      BY <1>11, <1>13, <2>5
    <3>2. k \notin DOMAIN f.dentry
      BY <1>13, <2>1, <2>2, <3>1
    <3> QED
      BY <1>11, <3>1, <3>2
  <2> QED
    BY <2>3, <2>4, <2>5
<1> QED
    BY <1>2, <1>5, <1>7, <1>8, <1>9, <1>12, <1>13 DEF FsOK

-----------------------------------------------------------------------------
(* What the steps of one task leave alone.                                 *)

\* From f to g, what other tasks know of the tree stays true, but for how often
\* inode x was loaded and for the name of dentry y.
Stays(p, f, g, x, y) ==
    /\ DOMAIN f.inode \subseteq DOMAIN g.inode
    /\ Len(f.dentry) \in Nat /\ Len(g.dentry) \in Nat /\ Len(f.dentry) <= Len(g.dentry)
    /\ \A i \in DOMAIN f.inode :
          /\ g.inode[i].type = f.inode[i].type
          /\ Ready(p, f.inode[i]) => Ready(p, g.inode[i])
          /\ i # x => g.inode[i].loads = f.inode[i].loads
    /\ \A k \in DOMAIN f.dentry :
          /\ g.dentry[k].inode = f.dentry[k].inode
          /\ k # y => g.dentry[k].name = f.dentry[k].name

\* A task in phase q of a load has nothing to do with them.
Apart(f, w, q, x, y) ==
    InDir(w) => /\ q \in {"file", "dir"} => w.cur # y
                /\ q = "file" => f.dentry[w.cur].inode # x

\* What it knows stays true.
LEMMA StaysWalk ==
    ASSUME NEW p, NEW f, NEW g, NEW x, NEW y, NEW w, NEW q,
           FsOK(p, f), Stays(p, f, g, x, y), Apart(f, w, q, x, y), WalkOK(p, f, w, q)
    PROVE  WalkOK(p, g, w, q)
<1>1. w.status \in {"walk", "exists", "page", "fat", "file fat"} =>
          DOMAIN w = WalkFields /\ w.buf \in Nat \ {0} /\ w.inode \in DOMAIN g.inode
    BY DEF WalkOK, Stays
<1>2. w.status = "file fat" => g.inode[w.inode].type = "file"
    BY DEF WalkOK, Stays
<1>3. ASSUME InDir(w)
      PROVE  /\ g.inode[w.inode].type = "dir" /\ w.cluster \in DOMAIN DiskPages
             /\ Filling(p, g, w.cur, q)
  <2>1. /\ w.inode \in DOMAIN f.inode /\ f.inode[w.inode].type = "dir" /\ w.cluster \in DOMAIN DiskPages
        /\ Filling(p, f, w.cur, q)
    BY <1>3 DEF WalkOK, InDir
  <2> DEFINE c == w.cur
             i == f.dentry[c].inode
  <2>2. /\ q \in {"file", "dir"} => c # y
        /\ q = "file" => i # x
    BY <1>3 DEF Apart
  <2>3. /\ c \in 0 .. Len(f.dentry)
        /\ q \in {"file", "dir", "info", "name"} => c # 0 /\ i # NULL
        /\ q \in {"file", "dir"} => f.dentry[c].name = <<>> /\ f.inode[i].type = q
        /\ q = "file" => f.inode[i].loads = 0
        /\ q \in {"info", "name"} => Ready(p, f.inode[i])
    BY <2>1 DEF Filling
  <2>4. c # 0 => c \in DOMAIN f.dentry
    BY <2>3, SequenceDomain DEF FsOK
  <2>5. c \in DOMAIN f.dentry => i \in DOMAIN f.inode \cup {NULL}
    BY DEF FsOK
  <2>6. c \in 0 .. Len(g.dentry)
    BY <2>3 DEF Stays
  <2> HIDE DEF c
  <2>7. c \in DOMAIN f.dentry => g.dentry[c].inode = i /\ (c # y => g.dentry[c].name = f.dentry[c].name)
    BY DEF Stays
  <2> HIDE DEF i
  <2>8. i \in DOMAIN f.inode => /\ g.inode[i].type = f.inode[i].type
                                /\ Ready(p, f.inode[i]) => Ready(p, g.inode[i])
                                /\ i # x => g.inode[i].loads = f.inode[i].loads
    BY DEF Stays
  <2>9. Filling(p, g, c, q)
    BY <2>2, <2>3, <2>4, <2>5, <2>6, <2>7, <2>8 DEF Filling
  <2>10. g.inode[w.inode].type = "dir"
    BY <2>1 DEF Stays
  <2> QED
    BY <2>1, <2>9, <2>10 DEF c
<1> QED
    BY <1>1, <1>2, <1>3 DEF WalkOK

\* What is known of a file depends on some fields, and on the tasks that load it.
LEMMA SameFile ==
    ASSUME NEW a, NEW b, NEW i, NEW W, NEW V, FileOK(a, i, W),
           b.loads = a.loads, b.load_needed = a.load_needed, b.clusters = a.clusters,
           b.start = a.start, b.file_length = a.file_length,
           \A t \in Tasks : InFile(V[t], i) => V[t] = W[t]
    PROVE  FileOK(b, i, V)
<1>1. \A c, m : Listed(a, c, m) => Listed(b, c, m)
    BY DEF Listed
<1>2. \A w : Partial(a, w) => Partial(b, w)
    BY <1>1 DEF Partial
<1>3. b.loads = 0 => (b.load_needed => b.clusters = <<>>) /\ \A t \in Tasks : ~ InFile(V[t], i)
    BY DEF FileOK
<1>4. ASSUME b.loads = 1, b.load_needed
      PROVE  /\ \A t \in Tasks : InFile(V[t], i) => Partial(b, V[t])
             /\ \A t, u \in Tasks : InFile(V[t], i) /\ InFile(V[u], i) => t = u
  <2>1. /\ \A t \in Tasks : InFile(W[t], i) => Partial(a, W[t])
        /\ \A t, u \in Tasks : InFile(W[t], i) /\ InFile(W[u], i) => t = u
    BY <1>4 DEF FileOK
  <2>2. \A t \in Tasks : InFile(V[t], i) => InFile(W[t], i) /\ V[t] = W[t]
    OBVIOUS
  <2> QED
    BY <1>2, <2>1, <2>2
<1>5. ASSUME b.loads = 1, ~ b.load_needed
      PROVE  /\ \E c : Listed(b, c, b.file_length)
             /\ \A t \in Tasks : ~ InFile(V[t], i)
  <2>1. /\ \E c : Listed(a, c, a.file_length)
        /\ \A t \in Tasks : ~ InFile(W[t], i)
    BY <1>5 DEF FileOK
  <2> QED
    BY <1>1, <2>1
<1> QED
    BY <1>3, <1>4, <1>5 DEF FileOK

\* A step of task t.
LEMMA AllStays ==
    ASSUME NEW p, NEW f, NEW g, NEW x, NEW y, NEW W, NEW Q, NEW V, NEW R, NEW t \in Tasks,
           All(p, f, W, Q), FsOK(p, g), Stays(p, f, g, x, y),
           \A u \in Tasks : u # t => /\ V[u] = W[u] /\ R[u] = Q[u]
                                     /\ Apart(f, W[u], Q[u], x, y),
           WalkOK(p, g, V[t], R[t]),
           \A i \in DOMAIN g.inode : g.inode[i].type = "file" => FileOK(g.inode[i], i, V),
           \A u \in Tasks : u # t /\ InDir(V[t]) /\ InDir(W[u])
                               /\ (R[t] \in {"file", "dir"} \/ Q[u] \in {"file", "dir"})
                            => V[t].cur # W[u].cur
    PROVE  All(p, g, V, R)
<1>1. ASSUME NEW u \in Tasks PROVE WalkOK(p, g, V[u], R[u])
  <2>1. CASE u = t
    BY <2>1
  <2>2. CASE u # t
    BY <2>2, StaysWalk DEF All
  <2> QED
    BY <2>1, <2>2
<1>2. ASSUME NEW a \in Tasks, NEW b \in Tasks, a # b, InDir(V[a]), InDir(V[b]), R[a] \in {"file", "dir"}
      PROVE  V[b].cur # V[a].cur
  <2>1. CASE a = t
    BY <1>2, <2>1
  <2>2. CASE b = t
    BY <1>2, <2>2
  <2>3. CASE a # t /\ b # t
    BY <1>2, <2>3 DEF All
  <2> QED
    BY <2>1, <2>2, <2>3
<1> QED
    BY <1>1, <1>2 DEF All

\* A new node says nothing to anybody.
LEMMA GrownAll ==
    ASSUME NEW p, NEW f, NEW g, NEW n, NEW W, NEW Q, All(p, f, W, Q), Grown(p, f, g, n)
    PROVE  All(p, g, W, Q)
<1>1. FsOK(p, f)
    BY DEF All
<1>2. FsOK(p, g)
    BY <1>1, GrownTree
<1>3. \A i \in DOMAIN f.inode :
         /\ g.inode[i].type = f.inode[i].type /\ g.inode[i].loads = f.inode[i].loads
         /\ g.inode[i].load_needed = f.inode[i].load_needed /\ g.inode[i].start = f.inode[i].start
         /\ g.inode[i].file_length = f.inode[i].file_length /\ g.inode[i].clusters = f.inode[i].clusters
    BY <1>1, GrownOld
<1>4. Stays(p, f, g, NULL, NULL)
  <2>1. /\ DOMAIN f.inode \subseteq DOMAIN g.inode
        /\ Len(f.dentry) \in Nat /\ Len(g.dentry) \in Nat /\ Len(f.dentry) <= Len(g.dentry)
    <3>1. /\ Len(f.inode) \in Nat /\ Len(f.dentry) \in Nat
          /\ DOMAIN f.inode = 1 .. Len(f.inode) /\ DOMAIN g.inode = 1 .. Len(f.inode) + 1
      BY <1>1, GrownOld
    <3>2. Len(g.dentry) \in {Len(f.dentry), Len(f.dentry) + 1}
      BY DEF Grown
    <3> QED
      BY <3>1, <3>2
  <2>2. \A k \in DOMAIN f.dentry : g.dentry[k].inode = f.dentry[k].inode /\ g.dentry[k].name = f.dentry[k].name
    BY <1>1, GrownOld
  <2>3. \A i \in DOMAIN f.inode : Ready(p, f.inode[i]) => Ready(p, g.inode[i])
    BY <1>3, SameReady
  <2> QED
    BY <1>3, <2>1, <2>2, <2>3 DEF Stays
<1>5. ASSUME NEW u \in Tasks PROVE WalkOK(p, f, W[u], Q[u]) /\ Apart(f, W[u], Q[u], NULL, NULL)
  <2>1. WalkOK(p, f, W[u], Q[u])
    BY DEF All
  <2>2. InDir(W[u]) /\ Q[u] \in {"file", "dir"} => W[u].cur # 0 /\ f.dentry[W[u].cur].inode # NULL
    BY <2>1 DEF WalkOK, Filling
  <2> QED
    BY <2>1, <2>2 DEF Apart, NULL
<1>6. \A u \in Tasks : WalkOK(p, g, W[u], Q[u])
    BY <1>1, <1>4, <1>5, StaysWalk
<1>7. ASSUME NEW i \in DOMAIN g.inode, g.inode[i].type = "file" PROVE FileOK(g.inode[i], i, W)
  <2>1. CASE i \in DOMAIN f.inode
    <3>1. FileOK(f.inode[i], i, W)
      BY <1>3, <1>7, <2>1 DEF All
    <3> QED
      BY <1>3, <2>1, <3>1, SameFile
  <2>2. CASE i \notin DOMAIN f.inode
    <3>1. i = Len(f.inode) + 1
      BY <1>1, <2>2, GrownOld
    <3>2. g.inode[i].loads = 0 /\ g.inode[i].clusters = <<>>
      BY <3>1 DEF Grown
    <3>3. \A t \in Tasks : ~ InFile(W[t], i)
      BY <1>5, <2>2 DEF WalkOK, InFile
    <3> QED
      BY <3>2, <3>3 DEF FileOK
  <2> QED
    BY <2>1, <2>2
<1> QED
    BY <1>2, <1>6, <1>7 DEF All

-----------------------------------------------------------------------------
(* The invariant, seen from one task.                                      *)

\* The tasks' walks, but w for task t.
With(W, t, w) == [u \in Tasks |-> IF u = t THEN w ELSE W[u]]

\* The invariant, with walk w in phase q for task t.
At(p, f, W, t, w, q) ==
    All(p, f, With(W, t, w), [u \in Tasks |-> IF u = t THEN q ELSE PhaseOf(p, W[u])])

\* What it says of the tree, of the task and of the others.
LEMMA AtParts ==
    ASSUME NEW p, NEW f, NEW W, NEW t \in Tasks, NEW w, NEW q, At(p, f, W, t, w, q)
    PROVE  /\ FsOK(p, f) /\ WalkOK(p, f, w, q)
           /\ \A u \in Tasks : u # t => WalkOK(p, f, W[u], PhaseOf(p, W[u]))
           /\ \A i \in DOMAIN f.inode : f.inode[i].type = "file" => FileOK(f.inode[i], i, With(W, t, w))
           /\ \A u \in Tasks : u # t /\ InDir(w) /\ InDir(W[u])
                                  /\ (q \in {"file", "dir"} \/ PhaseOf(p, W[u]) \in {"file", "dir"})
                               => w.cur # W[u].cur
<1> DEFINE V == With(W, t, w)
           Q == [u \in Tasks |-> IF u = t THEN q ELSE PhaseOf(p, W[u])]
<1>1. All(p, f, V, Q)
    BY DEF At
<1>2. V[t] = w /\ Q[t] = q /\ \A u \in Tasks : u # t => V[u] = W[u] /\ Q[u] = PhaseOf(p, W[u])
    BY DEF With
<1> HIDE DEF V, Q
<1>3. /\ FsOK(p, f)
      /\ \A u \in Tasks : WalkOK(p, f, V[u], Q[u])
      /\ \A i \in DOMAIN f.inode : f.inode[i].type = "file" => FileOK(f.inode[i], i, V)
      /\ \A u, s \in Tasks :
            u # s /\ InDir(V[u]) /\ InDir(V[s]) /\ Q[u] \in {"file", "dir"} => V[s].cur # V[u].cur
    BY <1>1 DEF All
<1>4. WalkOK(p, f, w, q)
    BY <1>2, <1>3
<1>5. ASSUME NEW u \in Tasks, u # t
      PROVE  /\ WalkOK(p, f, W[u], PhaseOf(p, W[u]))
             /\ InDir(w) /\ InDir(W[u]) /\ (q \in {"file", "dir"} \/ PhaseOf(p, W[u]) \in {"file", "dir"})
                   => w.cur # W[u].cur
  <2>1. V[u] = W[u] /\ Q[u] = PhaseOf(p, W[u])
    BY <1>2, <1>5
  <2> QED
    BY <1>2, <1>3, <1>5, <2>1
<1> QED
    BY <1>3, <1>4, <1>5 DEF V

\* The fields of a file that the invariant is about.
SameFields(a, b) ==
    /\ b.type = a.type /\ b.loads = a.loads /\ b.load_needed = a.load_needed
    /\ b.clusters = a.clusters /\ b.start = a.start /\ b.file_length = a.file_length

\* A step that takes task t from walk v to walk w, and is about inodes x and z
\* and dentry y only.
LEMMA AtStep ==
    ASSUME NEW p, NEW f, NEW g, NEW x, NEW y, NEW z, NEW W, NEW t \in Tasks, NEW v, NEW q0, NEW w, NEW q,
           At(p, f, W, t, v, q0), FsOK(p, g), Stays(p, f, g, x, y),
           \A u \in Tasks : u # t => Apart(f, W[u], PhaseOf(p, W[u]), x, y),
           WalkOK(p, g, w, q),
           DOMAIN g.inode = DOMAIN f.inode,
           \A i \in DOMAIN f.inode : i # z => SameFields(f.inode[i], g.inode[i]) /\ ~ InFile(w, i),
           z \in DOMAIN f.inode /\ g.inode[z].type = "file" => FileOK(g.inode[z], z, With(W, t, w)),
           \A u \in Tasks : u # t /\ InDir(w) /\ InDir(W[u])
                               /\ (q \in {"file", "dir"} \/ PhaseOf(p, W[u]) \in {"file", "dir"})
                            => w.cur # W[u].cur
    PROVE  At(p, g, W, t, w, q)
<1> DEFINE V0 == With(W, t, v)
           Q0 == [u \in Tasks |-> IF u = t THEN q0 ELSE PhaseOf(p, W[u])]
           V  == With(W, t, w)
           Q  == [u \in Tasks |-> IF u = t THEN q ELSE PhaseOf(p, W[u])]
<1>1. All(p, f, V0, Q0)
    BY DEF At
<1>2. \A u \in Tasks : u # t => /\ V[u] = W[u] /\ V0[u] = W[u]
                                /\ Q[u] = PhaseOf(p, W[u]) /\ Q0[u] = PhaseOf(p, W[u])
    BY DEF With
<1>3. V[t] = w /\ Q[t] = q
    BY DEF With
<1>4. z \in DOMAIN f.inode /\ g.inode[z].type = "file" => FileOK(g.inode[z], z, V)
    OBVIOUS
<1> HIDE DEF V0, Q0, V, Q
<1>5. \A u \in Tasks : u # t => V[u] = V0[u] /\ Q[u] = Q0[u] /\ Apart(f, V0[u], Q0[u], x, y)
    BY <1>2
<1>6. ASSUME NEW i \in DOMAIN g.inode, g.inode[i].type = "file" PROVE FileOK(g.inode[i], i, V)
  <2>1. CASE i = z
    BY <1>4, <1>6, <2>1
  <2>2. CASE i # z
    <3>1. SameFields(f.inode[i], g.inode[i]) /\ ~ InFile(w, i) /\ i \in DOMAIN f.inode
      BY <2>2
    <3>2. FileOK(f.inode[i], i, V0)
      BY <1>1, <1>6, <3>1 DEF All, SameFields
    <3>3. \A u \in Tasks : InFile(V[u], i) => V[u] = V0[u]
      BY <1>3, <1>5, <3>1
    <3> QED
      BY <3>1, <3>2, <3>3, SameFile DEF SameFields
  <2> QED
    BY <2>1, <2>2
<1>7. \A u \in Tasks : u # t /\ InDir(V[t]) /\ InDir(V0[u])
                          /\ (Q[t] \in {"file", "dir"} \/ Q0[u] \in {"file", "dir"})
                       => V[t].cur # V0[u].cur
    BY <1>2, <1>3
<1>8. WalkOK(p, g, V[t], Q[t])
    BY <1>3
<1>9. All(p, g, V, Q)
    BY <1>1, <1>5, <1>6, <1>7, <1>8, AllStays
<1> QED
    BY <1>9 DEF At, V, Q

\* The others' directories have nothing to do with no inode and no dentry.
LEMMA ApartFromNone ==
    ASSUME NEW p, NEW f, NEW w, NEW q, WalkOK(p, f, w, q)
    PROVE  Apart(f, w, q, NULL, NULL)
    BY DEF WalkOK, Filling, Apart, NULL

\* A tree does not change by itself.
LEMMA StaysItself ==
    ASSUME NEW p, NEW f, NEW x, NEW y, FsOK(p, f)
    PROVE  Stays(p, f, f, x, y)
<1>1. Len(f.dentry) \in Nat
    BY SequenceDomain DEF FsOK
<1> QED
    BY <1>1 DEF Stays

\* There is no number NULL.
LEMMA NullIsNone ==
    ASSUME NEW s, Sequence(s)
    PROVE  NULL \notin DOMAIN s
<1> DEFINE n == Len(s)
<1>1. n \in Nat /\ DOMAIN s = 1 .. n
    BY SequenceDomain
<1> HIDE DEF n
<1> QED
    BY <1>1 DEF NULL

\* Task t's walk changes, and the tree does not.
LEMMA AtMove ==
    ASSUME NEW p, NEW f, NEW W, NEW t \in Tasks, NEW v, NEW q0, NEW w, NEW q,
           At(p, f, W, t, v, q0), WalkOK(p, f, w, q), w.status # "file fat",
           \A u \in Tasks : u # t /\ InDir(w) /\ InDir(W[u])
                               /\ (q \in {"file", "dir"} \/ PhaseOf(p, W[u]) \in {"file", "dir"})
                            => w.cur # W[u].cur
    PROVE  At(p, f, W, t, w, q)
<1>1. /\ FsOK(p, f)
      /\ \A u \in Tasks : u # t => WalkOK(p, f, W[u], PhaseOf(p, W[u]))
    BY AtParts
<1>2. Stays(p, f, f, NULL, NULL)
    BY <1>1, StaysItself
<1>3. \A u \in Tasks : u # t => Apart(f, W[u], PhaseOf(p, W[u]), NULL, NULL)
    BY <1>1, ApartFromNone
<1>4. NULL \notin DOMAIN f.inode
    BY <1>1, NullIsNone DEF FsOK
<1>5. \A i \in DOMAIN f.inode : SameFields(f.inode[i], f.inode[i]) /\ ~ InFile(w, i)
    BY DEF SameFields, InFile
<1> QED
    BY <1>1, <1>2, <1>3, <1>4, <1>5, AtStep

\* A walk that loads nothing.
LEMMA AtQuiet ==
    ASSUME NEW p, NEW f, NEW W, NEW t \in Tasks, NEW v, NEW q0, NEW w, NEW q,
           At(p, f, W, t, v, q0), WalkOK(p, f, w, q), ~ InDir(w), w.status # "file fat"
    PROVE  At(p, f, W, t, w, q)
    BY AtMove

\* A new node.
LEMMA AtGrown ==
    ASSUME NEW p, NEW f, NEW g, NEW n, NEW W, NEW t \in Tasks, NEW w, NEW q,
           At(p, f, W, t, w, q), Grown(p, f, g, n)
    PROVE  At(p, g, W, t, w, q)
    BY GrownAll DEF At

\* The invariant of the whole state, and the state with a walk for one task.
LEMMA AtNow ==
    ASSUME NEW p, NEW f, NEW W, NEW V, NEW t \in Tasks, NEW w,
           At(p, f, W, t, w, PhaseOf(p, w)), V[t] = w, \A u \in Tasks : u # t => V[u] = W[u]
    PROVE  All(p, f, V, [u \in Tasks |-> PhaseOf(p, V[u])])
<1> DEFINE V0 == With(W, t, w)
           Q0 == [u \in Tasks |-> IF u = t THEN PhaseOf(p, w) ELSE PhaseOf(p, W[u])]
           Q  == [u \in Tasks |-> PhaseOf(p, V[u])]
<1>1. All(p, f, V0, Q0)
    BY DEF At
<1>2. \A u \in Tasks : V0[u] = V[u]
    BY DEF With
<1>3. Q0 = Q
    OBVIOUS
<1> HIDE DEF V0, Q0, Q
<1>4. All(p, f, V, Q0)
  <2>1. ASSUME NEW i \in DOMAIN f.inode, f.inode[i].type = "file" PROVE FileOK(f.inode[i], i, V)
    <3>1. FileOK(f.inode[i], i, V0)
      BY <1>1, <2>1 DEF All
    <3>2. \A u \in Tasks : InFile(V[u], i) => V[u] = V0[u]
      BY <1>2
    <3> DEFINE a == f.inode[i]
    <3>3. FileOK(a, i, V0)
      BY <3>1
    <3> HIDE DEF a
    <3>4. FileOK(a, i, V)
      BY <3>2, <3>3, SameFile
    <3> QED
      BY <3>4 DEF a
  <2> QED
    BY <1>1, <1>2, <2>1 DEF All
<1> QED
    BY <1>3, <1>4 DEF Q

\* And the other way.
LEMMA NowAt ==
    ASSUME NEW p, NEW f, NEW W, NEW t \in Tasks, All(p, f, W, [u \in Tasks |-> PhaseOf(p, W[u])])
    PROVE  At(p, f, W, t, W[t], PhaseOf(p, W[t]))
<1> DEFINE V == With(W, t, W[t])
           Q == [u \in Tasks |-> PhaseOf(p, W[u])]
<1>1. \A u \in Tasks : V[u] = W[u]
    BY DEF With
<1>2. Q = [u \in Tasks |-> IF u = t THEN PhaseOf(p, W[t]) ELSE PhaseOf(p, W[u])]
    OBVIOUS
<1>3. All(p, f, W, Q)
    OBVIOUS
<1> HIDE DEF V, Q
<1>4. ASSUME NEW i \in DOMAIN f.inode, f.inode[i].type = "file" PROVE FileOK(f.inode[i], i, V)
  <2> DEFINE a == f.inode[i]
  <2>1. FileOK(a, i, W)
    BY <1>3, <1>4 DEF All
  <2>2. \A u \in Tasks : InFile(V[u], i) => V[u] = W[u]
    BY <1>1
  <2> HIDE DEF a
  <2>3. FileOK(a, i, V)
    BY <2>1, <2>2, SameFile
  <2> QED
    BY <2>3 DEF a
<1>5. All(p, f, V, Q)
    BY <1>1, <1>3, <1>4 DEF All
<1> QED
    BY <1>2, <1>5 DEF At, V

-----------------------------------------------------------------------------
(* A change of one inode or one dentry.                                    *)

\* A tree in which inode i became n.
LEMMA InodeChanged ==
    ASSUME NEW p, NEW f, NEW g, NEW i, NEW n, NEW x, FsOK(p, f), i \in DOMAIN f.inode,
           DOMAIN g = {"inode", "dentry"}, g.dentry = f.dentry, g.inode = [f.inode EXCEPT ![i] = n],
           InodeOK(n), n.type = f.inode[i].type, n.dentry_lh = f.inode[i].dentry_lh,
           Ready(p, f.inode[i]) => Ready(p, n),
           x = i \/ n.loads = f.inode[i].loads
    PROVE  /\ FsOK(p, g) /\ Stays(p, f, g, x, NULL)
           /\ DOMAIN g.inode = DOMAIN f.inode /\ g.inode[i] = n
           /\ \A j \in DOMAIN f.inode : j # i => g.inode[j] = f.inode[j]
<1>1. /\ Sequence(f.inode) /\ Sequence(f.dentry) /\ ROOT \in DOMAIN f.inode
      /\ Sequence(g.inode) /\ DOMAIN g.inode = DOMAIN f.inode
      /\ \A j \in DOMAIN f.inode : g.inode[j] = IF j = i THEN n ELSE f.inode[j]
  <2>1. Sequence(f.inode) /\ Sequence(f.dentry) /\ ROOT \in DOMAIN f.inode
    BY DEF FsOK
  <2> DEFINE s == f.inode
             r == g.inode
  <2>2. Sequence(s) /\ r = [s EXCEPT ![i] = n]
    BY <2>1
  <2> HIDE DEF s, r
  <2>3. Sequence(r) /\ DOMAIN r = DOMAIN s /\ \A j \in DOMAIN s : r[j] = IF j = i THEN n ELSE s[j]
    BY <2>2, ExceptElements
  <2> QED
    BY <2>1, <2>3 DEF s, r
<1>2. g.inode[i] = n /\ \A j \in DOMAIN f.inode : j # i => g.inode[j] = f.inode[j]
    BY <1>1
<1>3. \A j \in DOMAIN f.inode : /\ g.inode[j].type = f.inode[j].type
                                /\ g.inode[j].dentry_lh = f.inode[j].dentry_lh
                                /\ Ready(p, f.inode[j]) => Ready(p, g.inode[j])
                                /\ InodeOK(g.inode[j])
                                /\ j # x => g.inode[j].loads = f.inode[j].loads
    BY <1>2 DEF FsOK
<1>4. Len(f.dentry) \in Nat
    BY <1>1, SequenceDomain
<1>5. Stays(p, f, g, x, NULL)
    BY <1>1, <1>3, <1>4 DEF Stays
<1>6. \A k \in DOMAIN f.dentry :
          /\ DOMAIN f.dentry[k] = DentryFields
          /\ f.dentry[k].inode \in DOMAIN f.inode \cup {NULL}
          /\ f.dentry[k].mounted_inode # NULL =>
                /\ f.dentry[k].mounted_inode \in DOMAIN f.inode
                /\ f.inode[f.dentry[k].mounted_inode].type = "dir"
                /\ Ready(p, f.inode[f.dentry[k].mounted_inode])
          /\ f.dentry[k].inode # NULL /\ f.dentry[k].name # <<>> => Ready(p, f.inode[f.dentry[k].inode])
    BY DEF FsOK
<1>7. \A k \in DOMAIN f.dentry :
          /\ f.dentry[k].mounted_inode # NULL =>
                /\ f.dentry[k].mounted_inode \in DOMAIN f.inode
                /\ g.inode[f.dentry[k].mounted_inode].type = "dir"
                /\ Ready(p, g.inode[f.dentry[k].mounted_inode])
          /\ f.dentry[k].inode # NULL /\ f.dentry[k].name # <<>> => Ready(p, g.inode[f.dentry[k].inode])
    BY <1>3, <1>6
<1>8. \A j \in DOMAIN f.inode : \A k \in DOMAIN g.inode[j].dentry_lh :
          /\ g.inode[j].dentry_lh[k] \in DOMAIN f.dentry
          /\ f.dentry[g.inode[j].dentry_lh[k]].inode \in DOMAIN f.inode
    BY <1>3 DEF FsOK
<1>9. \A k, l \in DOMAIN f.dentry :
          f.dentry[k].inode = f.dentry[l].inode /\ f.dentry[k].inode # NULL => k = l
    BY DEF FsOK
<1>10. FsOK(p, g)
    BY <1>1, <1>3, <1>6, <1>7, <1>8, <1>9 DEF FsOK
<1> QED
    BY <1>1, <1>2, <1>5, <1>10

\* A tree in which dentry k became d.
LEMMA DentryChanged ==
    ASSUME NEW p, NEW f, NEW g, NEW k, NEW d, NEW y, FsOK(p, f), k \in DOMAIN f.dentry,
           DOMAIN g = {"inode", "dentry"}, g.inode = f.inode, g.dentry = [f.dentry EXCEPT ![k] = d],
           DOMAIN d = DentryFields, d.inode = f.dentry[k].inode,
           d.mounted_inode # NULL => /\ d.mounted_inode \in DOMAIN f.inode
                                     /\ f.inode[d.mounted_inode].type = "dir"
                                     /\ Ready(p, f.inode[d.mounted_inode]),
           d.inode # NULL /\ d.name # <<>> => Ready(p, f.inode[d.inode]),
           y = k \/ d.name = f.dentry[k].name
    PROVE  FsOK(p, g) /\ Stays(p, f, g, NULL, y)
<1>1. /\ Sequence(f.inode) /\ Sequence(f.dentry) /\ ROOT \in DOMAIN f.inode
      /\ Sequence(g.dentry) /\ DOMAIN g.dentry = DOMAIN f.dentry /\ Len(g.dentry) = Len(f.dentry)
      /\ \A j \in DOMAIN f.dentry : g.dentry[j] = IF j = k THEN d ELSE f.dentry[j]
  <2>1. Sequence(f.inode) /\ Sequence(f.dentry) /\ ROOT \in DOMAIN f.inode
    BY DEF FsOK
  <2> DEFINE s == f.dentry
             r == g.dentry
  <2>2. Sequence(s) /\ r = [s EXCEPT ![k] = d]
    BY <2>1
  <2> HIDE DEF s, r
  <2>3. Sequence(r) /\ DOMAIN r = DOMAIN s /\ \A j \in DOMAIN s : r[j] = IF j = k THEN d ELSE s[j]
    BY <2>2, ExceptElements
  <2>4. Len(r) = Len(s)
    <3>1. Len(r) \in Nat /\ Len(s) \in Nat /\ 1 .. Len(r) = 1 .. Len(s)
      BY <2>2, <2>3, SequenceDomain
    <3> QED
      BY <3>1
  <2> QED
    BY <2>1, <2>3, <2>4 DEF s, r
<1>2. g.dentry[k] = d /\ \A j \in DOMAIN f.dentry : j # k => g.dentry[j] = f.dentry[j]
    BY <1>1
<1>3. \A j \in DOMAIN f.dentry : g.dentry[j].inode = f.dentry[j].inode
    BY <1>2
<1>4. Len(f.dentry) \in Nat
    BY <1>1, SequenceDomain
<1>5. Stays(p, f, g, NULL, y)
    BY <1>1, <1>2, <1>3, <1>4 DEF Stays
<1>6. \A j \in DOMAIN f.dentry :
          /\ DOMAIN f.dentry[j] = DentryFields
          /\ f.dentry[j].inode \in DOMAIN f.inode \cup {NULL}
          /\ f.dentry[j].mounted_inode # NULL =>
                /\ f.dentry[j].mounted_inode \in DOMAIN f.inode
                /\ f.inode[f.dentry[j].mounted_inode].type = "dir"
                /\ Ready(p, f.inode[f.dentry[j].mounted_inode])
          /\ f.dentry[j].inode # NULL /\ f.dentry[j].name # <<>> => Ready(p, f.inode[f.dentry[j].inode])
    BY DEF FsOK
<1>7. \A j \in DOMAIN f.dentry :
          /\ DOMAIN g.dentry[j] = DentryFields
          /\ g.dentry[j].inode \in DOMAIN f.inode \cup {NULL}
          /\ g.dentry[j].mounted_inode # NULL =>
                /\ g.dentry[j].mounted_inode \in DOMAIN f.inode
                /\ f.inode[g.dentry[j].mounted_inode].type = "dir"
                /\ Ready(p, f.inode[g.dentry[j].mounted_inode])
          /\ g.dentry[j].inode # NULL /\ g.dentry[j].name # <<>> => Ready(p, f.inode[g.dentry[j].inode])
    BY <1>2, <1>3, <1>6
<1>8. \A i \in DOMAIN f.inode : /\ InodeOK(f.inode[i])
                                /\ \A j \in DOMAIN f.inode[i].dentry_lh :
                                      /\ f.inode[i].dentry_lh[j] \in DOMAIN f.dentry
                                      /\ g.dentry[f.inode[i].dentry_lh[j]].inode \in DOMAIN f.inode
    BY <1>3 DEF FsOK
<1>9. \A j, l \in DOMAIN f.dentry :
          g.dentry[j].inode = g.dentry[l].inode /\ g.dentry[j].inode # NULL => j = l
    BY <1>3 DEF FsOK
<1>10. FsOK(p, g)
    BY <1>1, <1>7, <1>8, <1>9 DEF FsOK
<1> QED
    BY <1>5, <1>10

-----------------------------------------------------------------------------
(* New nodes.                                                              *)

\* Lengths.
LEMMA Lengths ==
    ASSUME NEW a \in Nat, NEW b \in Nat
    PROVE  a # a + 1 /\ (1 .. a = 1 .. b => a = b)
    OBVIOUS

\* An inode that was just made.
Blank(n) == InodeOK(n) /\ n.loads = 0 /\ n.clusters = <<>> /\ n.dentry_lh = <<>>

\* Nothing is a sequence.
LEMMA EmptySequence ==
    ASSUME TRUE
    PROVE  Sequence(<<>>)
<1>1. <<>> \in Seq({})
    BY EmptySeq
<1> QED
    BY <1>1 DEF Sequence

\* No cluster is a chain.
LEMMA NoChain ==
    ASSUME NEW start
    PROVE  \E c : IsChain(c, start, 0)
<1> DEFINE c == <<>>
<1>1. 1 .. 0 = {} /\ 1 .. 0 - 1 = {} /\ ~ (0 > 0)
    OBVIOUS
<1> HIDE DEF c
<1>2. IsChain(c, start, 0)
    BY <1>1 DEF IsChain
<1> QED
    BY <1>2

\* NewInode makes one that need not be loaded.
LEMMA NewInodeBlank ==
    ASSUME NEW type, NEW superblock
    PROVE  LET n == NewInode(type, superblock)
           IN /\ Blank(n) /\ ~ n.load_needed /\ n.type = type /\ n.start = NULL /\ n.file_length = 0
              /\ DOMAIN n = InodeFields
<1> DEFINE n == NewInode(type, superblock)
<1>1. /\ n.type = type /\ n.dentry_lh = <<>> /\ n.clusters = <<>> /\ n.load_needed = FALSE /\ n.loads = 0
      /\ n.file_length = 0 /\ DOMAIN n = InodeFields /\ n.start = NULL
    BY DEF NewInode, InodeFields
<1> HIDE DEF n
<1>2. InodeOK(n)
  <2>1. n.loads \in Nat /\ n.load_needed \in BOOLEAN /\ ~ n.load_needed /\ n.file_length \in Nat
    <3>1. 0 \in Nat
      OBVIOUS
    <3> QED
      BY <1>1, <3>1, Zenon
  <2>2. Sequence(n.clusters) /\ Sequence(n.dentry_lh)
    BY <1>1, EmptySequence, Zenon
  <2> QED
    BY <1>1, <2>1, <2>2, Zenon DEF InodeOK
<1> QED
    BY <1>1, <1>2 DEF Blank, n

\* A new entry of a directory.
LEMMA AddEntryGrown ==
    ASSUME NEW p, NEW f, NEW dir, NEW name, NEW n, FsOK(p, f), Blank(n), name = <<>> \/ Ready(p, n)
    PROVE  Grown(p, f, AddEntry(f, dir, name, n), n)
<1> DEFINE g == AddEntry(f, dir, name, n)
           s == f.inode
           e == [s[dir] EXCEPT !.dentry_lh = Append(@, Len(f.dentry) + 1)]
           r == [s EXCEPT ![dir] = e]
           d == f.dentry
           b == NewDentry(name, Len(f.inode) + 1)
<1>1. /\ DOMAIN g = {"inode", "dentry"} /\ g.inode = Append(r, n) /\ g.dentry = Append(d, b)
    BY DEF AddEntry
<1>2. Sequence(s) /\ Sequence(d)
    BY DEF FsOK
<1>3. DOMAIN b = DentryFields /\ b.name = name /\ b.inode = Len(s) + 1 /\ b.mounted_inode = NULL
    BY DEF NewDentry, DentryFields
<1> HIDE DEF g, e
<1>4. Sequence(r) /\ DOMAIN r = DOMAIN s /\ \A j \in DOMAIN s : r[j] = IF j = dir THEN e ELSE s[j]
  <2> HIDE DEF s
  <2> DEFINE q == [s EXCEPT ![dir] = e]
  <2>1. q = [s EXCEPT ![dir] = e]
    OBVIOUS
  <2> HIDE DEF q
  <2>2. Sequence(q) /\ DOMAIN q = DOMAIN s /\ \A j \in DOMAIN s : q[j] = IF j = dir THEN e ELSE s[j]
    BY <1>2, <2>1, ExceptElements
  <2> QED
    BY <2>1, <2>2
<1> HIDE DEF r, s, d, b
<1>5. /\ Len(s) \in Nat /\ DOMAIN s = 1 .. Len(s) /\ Len(d) \in Nat /\ DOMAIN d = 1 .. Len(d)
      /\ Len(r) \in Nat /\ DOMAIN r = 1 .. Len(r)
    BY <1>2, <1>4, SequenceDomain
<1>6. Len(r) = Len(s)
  <2>1. 1 .. Len(r) = 1 .. Len(s)
    BY <1>4, <1>5
  <2>2. Len(r) \in Nat /\ Len(s) \in Nat
    BY <1>5
  <2> QED
    BY <2>1, <2>2, Lengths, Zenon
<1>7. /\ Sequence(Append(r, n)) /\ Len(Append(r, n)) = Len(s) + 1
      /\ \A i \in 1 .. Len(s) : Append(r, n)[i] = r[i]
      /\ Append(r, n)[Len(s) + 1] = n
    BY <1>4, <1>6, AppendElements
<1>8. /\ Sequence(Append(d, b)) /\ Len(Append(d, b)) = Len(d) + 1
      /\ \A i \in 1 .. Len(d) : Append(d, b)[i] = d[i]
      /\ Append(d, b)[Len(d) + 1] = b
    BY <1>2, AppendElements
<1>9. \A i \in DOMAIN s : g.inode[i] = s[i] \/ g.inode[i] = [s[i] EXCEPT !.dentry_lh = Append(@, Len(d) + 1)]
  <2>1. \A i \in DOMAIN s : g.inode[i] = IF i = dir THEN e ELSE s[i]
    BY <1>1, <1>4, <1>5, <1>7
  <2>2. e = [s[dir] EXCEPT !.dentry_lh = Append(@, Len(d) + 1)]
    BY DEF e, s, d
  <2> QED
    BY <2>1, <2>2
<1>10. \A k \in DOMAIN d : g.dentry[k] = d[k]
    BY <1>1, <1>5, <1>8
<1>11. /\ Sequence(g.inode) /\ Sequence(g.dentry)
       /\ Len(g.inode) = Len(s) + 1 /\ Len(g.dentry) = Len(d) + 1
       /\ g.inode[Len(s) + 1] = n /\ g.dentry[Len(d) + 1] = b
    BY <1>1, <1>7, <1>8
<1>12. Grown(p, f, g, n)
    BY <1>1, <1>3, <1>9, <1>10, <1>11 DEF Grown, Blank, s, d
<1> QED
    BY <1>12 DEF g

\* A new inode that no directory lists, and a dentry for none.
LEMMA AppendGrown ==
    ASSUME NEW p, NEW f, NEW n, NEW b, FsOK(p, f), Blank(n),
           DOMAIN b = DentryFields, b.inode = NULL, b.mounted_inode = NULL, Ready(p, n)
    PROVE  /\ Grown(p, f, [inode |-> Append(f.inode, n), dentry |-> Append(f.dentry, b)], n)
           /\ Grown(p, f, [inode |-> Append(f.inode, n), dentry |-> f.dentry], n)
<1> DEFINE s == f.inode
           d == f.dentry
           g == [inode |-> Append(s, n), dentry |-> Append(d, b)]
           h == [inode |-> Append(s, n), dentry |-> d]
<1>1. /\ DOMAIN g = {"inode", "dentry"} /\ g.inode = Append(s, n) /\ g.dentry = Append(d, b)
      /\ DOMAIN h = {"inode", "dentry"} /\ h.inode = Append(s, n) /\ h.dentry = d
    OBVIOUS
<1>2. Sequence(s) /\ Sequence(d)
    BY DEF FsOK
<1> HIDE DEF g, h, s, d
<1>3. Len(s) \in Nat /\ DOMAIN s = 1 .. Len(s) /\ Len(d) \in Nat /\ DOMAIN d = 1 .. Len(d)
    BY <1>2, SequenceDomain
<1>4. /\ Sequence(Append(s, n)) /\ Len(Append(s, n)) = Len(s) + 1
      /\ \A i \in 1 .. Len(s) : Append(s, n)[i] = s[i]
      /\ Append(s, n)[Len(s) + 1] = n
    BY <1>2, AppendElements
<1>5. /\ Sequence(Append(d, b)) /\ Len(Append(d, b)) = Len(d) + 1
      /\ \A i \in 1 .. Len(d) : Append(d, b)[i] = d[i]
      /\ Append(d, b)[Len(d) + 1] = b
    BY <1>2, AppendElements
<1>6. /\ \A i \in DOMAIN s : g.inode[i] = s[i] /\ h.inode[i] = s[i]
      /\ \A k \in DOMAIN d : g.dentry[k] = d[k] /\ h.dentry[k] = d[k]
    BY <1>1, <1>3, <1>4, <1>5
<1>7. /\ Sequence(g.inode) /\ Sequence(g.dentry) /\ Len(g.inode) = Len(s) + 1 /\ Len(g.dentry) = Len(d) + 1
      /\ g.inode[Len(s) + 1] = n /\ g.dentry[Len(d) + 1] = b
      /\ Sequence(h.inode) /\ Sequence(h.dentry) /\ Len(h.inode) = Len(s) + 1 /\ Len(h.dentry) = Len(d)
      /\ h.inode[Len(s) + 1] = n
    BY <1>1, <1>2, <1>4, <1>5
<1>8. Grown(p, f, g, n)
    BY <1>1, <1>6, <1>7 DEF Grown, Blank, s, d
<1>9. Len(d) # Len(d) + 1
    BY <1>3, Lengths, Zenon
<1>10. Grown(p, f, h, n)
    BY <1>1, <1>6, <1>7, <1>9 DEF Grown, Blank, s, d
<1> QED
    BY <1>8, <1>10 DEF g, h, s, d

\* vfs_mkdir, vfs_create and vfs_mknod add a node.
LEMMA MakeGrown ==
    ASSUME NEW p, NEW f, NEW dir, NEW name, NEW device, FsOK(p, f)
    PROVE  /\ \E n : Grown(p, f, vfs_mkdir(f, dir, name), n)
           /\ \E n : Grown(p, f, vfs_create(f, dir, name), n)
           /\ \E n : Grown(p, f, vfs_mknod(f, dir, name, device), n)
<1>1. ASSUME NEW type, NEW superblock
      PROVE  Blank(NewInode(type, superblock)) /\ Ready(p, NewInode(type, superblock))
    BY NewInodeBlank DEF Ready
<1>2. \A type : Grown(p, f, create_inode(f, dir, name, type), NewInode(type, f.inode[dir].superblock))
    BY <1>1, AddEntryGrown DEF create_inode
<1>3. \E n : Grown(p, f, vfs_mkdir(f, dir, name), n)
  <2> DEFINE n == NewInode("none", "none")
             b == NewDentry(name, NULL)
  <2>1. Blank(n) /\ Ready(p, n)
    BY <1>1
  <2>2. DOMAIN b = DentryFields /\ b.inode = NULL /\ b.mounted_inode = NULL
    BY DEF NewDentry, DentryFields
  <2> HIDE DEF n, b
  <2>3. Grown(p, f, [inode |-> Append(f.inode, n), dentry |-> Append(f.dentry, b)], n)
    BY <2>1, <2>2, AppendGrown
  <2> QED
    BY <1>2, <2>3 DEF vfs_mkdir, n, b
<1>4. \E n : Grown(p, f, vfs_create(f, dir, name), n)
    BY <1>2 DEF vfs_create
<1>5. \E n : Grown(p, f, vfs_mknod(f, dir, name, device), n)
  <2> DEFINE a == NewInode("dev", f.inode[dir].superblock)
             n == [a EXCEPT !.device = device]
  <2>1. Blank(a) /\ ~ a.load_needed /\ a.type = "dev" /\ DOMAIN a = InodeFields
    BY NewInodeBlank
  <2> HIDE DEF a
  <2>2. /\ DOMAIN n = InodeFields /\ n.loads = a.loads /\ n.clusters = a.clusters /\ n.dentry_lh = a.dentry_lh
        /\ n.load_needed = a.load_needed /\ n.type = "dev" /\ n.file_length = a.file_length
    BY <2>1 DEF InodeFields
  <2> HIDE DEF n
  <2>3. Blank(n) /\ Ready(p, n)
    BY <2>1, <2>2 DEF Blank, InodeOK, Ready
  <2>4. Grown(p, f, AddEntry(f, dir, name, n), n)
    BY <2>3, AddEntryGrown
  <2>5. vfs_mknod(f, dir, name, device) = AddEntry(f, dir, name, n)
    BY DEF vfs_mknod, n, a
  <2> QED
    BY <2>4, <2>5
<1> QED
    BY <1>3, <1>4, <1>5

-----------------------------------------------------------------------------
(* Walking a path.                                                         *)

\* A dentry names the inode.
Named(f, i) == \E k \in DOMAIN f.dentry : f.dentry[k].inode = i /\ f.dentry[k].name # <<>>

\* What is true of a walk on the way, and where it ends or finds an inode to load.
OnTheWay(p, f, dev, v) ==
    /\ DOMAIN v = WalkFields /\ v.buf \in Nat \ {0} /\ v.inode \in DOMAIN f.inode /\ v.device = dev
    /\ v.status \in {"walk", "exists", "not a directory", "could exist", "no parent", "load"}
    /\ v.status = "load" => /\ f.inode[v.inode].load_needed
                            /\ Ready(p, f.inode[v.inode])
                            /\ f.inode[v.inode].type = "dir" \/ Named(f, v.inode)

\* The slashes end.
LEMMA SlashesEnd ==
    ASSUME NEW path, Sequence(path), NEW b \in 1 .. Len(path) + 1
    PROVE  SkipSlashes(path, b) \in b .. Len(path) + 1
<1> DEFINE n == Len(path)
           T == {k \in b .. n + 1 : k <= n => path[k] # SLASH}
           Q(k) == /\ k <= n => path[k] # SLASH
                   /\ \A j \in b .. k - 1 : path[j] = SLASH
<1>1. n \in Nat
    BY SequenceDomain
<1> HIDE DEF n
<1>2. b \in 1 .. n + 1
    BY DEF n
<1>3. n + 1 \in T /\ T \in SUBSET Nat
    BY <1>1, <1>2
<1>4. PICK k \in T : \A j \in T : k <= j
    BY <1>3, LeastNatural
<1>5. k \in b .. n + 1 /\ (k <= n => path[k] # SLASH)
    BY <1>4
<1>6. ASSUME NEW j \in b .. k - 1 PROVE path[j] = SLASH
  <2>1. j \in b .. n + 1 /\ j <= n /\ ~ (k <= j)
    BY <1>1, <1>2, <1>5
  <2> QED
    BY <1>4, <2>1
<1>7. \E m \in b .. n + 1 : Q(m)
    BY <1>5, <1>6
<1>8. SkipSlashes(path, b) = CHOOSE m \in b .. n + 1 : Q(m)
    BY DEF SkipSlashes, n
<1> HIDE DEF Q
<1>9. SkipSlashes(path, b) \in b .. n + 1
    BY <1>7, <1>8
<1> QED
    BY <1>9 DEF n

\* The first dentry with a name is one of the directory's, and has that name.
LEMMA FirstMatches ==
    ASSUME NEW f, NEW dir, NEW name, Sequence(f.inode[dir].dentry_lh), FirstMatch(f, dir, name) # NULL
    PROVE  \E k \in DOMAIN f.inode[dir].dentry_lh :
              FirstMatch(f, dir, name) = f.inode[dir].dentry_lh[k] /\ f.dentry[FirstMatch(f, dir, name)].name = name
<1> DEFINE lh == f.inode[dir].dentry_lh
           matching == {k \in DOMAIN lh : f.dentry[lh[k]].name = name}
           k0 == CHOOSE k \in matching : \A j \in matching : k <= j
<1>1. FirstMatch(f, dir, name) = IF matching = {} THEN NULL ELSE lh[k0]
    BY DEF FirstMatch
<1>2. matching # {} /\ FirstMatch(f, dir, name) = lh[k0]
    BY <1>1
<1>3. matching \in SUBSET Nat
  <2>1. DOMAIN lh = 1 .. Len(lh) /\ Len(lh) \in Nat
    BY SequenceDomain
  <2> QED
    BY <2>1
<1>4. \A k \in matching : k \in DOMAIN lh /\ f.dentry[lh[k]].name = name
    OBVIOUS
<1> HIDE DEF matching
<1>5. \E k \in matching : \A j \in matching : k <= j
    BY <1>2, <1>3, LeastNatural
<1>6. k0 \in matching
    BY <1>5
<1> QED
    BY <1>2, <1>4, <1>6

\* One name further.
LEMMA WalkOneOnTheWay ==
    ASSUME NEW p, NEW f, NEW path, NEW dev, NEW w, FsOK(p, f), PathOK(path),
           OnTheWay(p, f, dev, w), w.status = "walk"
    PROVE  OnTheWay(p, f, dev, WalkOne(f, path, w))
<1> DEFINE b == SkipSlashes(path, w.buf)
           d == FirstMatch(f, w.inode, path[b])
           i == Through(f.dentry[d])
           v == WalkOne(f, path, w)
           Keeps(s) == v = [w EXCEPT !.status = s]
<1>1. \/ \E s \in {"exists", "not a directory"} : v = [w EXCEPT !.status = s]
      \/ /\ ~ (w.buf > Len(path)) /\ ~ (b > Len(path))
         /\ \/ \E s \in {"could exist", "no parent"} : v = [w EXCEPT !.status = s, !.buf = b]
            \/ /\ d # NULL
               /\ v = [w EXCEPT !.status = IF f.inode[i].load_needed THEN "load" ELSE "walk",
                                !.buf = b + 1, !.inode = i, !.dentry = d, !.parent = w.inode]
    BY DEF WalkOne
<1>2. /\ DOMAIN w = WalkFields /\ w.buf \in Nat \ {0} /\ w.inode \in DOMAIN f.inode /\ w.device = dev
    BY DEF OnTheWay
<1> HIDE DEF v
<1>3. CASE \E s \in {"exists", "not a directory"} : v = [w EXCEPT !.status = s]
  <2>1. PICK s \in {"exists", "not a directory"} : v = [w EXCEPT !.status = s]
    BY <1>3
  <2>2. DOMAIN v = WalkFields /\ v.buf = w.buf /\ v.inode = w.inode /\ v.device = dev /\ v.status = s
    BY <1>2, <2>1 DEF WalkFields
  <2> QED
    BY <1>2, <2>2 DEF OnTheWay, v
<1>4. CASE ~ (w.buf > Len(path)) /\ ~ (b > Len(path))
  <2>1. Sequence(path) /\ Len(path) \in Nat /\ DOMAIN path = 1 .. Len(path)
    BY SequenceDomain DEF PathOK, Sequence
  <2>2. w.buf \in 1 .. Len(path) + 1
    BY <1>2, <1>4, <2>1
  <2>3. b \in w.buf .. Len(path) + 1
    BY <2>1, <2>2, SlashesEnd
  <2> HIDE DEF b
  <2>4. b \in DOMAIN path /\ b \in Nat \ {0} /\ b + 1 \in Nat \ {0}
    BY <1>4, <2>1, <2>2, <2>3
  <2>5. CASE \E s \in {"could exist", "no parent"} : v = [w EXCEPT !.status = s, !.buf = b]
    <3>1. PICK s \in {"could exist", "no parent"} : v = [w EXCEPT !.status = s, !.buf = b]
      BY <2>5
    <3>2. DOMAIN v = WalkFields /\ v.buf = b /\ v.inode = w.inode /\ v.device = dev /\ v.status = s
      BY <1>2, <3>1 DEF WalkFields
    <3> QED
      BY <1>2, <2>4, <3>2 DEF OnTheWay, v
  <2>6. CASE /\ d # NULL
             /\ v = [w EXCEPT !.status = IF f.inode[i].load_needed THEN "load" ELSE "walk",
                              !.buf = b + 1, !.inode = i, !.dentry = d, !.parent = w.inode]
    <3> DEFINE lh == f.inode[w.inode].dentry_lh
    <3>1. /\ Sequence(lh)
          /\ \A k \in DOMAIN lh : lh[k] \in DOMAIN f.dentry /\ f.dentry[lh[k]].inode \in DOMAIN f.inode
      BY <1>2 DEF FsOK, InodeOK
    <3>2. PICK k \in DOMAIN lh : d = lh[k] /\ f.dentry[d].name = path[b]
      BY <2>6, <3>1, FirstMatches
    <3> HIDE DEF d, lh
    <3>3. d \in DOMAIN f.dentry /\ f.dentry[d].inode \in DOMAIN f.inode /\ f.dentry[d].name # <<>>
      BY <2>4, <3>1, <3>2 DEF PathOK
    <3>4. NULL \notin DOMAIN f.inode
      BY NullIsNone DEF FsOK
    <3>5. /\ i \in DOMAIN f.inode /\ Ready(p, f.inode[i])
          /\ f.inode[i].type = "dir" \/ Named(f, i)
      <4>1. CASE f.dentry[d].mounted_inode # NULL
        <5>1. i = f.dentry[d].mounted_inode
          BY <4>1 DEF Through
        <5> QED
          BY <3>3, <4>1, <5>1 DEF FsOK
      <4>2. CASE f.dentry[d].mounted_inode = NULL
        <5>1. i = f.dentry[d].inode
          BY <4>2 DEF Through
        <5>2. Ready(p, f.inode[i]) /\ i \in DOMAIN f.inode
          BY <3>3, <3>4, <5>1 DEF FsOK
        <5> QED
          BY <3>3, <5>1, <5>2 DEF Named
      <4> QED
        BY <4>1, <4>2
    <3> HIDE DEF i
    <3>6. /\ DOMAIN v = WalkFields /\ v.buf = b + 1 /\ v.inode = i /\ v.device = dev
          /\ v.status = IF f.inode[i].load_needed THEN "load" ELSE "walk"
      BY <1>2, <2>6 DEF WalkFields
    <3> QED
      BY <2>4, <3>5, <3>6 DEF OnTheWay, v
  <2> QED
    BY <1>1, <1>3, <1>4, <2>5, <2>6
<1> QED
    BY <1>1, <1>3, <1>4

-----------------------------------------------------------------------------
(* The loops, turn by turn.                                                *)

\* One turn of the loops over the names of a path, the entries of a page, of
\* the initramfs and of the partition table.
Turn(loop, x, k, v) ==
    CASE loop = "walk" -> IF v.status = "walk" THEN WalkOne(x.fs, x.path, v) ELSE v
      [] loop = "page" -> ParseEntry(v, x.dir, x.entries[k])
      [] loop = "tar"  -> Extract(v, TarEntries[k])
      [] loop = "gpt"  -> IF ~ GptEntries[k].used THEN v
                          ELSE vfs_mknod(v, DEV, GptEntries[k].name, <<"nvmepart", k>>)

\* Its turns, n of them, from v on.
Turns(a, n, loop, x, v) ==
    a = [k \in 0 .. n |-> IF k = 0 THEN v ELSE Turn(loop, x, k, a[k - 1])]

\* They can be taken.
LEMMA TurnsExist ==
    ASSUME NEW n \in Nat, NEW loop, NEW x, NEW v
    PROVE  \E a : Turns(a, n, loop, x, v)
<1> DEFINE T == {m \in Nat : ~ \E a : Turns(a, m, loop, x, v)}
<1> SUFFICES ASSUME T # {} PROVE FALSE
    OBVIOUS
<1>1. PICK m \in T : \A j \in T : m <= j
    BY LeastNatural
<1>2. m \in Nat /\ ~ \E a : Turns(a, m, loop, x, v)
    BY <1>1
<1>3. CASE m = 0
  <2> DEFINE a == [k \in 0 .. 0 |-> v]
  <2>1. a = [k \in 0 .. 0 |-> IF k = 0 THEN v ELSE Turn(loop, x, k, a[k - 1])]
    OBVIOUS
  <2> HIDE DEF a
  <2>2. Turns(a, 0, loop, x, v)
    BY <2>1 DEF Turns
  <2> QED
    BY <1>2, <1>3, <2>2
<1>4. CASE m # 0
  <2>1. m - 1 \in Nat /\ m - 1 \notin T
    BY <1>1, <1>2, <1>4
  <2>2. PICK a : Turns(a, m - 1, loop, x, v)
    BY <2>1
  <2> DEFINE b == [k \in 0 .. m |-> IF k <= m - 1 THEN a[k] ELSE Turn(loop, x, m, a[m - 1])]
             c == [k \in 0 .. m |-> IF k = 0 THEN v ELSE Turn(loop, x, k, b[k - 1])]
  <2>3. ASSUME NEW k \in 0 .. m PROVE b[k] = c[k]
    <3>1. \A j \in 0 .. m - 1 : a[j] = IF j = 0 THEN v ELSE Turn(loop, x, j, a[j - 1])
      BY <2>2 DEF Turns
    <3>2. \A j \in 0 .. m - 1 : b[j] = a[j]
      BY <1>2
    <3>3. CASE k = m
      <4>1. b[k] = Turn(loop, x, m, a[m - 1])
        BY <1>2, <3>3
      <4>2. b[m - 1] = a[m - 1]
        BY <1>2, <1>4, <3>2
      <4>3. c[k] = Turn(loop, x, m, b[m - 1])
        BY <1>4, <3>3
      <4> QED
        BY <4>1, <4>2, <4>3
    <3>4. CASE k # m
      <4>1. k \in 0 .. m - 1 /\ (k # 0 => k - 1 \in 0 .. m - 1)
        BY <1>2, <3>4
      <4>2. c[k] = IF k = 0 THEN v ELSE Turn(loop, x, k, b[k - 1])
        OBVIOUS
      <4> HIDE DEF b, c
      <4> QED
        BY <3>1, <3>2, <4>1, <4>2
    <3> QED
      BY <3>3, <3>4
  <2>4. b = c
    BY <2>3
  <2>5. \A e : e = [k \in 0 .. m |-> IF k = 0 THEN v ELSE Turn(loop, x, k, b[k - 1])] => e = c
    OBVIOUS
  <2>6. Turns(b, m, loop, x, v)
    <3> DEFINE r == b
    <3>1. r = [k \in 0 .. m |-> IF k = 0 THEN v ELSE Turn(loop, x, k, r[k - 1])]
      BY <2>4
    <3> HIDE DEF r
    <3>2. Turns(r, m, loop, x, v)
      BY <3>1 DEF Turns
    <3> QED
      BY <3>2 DEF r
  <2> QED
    BY <1>2, <2>6
<1> QED
    BY <1>3, <1>4

\* Walk takes them.
LEMMA WalkTurns ==
    ASSUME NEW f, NEW path, NEW w, Len(path) \in Nat
    PROVE  \E a : /\ Turns(a, Len(path) + 1, "walk", [fs |-> f, path |-> path], w)
                  /\ Walk(f, path, w) = a[Len(path) + 1]
<1> DEFINE n == Len(path) + 1
           F(a) == [k \in 0 .. n |->
                      IF k = 0 THEN w
                      ELSE IF a[k - 1].status = "walk" THEN WalkOne(f, path, a[k - 1]) ELSE a[k - 1]]
           after == CHOOSE a : a = F(a)
           x == [fs |-> f, path |-> path]
<1>1. Walk(f, path, w) = after[n]
    BY DEF Walk
<1>2. \A a : F(a) = [k \in 0 .. n |-> IF k = 0 THEN w ELSE Turn("walk", x, k, a[k - 1])]
    BY DEF Turn
<1>3. n \in Nat
    OBVIOUS
<1> HIDE DEF n, F, x
<1>4. \A a : Turns(a, n, "walk", x, w) <=> a = F(a)
    BY <1>2 DEF Turns
<1>5. \E a : a = F(a)
    BY <1>3, <1>4, TurnsExist
<1>6. after = F(after)
    BY <1>5
<1>7. Turns(after, n, "walk", x, w)
    BY <1>4, <1>6
<1> QED
    BY <1>1, <1>7 DEF n, x

-----------------------------------------------------------------------------
(* Inodes that are loaded.                                                 *)

\* The walk is on the way at every turn.
LEMMA WalkOnTheWay ==
    ASSUME NEW p, NEW f, NEW path, NEW dev, NEW w, FsOK(p, f), PathOK(path), OnTheWay(p, f, dev, w)
    PROVE  OnTheWay(p, f, dev, Walk(f, path, w))
<1> DEFINE n == Len(path) + 1
           x == [fs |-> f, path |-> path]
<1>1. Len(path) \in Nat /\ n \in Nat
    BY SequenceDomain DEF PathOK, Sequence
<1>2. PICK a : Turns(a, n, "walk", x, w) /\ Walk(f, path, w) = a[n]
    BY <1>1, WalkTurns
<1>3. x.fs = f /\ x.path = path
    OBVIOUS
<1> HIDE DEF n, x
<1> DEFINE T == {k \in 0 .. n : ~ OnTheWay(p, f, dev, a[k])}
<1>4. SUFFICES ASSUME T # {} PROVE FALSE
  <2>1. n \in 0 .. n
    BY <1>1
  <2> QED
    BY <1>2, <2>1
<1>5. T \in SUBSET Nat
    BY <1>1
<1>6. PICK k \in T : \A j \in T : k <= j
    BY <1>4, <1>5, LeastNatural
<1>7. k \in 0 .. n /\ ~ OnTheWay(p, f, dev, a[k])
    BY <1>6
<1>8. a[k] = IF k = 0 THEN w ELSE Turn("walk", x, k, a[k - 1])
    BY <1>2, <1>7 DEF Turns
<1>9. k # 0
    BY <1>7, <1>8
<1>10. OnTheWay(p, f, dev, a[k - 1])
  <2>1. k - 1 \in 0 .. n /\ ~ (k <= k - 1)
    BY <1>1, <1>7, <1>9
  <2> QED
    BY <1>6, <2>1
<1>11. a[k] = IF a[k - 1].status = "walk" THEN WalkOne(f, path, a[k - 1]) ELSE a[k - 1]
    BY <1>3, <1>8, <1>9 DEF Turn
<1> QED
    BY <1>7, <1>10, <1>11, WalkOneOnTheWay

\* A walk on the way loads nothing.
LEMMA OnTheWayQuiet ==
    ASSUME NEW p, NEW f, NEW dev, NEW w, OnTheWay(p, f, dev, w), NEW q
    PROVE  WalkOK(p, f, w, q) /\ ~ InDir(w) /\ w.status # "file fat"
    BY DEF OnTheWay, WalkOK, InDir

\* Tree g is f with inode n for number i.
Put(f, g, i, n) ==
    /\ DOMAIN g = {"inode", "dentry"} /\ g.dentry = f.dentry /\ g.inode = [f.inode EXCEPT ![i] = n]
    /\ DOMAIN g.inode = DOMAIN f.inode /\ g.inode[i] = n

\* A step of task t that changes inode i to n: how often it was loaded changes
\* only if other tasks are not about to fill it.
LEMMA InodeStep ==
    ASSUME NEW p, NEW f, NEW g, NEW i, NEW n, NEW W, NEW t \in Tasks, NEW v, NEW q0, NEW w, NEW q,
           At(p, f, W, t, v, q0), i \in DOMAIN f.inode,
           Put(f, g, i, n),
           InodeOK(n), n.type = f.inode[i].type, n.dentry_lh = f.inode[i].dentry_lh,
           Ready(p, f.inode[i]) => Ready(p, n),
           n.loads = f.inode[i].loads \/ f.inode[i].type = "dir" \/ Named(f, i),
           WalkOK(p, g, w, q),
           \A j \in DOMAIN f.inode : j # i => ~ InFile(w, j),
           n.type = "file" => FileOK(n, i, With(W, t, w)),
           \A u \in Tasks : u # t /\ InDir(w) /\ InDir(W[u])
                               /\ (q \in {"file", "dir"} \/ PhaseOf(p, W[u]) \in {"file", "dir"})
                            => w.cur # W[u].cur
    PROVE  At(p, g, W, t, w, q)
<1> DEFINE x == IF n.loads = f.inode[i].loads THEN NULL ELSE i
<1>1. /\ FsOK(p, f)
      /\ \A u \in Tasks : u # t => WalkOK(p, f, W[u], PhaseOf(p, W[u]))
    BY AtParts
<1>2. x = i \/ n.loads = f.inode[i].loads
    OBVIOUS
<1>3. x = NULL \/ (x = i /\ (f.inode[i].type = "dir" \/ Named(f, i)))
    OBVIOUS
<1> HIDE DEF x
<1>4. /\ FsOK(p, g) /\ Stays(p, f, g, x, NULL)
      /\ DOMAIN g.inode = DOMAIN f.inode /\ g.inode[i] = n
      /\ \A j \in DOMAIN f.inode : j # i => g.inode[j] = f.inode[j]
    BY <1>1, <1>2, InodeChanged DEF Put
<1>5. ASSUME NEW u \in Tasks, u # t PROVE Apart(f, W[u], PhaseOf(p, W[u]), x, NULL)
  <2> DEFINE s == PhaseOf(p, W[u])
  <2>1. WalkOK(p, f, W[u], s)
    BY <1>1, <1>5
  <2> HIDE DEF s
  <2>2. Apart(f, W[u], s, NULL, NULL)
    BY <2>1, ApartFromNone
  <2>3. CASE x = NULL
    BY <2>2, <2>3 DEF s
  <2>4. CASE x = i /\ (f.inode[i].type = "dir" \/ Named(f, i))
    <3>1. ASSUME InDir(W[u]), s = "file" PROVE f.dentry[W[u].cur].inode # i
      <4> DEFINE c == W[u].cur
      <4>1. /\ c \in 0 .. Len(f.dentry) /\ c # 0
            /\ f.dentry[c].name = <<>> /\ f.inode[f.dentry[c].inode].type = "file"
        BY <2>1, <3>1 DEF WalkOK, Filling
      <4>2. c \in DOMAIN f.dentry
        BY <1>1, <4>1, SequenceDomain DEF FsOK
      <4> HIDE DEF c
      <4>3. i # NULL
        BY <1>1, NullIsNone DEF FsOK
      <4>4. ASSUME f.dentry[c].inode = i PROVE FALSE
        <5>1. f.inode[i].type = "file"
          BY <4>1, <4>4
        <5>2. Named(f, i)
          BY <2>4, <5>1
        <5>3. PICK k \in DOMAIN f.dentry : f.dentry[k].inode = i /\ f.dentry[k].name # <<>>
          BY <5>2 DEF Named
        <5>4. k = c
          BY <1>1, <4>2, <4>3, <4>4, <5>3 DEF FsOK
        <5> QED
          BY <4>1, <5>3, <5>4
      <4> QED
        BY <4>4 DEF c
    <3> QED
      BY <2>2, <2>4, <3>1 DEF Apart, s
  <2> QED
    BY <1>3, <2>3, <2>4
<1>6. \A j \in DOMAIN f.inode : j # i => SameFields(f.inode[j], g.inode[j]) /\ ~ InFile(w, j)
    BY <1>4 DEF SameFields
<1>7. i \in DOMAIN f.inode /\ g.inode[i].type = "file" => FileOK(g.inode[i], i, With(W, t, w))
    BY <1>4
<1> QED
    BY <1>4, <1>5, <1>6, <1>7, AtStep

\* An inode whose load has ended, and one whose load begins.
Done(n) == [n EXCEPT !.load_needed = FALSE]
Begun(n) == [n EXCEPT !.loads = @ + 1]
LoadBegun(f, i) == [f EXCEPT !.inode[i].loads = @ + 1]

IsDone(a, n) ==
    /\ n.load_needed = FALSE /\ n.type = a.type /\ n.dentry_lh = a.dentry_lh
    /\ n.start = a.start /\ n.file_length = a.file_length
    /\ n.clusters = a.clusters /\ n.loads = a.loads /\ InodeOK(n)
IsBegun(a, n) ==
    /\ n.loads = a.loads + 1 /\ n.type = a.type /\ n.dentry_lh = a.dentry_lh
    /\ n.load_needed = a.load_needed /\ n.start = a.start /\ n.file_length = a.file_length
    /\ n.clusters = a.clusters /\ InodeOK(n)

\* Inode i, when its load has ended.
LEMMA LoadDoneFields ==
    ASSUME NEW p, NEW f, NEW i, FsOK(p, f), i \in DOMAIN f.inode
    PROVE  Put(f, LoadDone(f, i), i, Done(f.inode[i])) /\ IsDone(f.inode[i], Done(f.inode[i]))
<1> DEFINE a == f.inode[i]
           n == Done(a)
           g == LoadDone(f, i)
<1>1. DOMAIN f = {"inode", "dentry"} /\ InodeOK(a)
    BY DEF FsOK
<1>2. g = [f EXCEPT !.inode[i].load_needed = FALSE]
    BY DEF LoadDone
<1>3. Put(f, g, i, n)
    BY <1>1, <1>2 DEF Put, Done
<1>4. n = [a EXCEPT !.load_needed = FALSE]
    BY DEF Done
<1> HIDE DEF a, n
<1>5. DOMAIN a = InodeFields
    BY <1>1 DEF InodeOK
<1>6. /\ n.load_needed = FALSE /\ n.type = a.type /\ n.dentry_lh = a.dentry_lh
      /\ n.start = a.start /\ n.file_length = a.file_length
      /\ n.clusters = a.clusters /\ n.loads = a.loads /\ DOMAIN n = InodeFields
    BY <1>4, <1>5 DEF InodeFields
<1>7. InodeOK(n)
    BY <1>1, <1>6 DEF InodeOK
<1> QED
    BY <1>3, <1>6, <1>7 DEF a, n, IsDone

\* Inode i, when its load begins.
LEMMA LoadBegins ==
    ASSUME NEW p, NEW f, NEW i, FsOK(p, f), i \in DOMAIN f.inode
    PROVE  Put(f, LoadBegun(f, i), i, Begun(f.inode[i])) /\ IsBegun(f.inode[i], Begun(f.inode[i]))
<1> DEFINE a == f.inode[i]
           n == Begun(a)
           g == LoadBegun(f, i)
<1>1. DOMAIN f = {"inode", "dentry"} /\ InodeOK(a)
    BY DEF FsOK
<1>2. Put(f, g, i, n)
    BY <1>1 DEF Put, Begun, LoadBegun
<1>3. n = [a EXCEPT !.loads = @ + 1]
    BY DEF Begun
<1> HIDE DEF a, n
<1>4. DOMAIN a = InodeFields
    BY <1>1 DEF InodeOK
<1>5. /\ n.loads = a.loads + 1 /\ n.type = a.type /\ n.dentry_lh = a.dentry_lh
      /\ n.load_needed = a.load_needed /\ n.start = a.start /\ n.file_length = a.file_length
      /\ n.clusters = a.clusters /\ DOMAIN n = InodeFields
    BY <1>3, <1>4 DEF InodeFields
<1>6. InodeOK(n)
    BY <1>1, <1>5 DEF InodeOK
<1> QED
    BY <1>2, <1>5, <1>6 DEF a, n, IsBegun

\* The load of inode i has ended, and what is then known of it is right.
LEMMA LoadEnds ==
    ASSUME NEW p, NEW f, NEW i, NEW W, NEW t \in Tasks, NEW v, NEW q0, NEW w, NEW q,
           At(p, f, W, t, v, q0), i \in DOMAIN f.inode,
           WalkOK(p, f, w, q), ~ InDir(w), w.status # "file fat",
           f.inode[i].type = "file" =>
               FileOK(Done(f.inode[i]), i, With(W, t, w))
    PROVE  At(p, LoadDone(f, i), W, t, w, q)
<1> DEFINE n == Done(f.inode[i])
           g == LoadDone(f, i)
<1>1. FsOK(p, f)
    BY AtParts
<1>3. /\ f.inode[i].type = "file" => FileOK(n, i, With(W, t, w))
      /\ n = Done(f.inode[i]) /\ g = LoadDone(f, i)
    OBVIOUS
<1> HIDE DEF n, g
<1>2. Put(f, g, i, n) /\ IsDone(f.inode[i], n)
    BY <1>1, <1>3, LoadDoneFields
<1>4. Ready(p, n)
    BY <1>2 DEF Ready, IsDone
<1>5. DOMAIN g.inode = DOMAIN f.inode
    BY <1>2 DEF Put
<1>6. WalkOK(p, g, w, q)
    BY <1>5 DEF WalkOK
<1>7. n.type = "file" => FileOK(n, i, With(W, t, w))
    BY <1>2, <1>3 DEF IsDone
<1>8. \A j \in DOMAIN f.inode : j # i => ~ InFile(w, j)
    BY DEF InFile
<1>9. At(p, g, W, t, w, q)
    BY <1>2, <1>4, <1>6, <1>7, <1>8, InodeStep DEF IsDone
<1> QED
    BY <1>9 DEF g

\* The invariant with what a step of task t leads to.
Result(p, W, t, dev, r) == At(p, r.fs, W, t, r.w, PhaseOf(p, r.w)) /\ r.w.device = dev

\* A walk over a sound tree leads to a sound state.
LEMMA WalkResult ==
    ASSUME NEW p, NEW f, NEW path, NEW dev, NEW W, NEW t \in Tasks, NEW v, NEW q0, NEW w,
           At(p, f, W, t, v, q0), PathOK(path), OnTheWay(p, f, dev, w)
    PROVE  /\ OnTheWay(p, f, dev, Walk(f, path, w))
           /\ Result(p, W, t, dev, [fs |-> f, w |-> Walk(f, path, w)])
<1> DEFINE u == Walk(f, path, w)
           r == [fs |-> f, w |-> u]
<1>1. OnTheWay(p, f, dev, u)
    BY AtParts, WalkOnTheWay
<1> HIDE DEF u
<1>2. \A q : WalkOK(p, f, u, q) /\ ~ InDir(u) /\ u.status # "file fat"
    BY <1>1, OnTheWayQuiet
<1>3. At(p, f, W, t, u, PhaseOf(p, u))
    BY <1>2, AtQuiet
<1>4. r.fs = f /\ r.w = u
    OBVIOUS
<1> HIDE DEF r
<1>5. Result(p, W, t, dev, r)
    BY <1>1, <1>3, <1>4 DEF Result, OnTheWay
<1> QED
    BY <1>1, <1>5 DEF r, u

\* The load of a directory begins.
LEMMA LookupDir ==
    ASSUME NEW p, NEW f, NEW path, NEW dev, NEW W, NEW t \in Tasks, NEW v, NEW q0, NEW w,
           At(p, f, W, t, v, q0), OnTheWay(p, f, dev, w), w.status = "load", IsDir(f, w.inode)
    PROVE  Result(p, W, t, dev, exfat_lookup(f, path, w))
<1> DEFINE i == w.inode
           n == Begun(f.inode[i])
           g == LoadBegun(f, i)
           u == [w EXCEPT !.status = "page", !.cluster = g.inode[i].start, !.cur = NULL]
           r == exfat_lookup(f, path, w)
<1>1. /\ FsOK(p, f)
      /\ \A s \in Tasks : s # t => WalkOK(p, f, W[s], PhaseOf(p, W[s]))
    BY AtParts
<1>2. /\ i \in DOMAIN f.inode /\ f.inode[i].type = "dir" /\ f.inode[i].load_needed
      /\ Ready(p, f.inode[i])
      /\ DOMAIN w = WalkFields /\ w.buf \in Nat \ {0} /\ w.device = dev
    BY DEF OnTheWay, IsDir
<1>3. r = [fs |-> g, w |-> u]
  <2>1. DOMAIN f = {"inode", "dentry"} /\ InodeOK(f.inode[i])
    BY <1>1, <1>2 DEF FsOK
  <2>2. g.inode[i] = n
    BY <1>2, <2>1 DEF Begun, LoadBegun
  <2>3. DOMAIN f.inode[i] = InodeFields
    BY <2>1 DEF InodeOK
  <2>4. n.type = "dir"
    BY <1>2, <2>3 DEF InodeFields, Begun
  <2> QED
    BY <1>2, <2>2, <2>4 DEF exfat_lookup, IsDir, LoadBegun
<1>4. n = Begun(f.inode[i]) /\ g = LoadBegun(f, i)
    OBVIOUS
<1> HIDE DEF n, g, r
<1>15. Put(f, g, i, n) /\ IsBegun(f.inode[i], n)
    BY <1>1, <1>2, <1>4, LoadBegins
<1>14. /\ Put(f, g, i, n) /\ g.dentry = f.dentry /\ g.inode[i] = n /\ DOMAIN g.inode = DOMAIN f.inode
       /\ n.type = f.inode[i].type /\ n.dentry_lh = f.inode[i].dentry_lh
       /\ n.load_needed = f.inode[i].load_needed /\ n.start = f.inode[i].start /\ InodeOK(n)
    BY <1>15 DEF Put, IsBegun
<1>5. /\ DOMAIN u = WalkFields /\ u.status = "page" /\ u.cluster = n.start /\ u.cur = NULL
      /\ u.buf = w.buf /\ u.inode = i /\ u.device = dev
    BY <1>2, <1>14 DEF WalkFields
<1> HIDE DEF u, i
<1>6. StartOK(p, n.start) /\ Ready(p, n)
    BY <1>2, <1>14 DEF Ready
<1>7. PhaseOf(p, u) = "none"
    BY <1>5, <1>6 DEF PhaseOf, StartOK
<1>9. WalkOK(p, g, u, "none")
  <2>1. Len(g.dentry) \in Nat
    BY <1>1, <1>14, SequenceDomain DEF FsOK
  <2>2. 0 \in 0 .. Len(g.dentry)
    BY <2>1
  <2>3. Filling(p, g, u.cur, "none")
    BY <1>5, <2>2 DEF Filling, NULL
  <2>4. u.cluster \in DOMAIN DiskPages
    BY <1>5, <1>6 DEF StartOK
  <2> QED
    BY <1>2, <1>14, <1>5, <2>3, <2>4 DEF WalkOK
<1>10. ASSUME NEW s \in Tasks, s # t, InDir(W[s]), PhaseOf(p, W[s]) \in {"file", "dir"}
       PROVE  u.cur # W[s].cur
  <2>1. WalkOK(p, f, W[s], PhaseOf(p, W[s]))
    BY <1>1, <1>10
  <2>2. W[s].cur # 0
    BY <1>10, <2>1 DEF WalkOK, Filling
  <2> QED
    BY <1>5, <2>2 DEF NULL
<1>11. \A j \in DOMAIN f.inode : j # i => ~ InFile(u, j)
    BY <1>5 DEF InFile
<1>12. At(p, g, W, t, u, "none")
    BY <1>2, <1>14, <1>6, <1>9, <1>10, <1>11, InodeStep
<1>13. r.fs = g /\ r.w = u
    BY <1>3
<1> QED
    BY <1>5, <1>7, <1>12, <1>13 DEF Result, r

-----------------------------------------------------------------------------
(* The clusters of a file.                                                 *)

\* A file with one more cluster.
More(n, offset, cluster) ==
    [n EXCEPT !.clusters = Append(@, [byte_offset |-> offset, device_offset |-> cluster])]

IsMore(a, n, offset, cluster) ==
    /\ n.clusters = Append(a.clusters, [byte_offset |-> offset, device_offset |-> cluster])
    /\ n.type = a.type /\ n.dentry_lh = a.dentry_lh /\ n.load_needed = a.load_needed
    /\ n.start = a.start /\ n.file_length = a.file_length /\ n.loads = a.loads /\ InodeOK(n)

\* The inode of a file, with one more cluster.
LEMMA AddClusterFields ==
    ASSUME NEW p, NEW f, NEW i, NEW offset, NEW cluster, FsOK(p, f), i \in DOMAIN f.inode
    PROVE  /\ Put(f, AddCluster(f, i, offset, cluster), i, More(f.inode[i], offset, cluster))
           /\ IsMore(f.inode[i], More(f.inode[i], offset, cluster), offset, cluster)
<1> DEFINE a == f.inode[i]
           e == [byte_offset |-> offset, device_offset |-> cluster]
           n == More(a, offset, cluster)
           g == AddCluster(f, i, offset, cluster)
<1>1. DOMAIN f = {"inode", "dentry"} /\ InodeOK(a)
    BY DEF FsOK
<1>2. Put(f, g, i, n)
    BY <1>1 DEF Put, More, AddCluster
<1>3. n = [a EXCEPT !.clusters = Append(@, e)]
    BY DEF More
<1> HIDE DEF a, n, e
<1>4. DOMAIN a = InodeFields /\ Sequence(a.clusters)
    BY <1>1 DEF InodeOK
<1>5. /\ n.clusters = Append(a.clusters, e)
      /\ n.type = a.type /\ n.dentry_lh = a.dentry_lh /\ n.load_needed = a.load_needed
      /\ n.start = a.start /\ n.file_length = a.file_length /\ n.loads = a.loads /\ DOMAIN n = InodeFields
    BY <1>3, <1>4 DEF InodeFields
<1>6. Sequence(n.clusters)
    BY <1>4, <1>5, AppendElements
<1>7. InodeOK(n)
    BY <1>1, <1>5, <1>6 DEF InodeOK
<1> QED
    BY <1>2, <1>5, <1>7 DEF a, n, e, IsMore

\* One more cluster of the chain is known.
LEMMA MoreListed ==
    ASSUME NEW a, NEW n, NEW c, NEW m \in Nat, NEW d, Listed(a, c, m), m < a.file_length,
           a.file_length \in Nat, Sequence(a.clusters), d = c[m + 1], IsMore(a, n, m, d)
    PROVE  Listed(n, c, m + 1)
<1> DEFINE s == a.clusters
           e == [byte_offset |-> m, device_offset |-> d]
           r == n.clusters
<1>1. /\ r = Append(s, e) /\ n.start = a.start /\ n.file_length = a.file_length
    BY DEF IsMore
<1>2. /\ IsChain(c, a.start, a.file_length) /\ Len(s) = m
      /\ \A k \in 1 .. m : s[k] = [byte_offset |-> k - 1, device_offset |-> c[k]]
    BY DEF Listed
<1>3. Sequence(s)
    OBVIOUS
<1>4. e = [byte_offset |-> (m + 1) - 1, device_offset |-> c[m + 1]]
    OBVIOUS
<1> HIDE DEF s, e, r
<1>5. Len(r) = m + 1 /\ (\A k \in 1 .. m : r[k] = s[k]) /\ r[m + 1] = e
    BY <1>1, <1>2, <1>3, AppendElements
<1>6. ASSUME NEW k \in 1 .. m + 1 PROVE r[k] = [byte_offset |-> k - 1, device_offset |-> c[k]]
  <2>1. CASE k = m + 1
    BY <1>4, <1>5, <2>1
  <2>2. CASE k # m + 1
    <3>1. k \in 1 .. m
      BY <2>2
    <3> QED
      BY <1>2, <1>5, <3>1
  <2> QED
    BY <2>1, <2>2
<1>7. m + 1 \in 0 .. n.file_length
    BY <1>1
<1>8. IsChain(c, n.start, n.file_length)
    BY <1>1, <1>2
<1> QED
    BY <1>5, <1>6, <1>7, <1>8 DEF Listed, r

\* No cluster is known.
LEMMA NoneListed ==
    ASSUME NEW a, NEW c, InodeOK(a), a.clusters = <<>>, IsChain(c, a.start, a.file_length)
    PROVE  Listed(a, c, 0)
<1>1. Len(a.clusters) = 0 /\ a.file_length \in Nat
    BY DEF InodeOK
<1>2. 0 \in 0 .. a.file_length /\ 1 .. 0 = {}
    BY <1>1
<1> QED
    BY <1>1, <1>2 DEF Listed

\* The load of a file begins: the walk is still at it.
LEMMA FileBegins ==
    ASSUME NEW p, NEW f, NEW dev, NEW W, NEW t \in Tasks, NEW v, NEW q0, NEW w, NEW q,
           At(p, f, W, t, v, q0), OnTheWay(p, f, dev, w), w.status = "load", ~ IsDir(f, w.inode)
    PROVE  /\ At(p, LoadBegun(f, w.inode), W, t, w, q)
           /\ f.inode[w.inode].type = "file" /\ f.inode[w.inode].load_needed
           /\ f.inode[w.inode].loads = 0 =>
                 /\ f.inode[w.inode].clusters = <<>>
                 /\ \A s \in Tasks : s # t => ~ InFile(W[s], w.inode)
<1> DEFINE i == w.inode
           a == f.inode[i]
           n == Begun(a)
           g == LoadBegun(f, i)
<1>1. At(p, f, W, t, w, q)
    BY OnTheWayQuiet, AtQuiet
<1>2. FsOK(p, f)
    BY <1>1, AtParts
<1>3. i \in DOMAIN f.inode /\ a.load_needed /\ a.type # "dir" /\ Ready(p, a) /\ Named(f, i)
    BY DEF OnTheWay, IsDir
<1>4. a.type = "file" /\ InodeOK(a)
    BY <1>2, <1>3 DEF FsOK, InodeOK
<1>5. FileOK(a, i, With(W, t, w))
    BY <1>1, <1>3, <1>4, AtParts
<1>6. Put(f, g, i, n) /\ IsBegun(a, n)
    BY <1>2, <1>3, LoadBegins
<1>7. \A s \in Tasks : With(W, t, w)[s] = IF s = t THEN w ELSE W[s]
    BY DEF With
<1>8. ~ InFile(w, i)
    BY DEF InFile
<1> DEFINE V == With(W, t, w)
<1> HIDE DEF n, g, V
<1>9. a.loads = 0 => a.clusters = <<>> /\ \A s \in Tasks : ~ InFile(V[s], i)
    BY <1>3, <1>5 DEF FileOK, V
<1>10. FileOK(n, i, V)
  <2>1. n.loads = a.loads + 1 /\ a.loads \in Nat /\ n.load_needed = a.load_needed
    BY <1>4, <1>6 DEF IsBegun, InodeOK
  <2>2. CASE a.loads = 0
    <3>1. n.loads # 0 /\ n.load_needed
      BY <1>3, <2>1, <2>2
    <3> QED
      BY <1>9, <2>2, <3>1 DEF FileOK
  <2>3. CASE a.loads # 0
    <3>1. n.loads # 0 /\ n.loads # 1
      BY <2>1, <2>3
    <3> QED
      BY <3>1 DEF FileOK
  <2> QED
    BY <2>2, <2>3
<1>11. At(p, g, W, t, w, q)
  <2>1. WalkOK(p, g, w, q)
    BY DEF OnTheWay, WalkOK, InDir
  <2>2. Ready(p, n)
    BY <1>4, <1>6 DEF Ready, IsBegun
  <2>3. ~ InDir(w) /\ \A j \in DOMAIN f.inode : ~ InFile(w, j)
    BY DEF InDir, InFile
  <2>4. InodeOK(n) /\ n.type = a.type /\ n.dentry_lh = a.dentry_lh
    BY <1>6 DEF IsBegun
  <2>5. FileOK(n, i, With(W, t, w))
    BY <1>10 DEF V
  <2> QED
    BY <1>1, <1>3, <1>6, <2>1, <2>2, <2>3, <2>4, <2>5, InodeStep
<1>12. a.loads = 0 => a.clusters = <<>> /\ \A s \in Tasks : s # t => ~ InFile(W[s], i)
    BY <1>7, <1>9 DEF V
<1> QED
    BY <1>3, <1>4, <1>11, <1>12 DEF g

\* What is known of a file whose load nobody else has begun.
LEMMA FirstLoad ==
    ASSUME NEW n, NEW i, NEW W, NEW t \in Tasks, NEW w, n.loads \in Nat, n.loads # 0,
           n.loads = 1 => /\ \A s \in Tasks : s # t => ~ InFile(W[s], i)
                          /\ IF n.load_needed THEN InFile(w, i) => Partial(n, w)
                             ELSE ~ InFile(w, i) /\ \E c : Listed(n, c, n.file_length)
    PROVE  FileOK(n, i, With(W, t, w))
<1> DEFINE V == With(W, t, w)
<1>1. \A s \in Tasks : V[s] = IF s = t THEN w ELSE W[s]
    BY DEF With
<1> HIDE DEF V
<1>2. CASE n.loads = 1
  <2>1. \A s \in Tasks : InFile(V[s], i) => s = t /\ V[s] = w
    BY <1>1, <1>2
  <2>2. CASE n.load_needed
    <3>1. \A s \in Tasks : InFile(V[s], i) => Partial(n, V[s])
      BY <1>2, <2>1, <2>2
    <3> QED
      BY <1>2, <2>1, <2>2, <3>1 DEF FileOK, V
  <2>3. CASE ~ n.load_needed
    <3>1. \A s \in Tasks : ~ InFile(V[s], i)
      BY <1>2, <2>1, <2>3
    <3> QED
      BY <1>2, <2>3, <3>1 DEF FileOK, V
  <2> QED
    BY <2>2, <2>3
<1>3. CASE n.loads # 1
    BY <1>3 DEF FileOK
<1> QED
    BY <1>2, <1>3

\* The load of a file begins, and ends at once if it is empty.
LEMMA LookupFile ==
    ASSUME NEW p, NEW f, NEW path, NEW dev, NEW W, NEW t \in Tasks, NEW v, NEW q0, NEW w,
           At(p, f, W, t, v, q0), PathOK(path),
           OnTheWay(p, f, dev, w), w.status = "load", ~ IsDir(f, w.inode)
    PROVE  Result(p, W, t, dev, exfat_lookup(f, path, w))
<1> DEFINE i == w.inode
           a == f.inode[i]
           n == Begun(a)
           g == LoadBegun(f, i)
           r == exfat_lookup(f, path, w)
<1>1. /\ At(p, g, W, t, w, "none")
      /\ a.type = "file" /\ a.load_needed
      /\ a.loads = 0 => a.clusters = <<>> /\ \A s \in Tasks : s # t => ~ InFile(W[s], i)
    BY FileBegins
<1>2. FsOK(p, f) /\ FsOK(p, g)
    BY <1>1, AtParts
<1>3. /\ i \in DOMAIN f.inode /\ DOMAIN w = WalkFields /\ w.buf \in Nat \ {0} /\ w.device = dev
    BY DEF OnTheWay
<1>4. Put(f, g, i, n) /\ IsBegun(a, n)
    BY <1>2, <1>3, LoadBegins
<1>5. i \in DOMAIN g.inode /\ g.inode[i] = n
    BY <1>3, <1>4 DEF Put
<1>6. InodeOK(a) /\ InodeOK(n)
    BY <1>2, <1>3, <1>4 DEF FsOK, IsBegun
<1>7. /\ n.type = "file" /\ n.load_needed = a.load_needed /\ n.start = a.start
      /\ n.file_length = a.file_length /\ n.clusters = a.clusters
      /\ n.loads = a.loads + 1
    BY <1>1, <1>4 DEF IsBegun
<1>8. n.loads \in Nat /\ n.loads # 0 /\ (n.loads = 1 => a.loads = 0)
  <2> DEFINE l == a.loads
  <2>1. l \in Nat /\ n.loads = l + 1
    BY <1>6, <1>7 DEF InodeOK
  <2> HIDE DEF l
  <2> QED
    BY <2>1 DEF l
<1>9. PICK c : IsChain(c, n.start, n.file_length)
    BY <1>1, <1>6, <1>7 DEF InodeOK
<1>10. a.loads = 0 => Listed(n, c, 0)
    BY <1>1, <1>6, <1>7, <1>9, NoneListed
<1>11. ~ IsDir(g, i)
    BY <1>5, <1>7 DEF IsDir
<1> HIDE DEF n
<1>12. CASE n.file_length = 0
  <2> DEFINE h == LoadDone(g, i)
             u == [w EXCEPT !.status = "walk"]
             m == Done(n)
  <2>1. r = [fs |-> h, w |-> Walk(h, path, u)]
    BY <1>5, <1>11, <1>12 DEF exfat_lookup, LoadBegun
  <2>2. DOMAIN u = WalkFields /\ u.status = "walk" /\ u.buf = w.buf /\ u.inode = i /\ u.device = dev
    BY <1>3 DEF WalkFields
  <2>3. Put(g, h, i, m) /\ IsDone(n, m)
    BY <1>2, <1>5, LoadDoneFields
  <2> HIDE DEF g, h, u, m, i, a, r
  <2>4. DOMAIN h.inode = DOMAIN g.inode
    BY <2>3 DEF Put
  <2>5. OnTheWay(p, h, dev, u)
    BY <1>3, <1>5, <2>2, <2>4 DEF OnTheWay
  <2>6. WalkOK(p, g, u, "none") /\ ~ InDir(u) /\ u.status # "file fat"
    BY <1>3, <1>5, <2>2 DEF WalkOK, InDir
  <2>7. FileOK(m, i, With(W, t, u))
    <3>1. m.loads = n.loads /\ ~ m.load_needed /\ m.file_length = 0
      BY <1>12, <2>3 DEF IsDone
    <3>2. Listed(n, c, 0) => Listed(m, c, 0)
      BY <2>3 DEF Listed, IsDone
    <3>3. ~ InFile(u, i)
      BY <2>2 DEF InFile
    <3> QED
      BY <1>1, <1>8, <1>10, <3>1, <3>2, <3>3, FirstLoad
  <2>8. At(p, h, W, t, u, "none")
    <3>1. g.inode[i].type = "file" => FileOK(Done(g.inode[i]), i, With(W, t, u))
      BY <1>5, <2>7 DEF m
    <3> QED
      BY <1>1, <1>5, <2>6, <3>1, LoadEnds DEF h
  <2>9. Result(p, W, t, dev, [fs |-> h, w |-> Walk(h, path, u)])
    BY <2>5, <2>8, WalkResult
  <2> QED
    BY <2>1, <2>9 DEF r
<1>13. CASE n.file_length # 0
  <2> DEFINE h == AddCluster(g, i, 0, n.start)
             u == [w EXCEPT !.status = "file fat", !.cluster = n.start, !.byte_offset = 0]
             m == More(n, 0, n.start)
  <2>1. r = [fs |-> h, w |-> u]
    BY <1>5, <1>11, <1>13 DEF exfat_lookup, LoadBegun
  <2>2. /\ DOMAIN u = WalkFields /\ u.status = "file fat" /\ u.buf = w.buf /\ u.inode = i /\ u.device = dev
        /\ u.cluster = n.start /\ u.byte_offset = 0
    BY <1>3 DEF WalkFields
  <2>3. Put(g, h, i, m) /\ IsMore(n, m, 0, n.start)
    BY <1>2, <1>5, AddClusterFields
  <2>4. r.fs = h /\ r.w = u
    BY <2>1
  <2> HIDE DEF g, h, u, m, i, a, r
  <2>5. /\ DOMAIN h.inode = DOMAIN g.inode /\ h.inode[i] = m /\ m.type = "file" /\ InodeOK(m)
        /\ m.loads = n.loads /\ m.load_needed = n.load_needed /\ m.dentry_lh = n.dentry_lh
    BY <1>7, <2>3 DEF Put, IsMore
  <2>6. WalkOK(p, h, u, "none")
    BY <1>3, <1>5, <2>2, <2>5 DEF WalkOK, InDir
  <2>7. n.file_length \in Nat /\ Sequence(n.clusters)
    BY <1>6 DEF InodeOK
  <2>8. c[1] = n.start /\ 0 < n.file_length
    <3> DEFINE l == n.file_length
               st == n.start
    <3>1. IsChain(c, st, l) /\ l # 0 /\ l \in Nat
      BY <1>9, <1>13, <2>7
    <3> HIDE DEF l, st
    <3>2. l > 0
      BY <3>1
    <3>3. c[1] = st
      BY <3>1, <3>2 DEF IsChain
    <3> QED
      BY <3>2, <3>3 DEF l, st
  <2>9. a.loads = 0 => Partial(m, u)
    <3>1. SUFFICES ASSUME a.loads = 0 PROVE Partial(m, u)
      OBVIOUS
    <3>2. n.start = c[0 + 1]
      BY <2>8
    <3>3. Listed(n, c, 0)
      BY <1>10, <3>1
    <3>4. Listed(m, c, 0 + 1)
      BY <2>3, <2>7, <2>8, <3>2, <3>3, MoreListed
    <3>5. Listed(m, c, 1) /\ 1 > 0 /\ u.byte_offset = 1 - 1 /\ u.cluster = c[1]
      <4>1. 0 + 1 = 1 /\ 1 - 1 = 0 /\ 1 > 0
        OBVIOUS
      <4> QED
        BY <2>2, <2>8, <3>4, <4>1, Zenon
    <3> QED
      BY <3>5 DEF Partial
  <2>10. FileOK(m, i, With(W, t, u))
    BY <1>1, <1>7, <1>8, <2>5, <2>9, FirstLoad
  <2>11. \A j \in DOMAIN g.inode : j # i => ~ InFile(u, j)
    BY <2>2 DEF InFile
  <2>12. ~ InDir(u)
    BY <2>2 DEF InDir
  <2>13. Ready(p, m)
    BY <2>5 DEF Ready
  <2>14. At(p, h, W, t, u, "none")
    <3>1. /\ m.type = g.inode[i].type /\ m.dentry_lh = g.inode[i].dentry_lh
          /\ m.loads = g.inode[i].loads
      BY <1>5, <1>7, <2>5
    <3> QED
      BY <1>1, <1>5, <2>3, <2>5, <2>6, <2>10, <2>11, <2>12, <2>13, <3>1, InodeStep
  <2>15. PhaseOf(p, u) = "none"
    BY <2>2 DEF PhaseOf
  <2> QED
    BY <2>2, <2>4, <2>14, <2>15 DEF Result, r
<1> QED
    BY <1>12, <1>13

-----------------------------------------------------------------------------
(* On with a resolution.                                                   *)

\* On with a resolution.
LEMMA AdvanceResult ==
    ASSUME NEW p, NEW f, NEW path, NEW dev, NEW W, NEW t \in Tasks, NEW v, NEW q0, NEW w,
           At(p, f, W, t, v, q0), PathOK(path), OnTheWay(p, f, dev, w)
    PROVE  Result(p, W, t, dev, Advance(f, path, w))
<1> DEFINE u == Walk(f, path, w)
<1>1. OnTheWay(p, f, dev, u) /\ Result(p, W, t, dev, [fs |-> f, w |-> u])
    BY WalkResult
<1>2. Advance(f, path, w) = IF u.status = "load" THEN exfat_lookup(f, path, u) ELSE [fs |-> f, w |-> u]
    BY DEF Advance
<1> HIDE DEF u
<1>3. u.status = "load" => Result(p, W, t, dev, exfat_lookup(f, path, u))
    BY <1>1, LookupDir, LookupFile
<1> QED
    BY <1>1, <1>2, <1>3

\* A walk that was told to go on is on the way.
LEMMA Onward ==
    ASSUME NEW p, NEW f, NEW w, NEW q, WalkOK(p, f, w, q), w.status \in {"walk", "page", "fat", "file fat"}
    PROVE  LET u == [w EXCEPT !.status = "walk"]
           IN OnTheWay(p, f, w.device, u) /\ u.status = "walk" /\ u.inode = w.inode
<1> DEFINE u == [w EXCEPT !.status = "walk"]
<1>1. DOMAIN w = WalkFields /\ w.buf \in Nat \ {0} /\ w.inode \in DOMAIN f.inode
    BY DEF WalkOK
<1>2. DOMAIN u = WalkFields /\ u.status = "walk" /\ u.buf = w.buf /\ u.inode = w.inode /\ u.device = w.device
    BY <1>1 DEF WalkFields
<1> HIDE DEF u
<1>3. OnTheWay(p, f, w.device, u)
    BY <1>1, <1>2 DEF OnTheWay
<1> QED
    BY <1>2, <1>3 DEF u

\* The load of the walk's inode has ended; the walk goes on.
LEMMA AfterLoadResult ==
    ASSUME NEW p, NEW f, NEW path, NEW W, NEW t \in Tasks, NEW w, NEW q,
           At(p, f, W, t, w, q), PathOK(path), w.status \in {"fat", "file fat"},
           w.status = "file fat" =>
               FileOK(Done(f.inode[w.inode]), w.inode, With(W, t, [w EXCEPT !.status = "walk"]))
    PROVE  Result(p, W, t, w.device, AfterLoad(f, path, w))
<1> DEFINE u == [w EXCEPT !.status = "walk"]
           i == w.inode
           g == LoadDone(f, i)
           dev == w.device
<1>1. FsOK(p, f) /\ WalkOK(p, f, w, q)
    BY AtParts
<1>2. /\ OnTheWay(p, f, dev, u) /\ u.status = "walk" /\ u.inode = i
      /\ w.status = "file fat" => FileOK(Done(f.inode[i]), i, With(W, t, u))
    BY <1>1, Onward
<1>3. i \in DOMAIN f.inode /\ (w.status = "fat" => f.inode[i].type = "dir")
    BY <1>1 DEF WalkOK, InDir
<1>4. AfterLoad(f, path, w) = Advance(g, path, u)
    BY DEF AfterLoad
<1> HIDE DEF u, i, g, dev
<1>5. WalkOK(p, f, u, "none") /\ ~ InDir(u) /\ u.status # "file fat"
    BY <1>2, OnTheWayQuiet
<1>6. At(p, g, W, t, u, "none")
    BY <1>2, <1>3, <1>5, LoadEnds DEF g
<1>7. DOMAIN g.inode = DOMAIN f.inode
  <2>1. Put(f, g, i, Done(f.inode[i]))
    BY <1>1, <1>3, LoadDoneFields DEF g
  <2> QED
    BY <2>1 DEF Put
<1>8. OnTheWay(p, g, dev, u)
    BY <1>2, <1>7 DEF OnTheWay
<1> QED
    BY <1>4, <1>6, <1>8, AdvanceResult DEF dev

\* The FAT says where a directory goes on, or that it ends.
LEMMA FatArrivesResult ==
    ASSUME NEW p, NEW f, NEW path, NEW W, NEW t \in Tasks, NEW w, Grammar(p),
           At(p, f, W, t, w, PhaseOf(p, w)), PathOK(path), w.status = "fat"
    PROVE  Result(p, W, t, w.device, FatArrives(f, path, w))
<1> DEFINE next == FAT[w.cluster]
           u == [w EXCEPT !.status = "page", !.cluster = next]
           q == PhaseOf(p, w)
<1>4. At(p, f, W, t, w, q)
    OBVIOUS
<1> HIDE DEF q
<1>1. /\ FsOK(p, f) /\ WalkOK(p, f, w, q)
      /\ \A s \in Tasks : s # t => WalkOK(p, f, W[s], PhaseOf(p, W[s]))
      /\ \A i \in DOMAIN f.inode : f.inode[i].type = "file" => FileOK(f.inode[i], i, With(W, t, w))
      /\ \A s \in Tasks : s # t /\ InDir(w) /\ InDir(W[s])
                             /\ (q \in {"file", "dir"} \/ PhaseOf(p, W[s]) \in {"file", "dir"})
                          => w.cur # W[s].cur
    BY <1>4, AtParts
<1>2. CASE next = EOC
  <2>1. FatArrives(f, path, w) = AfterLoad(f, path, w)
    BY <1>2 DEF FatArrives
  <2>2. w.status \in {"fat", "file fat"} /\ w.status # "file fat"
    OBVIOUS
  <2> QED
    BY <2>1, <2>2, AfterLoadResult
<1>3. CASE next # EOC
  <2> DEFINE r == FatArrives(f, path, w)
  <2>1. r = [fs |-> f, w |-> u]
    BY <1>3 DEF FatArrives
  <2>2. r.fs = f /\ r.w = u
    BY <2>1
  <2>3. /\ DOMAIN w = WalkFields /\ w.buf \in Nat \ {0} /\ w.inode \in DOMAIN f.inode
        /\ f.inode[w.inode].type = "dir" /\ w.cluster \in DOMAIN DiskPages /\ Filling(p, f, w.cur, q)
    BY <1>1 DEF WalkOK, InDir
  <2>4. /\ DOMAIN u = WalkFields /\ u.status = "page" /\ u.cluster = next /\ u.buf = w.buf
        /\ u.inode = w.inode /\ u.cur = w.cur /\ u.device = w.device
    BY <2>3 DEF WalkFields
  <2>5. next \in DOMAIN DiskPages /\ p[next][0] = p[w.cluster][EntriesOf(DiskPages[w.cluster])]
    BY <1>3, <2>3 DEF Grammar
  <2> HIDE DEF u, r
  <2>6. PhaseOf(p, u) = q
    BY <2>4, <2>5 DEF PhaseOf, q
  <2> HIDE DEF next
  <2>7. WalkOK(p, f, u, q)
    BY <2>3, <2>4, <2>5 DEF WalkOK, InDir
  <2>12. InDir(w)
    BY DEF InDir
  <2>13. At(p, f, W, t, u, q)
    <3>1. \A s \in Tasks : s # t /\ InDir(u) /\ InDir(W[s])
                              /\ (q \in {"file", "dir"} \/ PhaseOf(p, W[s]) \in {"file", "dir"})
                           => u.cur # W[s].cur
      BY <1>1, <2>4, <2>12
    <3> QED
      BY <1>4, <2>4, <2>7, <3>1, AtMove
  <2> QED
    BY <2>2, <2>4, <2>6, <2>13 DEF Result, r
<1> QED
    BY <1>2, <1>3

\* A cluster of a file, and whether it is the last.
LEMMA Between ==
    ASSUME NEW l \in Nat, NEW k \in 0 .. l, k > 0
    PROVE  /\ k \in Nat /\ (k - 1) + 1 = k /\ (k + 1) - 1 = k /\ k + 1 > 0
           /\ k # l => k \in 1 .. l - 1 /\ k + 1 \in 1 .. l /\ k < l /\ ~ ((k - 1) + 1 >= l)
           /\ ~ (k >= l) => k # l
    OBVIOUS

\* The FAT says where a file goes on, or that it ends.
LEMMA FileFatArrivesResult ==
    ASSUME NEW p, NEW f, NEW path, NEW W, NEW t \in Tasks, NEW w, NEW q, VfsAssumption,
           At(p, f, W, t, w, q), PathOK(path), w.status = "file fat"
    PROVE  Result(p, W, t, w.device, FileFatArrives(f, path, w))
<1> DEFINE i == w.inode
           n == f.inode[i]
           next == FAT[w.cluster]
           offset == w.byte_offset + 1
           r == FileFatArrives(f, path, w)
<1>1. FsOK(p, f) /\ WalkOK(p, f, w, q)
    BY AtParts
<1>2. /\ DOMAIN w = WalkFields /\ w.buf \in Nat \ {0} /\ i \in DOMAIN f.inode /\ n.type = "file"
    BY <1>1 DEF WalkOK
<1>3. InodeOK(n) /\ FileOK(n, i, With(W, t, w))
    BY <1>1, <1>2, AtParts DEF FsOK
<1>4. InFile(w, i)
    BY DEF InFile
<1>5. r = IF next = EOC \/ offset >= n.file_length THEN AfterLoad(f, path, w)
          ELSE [fs |-> AddCluster(f, i, offset, next),
                w |-> [w EXCEPT !.cluster = next, !.byte_offset = offset]]
    BY DEF FileFatArrives
<1> DEFINE V == With(W, t, w)
<1>6. V[t] = w /\ \A s \in Tasks : s # t => V[s] = W[s]
    BY DEF With
<1>7. FileOK(n, i, V)
    BY <1>3
<1> HIDE DEF V, n, i, r
<1>8. InFile(V[t], i)
    BY <1>4, <1>6
<1>9. n.loads # 0 /\ n.loads \in Nat /\ n.file_length \in Nat /\ Sequence(n.clusters)
    BY <1>3, <1>7, <1>8 DEF FileOK, InodeOK
<1>10. n.loads = 1 =>
          /\ n.load_needed /\ Partial(n, w)
          /\ \A s \in Tasks : s # t => ~ InFile(W[s], i)
  <2>1. SUFFICES ASSUME n.loads = 1
                 PROVE  /\ n.load_needed /\ Partial(n, w)
                        /\ \A s \in Tasks : s # t => ~ InFile(W[s], i)
    OBVIOUS
  <2>2. n.load_needed
    BY <1>7, <1>8, <2>1 DEF FileOK
  <2>3. Partial(n, w) /\ \A s \in Tasks : InFile(V[s], i) => s = t
    BY <1>6, <1>7, <1>8, <2>1, <2>2 DEF FileOK
  <2> QED
    BY <1>6, <2>2, <2>3
<1>11. CASE next = EOC \/ offset >= n.file_length
  <2> DEFINE u == [w EXCEPT !.status = "walk"]
             m == Done(n)
  <2>1. r = AfterLoad(f, path, w)
    BY <1>5, <1>11
  <2>2. IsDone(n, m)
    BY <1>1, <1>2, LoadDoneFields DEF n
  <2>3. ~ InFile(u, i)
    BY <1>2 DEF InFile, WalkFields
  <2> HIDE DEF u, m
  <2>4. ASSUME n.loads = 1 PROVE \E c : Listed(n, c, n.file_length)
    <3>1. PICK c, k : Listed(n, c, k) /\ k > 0 /\ w.byte_offset = k - 1 /\ w.cluster = c[k]
      BY <1>10, <2>4 DEF Partial
    <3> DEFINE l == n.file_length
    <3>2. l \in Nat /\ k \in 0 .. l /\ IsChain(c, n.start, l)
      BY <1>9, <3>1 DEF Listed
    <3>3. next = FAT[c[k]] /\ offset = (k - 1) + 1
      BY <3>1
    <3>4. next = EOC \/ offset >= l
      BY <1>11
    <3> HIDE DEF l, next, offset
    <3>5. ASSUME k # l PROVE FALSE
      <4>1. k \in 1 .. l - 1 /\ k + 1 \in 1 .. l /\ ~ ((k - 1) + 1 >= l)
        BY <3>1, <3>2, <3>5, Between, Zenon
      <4>2. next = EOC
        BY <3>3, <3>4, <4>1
      <4>3. c[k + 1] = FAT[c[k]] /\ c[k + 1] \in DOMAIN FAT
        BY <3>2, <4>1 DEF IsChain
      <4> QED
        BY <3>3, <4>2, <4>3 DEF VfsAssumption
    <3> QED
      BY <3>1, <3>5 DEF l
  <2>5. FileOK(m, i, With(W, t, u))
    <3>1. m.loads = n.loads /\ ~ m.load_needed /\ m.file_length = n.file_length
      BY <2>2 DEF IsDone
    <3>2. \A c : Listed(n, c, n.file_length) => Listed(m, c, m.file_length)
      BY <2>2 DEF Listed, IsDone
    <3> QED
      BY <1>9, <1>10, <2>3, <2>4, <3>1, <3>2, FirstLoad
  <2>6. Result(p, W, t, w.device, AfterLoad(f, path, w))
    <3>1. FileOK(Done(f.inode[w.inode]), w.inode, With(W, t, [w EXCEPT !.status = "walk"]))
      BY <2>5 DEF m, n, i, u
    <3> QED
      BY <3>1, AfterLoadResult
  <2> QED
    BY <2>1, <2>6 DEF r
<1>12. CASE ~ (next = EOC \/ offset >= n.file_length)
  <2> DEFINE g == AddCluster(f, i, offset, next)
             u == [w EXCEPT !.cluster = next, !.byte_offset = offset]
             m == More(n, offset, next)
  <2>1. r = [fs |-> g, w |-> u]
    BY <1>5, <1>12
  <2>2. r.fs = g /\ r.w = u
    BY <2>1
  <2>3. /\ DOMAIN u = WalkFields /\ u.status = "file fat" /\ u.buf = w.buf /\ u.inode = i
        /\ u.device = w.device /\ u.cluster = next /\ u.byte_offset = offset
    BY <1>2 DEF WalkFields, i
  <2>4. Put(f, g, i, m) /\ IsMore(n, m, offset, next)
    BY <1>1, <1>2, AddClusterFields DEF n
  <2> HIDE DEF u, m, g
  <2>5. /\ DOMAIN g.inode = DOMAIN f.inode /\ g.inode[i] = m /\ m.type = "file" /\ InodeOK(m)
        /\ m.loads = n.loads /\ m.load_needed = n.load_needed /\ m.dentry_lh = n.dentry_lh
    BY <1>2, <2>4 DEF Put, IsMore
  <2>6. WalkOK(p, g, u, "none")
    BY <1>2, <2>3, <2>5 DEF WalkOK, InDir
  <2>7. ASSUME n.loads = 1 PROVE Partial(m, u)
    <3>1. PICK c, k : Listed(n, c, k) /\ k > 0 /\ w.byte_offset = k - 1 /\ w.cluster = c[k]
      BY <1>10, <2>7 DEF Partial
    <3> DEFINE l == n.file_length
    <3>2. l \in Nat /\ k \in 0 .. l /\ IsChain(c, n.start, l)
      BY <1>9, <3>1 DEF Listed
    <3>3. next = FAT[c[k]] /\ offset = (k - 1) + 1
      BY <3>1
    <3>4. ~ (offset >= l)
      BY <1>12
    <3> HIDE DEF l, next, offset
    <3>5. /\ k \in Nat /\ offset = k /\ k \in 1 .. l - 1 /\ k < l
          /\ k + 1 > 0 /\ k = (k + 1) - 1
      <4>1. offset = k
        BY <3>1, <3>2, <3>3, Between, Zenon
      <4> QED
        BY <3>1, <3>2, <3>4, <4>1, Between, Zenon
    <3>6. next = c[k + 1]
      BY <3>2, <3>3, <3>5 DEF IsChain
    <3>7. Listed(m, c, k + 1)
      <4>1. IsMore(n, m, k, next)
        BY <2>4, <3>5
      <4>2. k < n.file_length
        BY <3>5 DEF l
      <4> QED
        BY <1>9, <3>1, <3>5, <3>6, <4>1, <4>2, MoreListed
    <3>8. u.byte_offset = (k + 1) - 1 /\ u.cluster = c[k + 1]
      BY <2>3, <3>5, <3>6
    <3> QED
      BY <3>5, <3>7, <3>8 DEF Partial
  <2>8. FileOK(m, i, With(W, t, u))
    BY <1>9, <1>10, <2>5, <2>7, FirstLoad
  <2>9. ~ InDir(u) /\ \A j \in DOMAIN f.inode : j # i => ~ InFile(u, j)
    BY <2>3 DEF InDir, InFile
  <2>10. Ready(p, m)
    BY <2>5 DEF Ready
  <2>11. At(p, g, W, t, u, "none")
    <3>1. m.type = f.inode[i].type /\ m.dentry_lh = f.inode[i].dentry_lh /\ m.loads = f.inode[i].loads
      BY <1>2, <2>5 DEF n
    <3> QED
      BY <1>2, <2>4, <2>5, <2>6, <2>8, <2>9, <2>10, <3>1, InodeStep
  <2>12. PhaseOf(p, u) = "none"
    BY <2>3 DEF PhaseOf
  <2> QED
    BY <2>2, <2>3, <2>11, <2>12 DEF Result, r
<1> QED
    BY <1>11, <1>12

-----------------------------------------------------------------------------
(* The entries of a directory.                                             *)

\* The walk of a task that has looked at some entries of a page.
Fill(w, cur) == [w EXCEPT !.status = "fat", !.cur = cur]

PageAt(p, W, t, w, P, q) ==
    DOMAIN P = {"fs", "cur"} /\ At(p, P.fs, W, t, Fill(w, P.cur), q)

\* The fields of such a walk.
LEMMA FillFields ==
    ASSUME NEW w, NEW cur, DOMAIN w = WalkFields
    PROVE  /\ DOMAIN Fill(w, cur) = WalkFields /\ Fill(w, cur).status = "fat" /\ Fill(w, cur).cur = cur
           /\ Fill(w, cur).buf = w.buf /\ Fill(w, cur).inode = w.inode /\ Fill(w, cur).cluster = w.cluster
           /\ Fill(w, cur).device = w.device /\ InDir(Fill(w, cur))
    BY DEF Fill, WalkFields, InDir

\* A file entry: a new dentry is to be filled.
LEMMA FileEntry ==
    ASSUME NEW p, NEW W, NEW t \in Tasks, NEW w, NEW P, NEW q, NEW x, NEW r, NEW dir,
           DOMAIN w = WalkFields, PageAt(p, W, t, w, P, q), Legal(p, q, x, r), x.e = "file"
    PROVE  PageAt(p, W, t, w, ParseEntry(P, dir, x), r)
<1> DEFINE f == P.fs
           a == NewInode(x.type, "exfat")
           n == [a EXCEPT !.load_needed = TRUE]
           g == AddEntry(f, dir, <<>>, n)
           cur == Len(f.dentry) + 1
           R == ParseEntry(P, dir, x)
           v == Fill(w, P.cur)
           u == Fill(w, cur)
<1>1. R = [fs |-> g, cur |-> cur]
    BY DEF ParseEntry
<1>2. DOMAIN R = {"fs", "cur"} /\ R.fs = g /\ R.cur = cur
    BY <1>1
<1>3. x.type \in {"file", "dir"} /\ r = x.type
    BY DEF Legal
<1>4. Blank(a) /\ a.type = x.type /\ a.start = NULL /\ a.file_length = 0 /\ DOMAIN a = InodeFields
    BY NewInodeBlank
<1>5. At(p, f, W, t, v, q)
    BY DEF PageAt
<1> HIDE DEF a, g, R, v, u, f
<1>6. /\ DOMAIN n = InodeFields /\ n.loads = a.loads /\ n.clusters = a.clusters /\ n.dentry_lh = a.dentry_lh
      /\ n.load_needed = TRUE /\ n.type = x.type /\ n.file_length = 0
    BY <1>4 DEF InodeFields
<1> HIDE DEF n
<1>7. Blank(n)
  <2>1. \E c : IsChain(c, n.start, 0)
    BY NoChain
  <2>2. /\ n.loads = 0 /\ n.clusters = <<>> /\ n.dentry_lh = <<>>
        /\ Sequence(n.clusters) /\ Sequence(n.dentry_lh) /\ n.loads \in Nat /\ n.file_length \in Nat
    BY <1>4, <1>6 DEF Blank, InodeOK
  <2>3. n.load_needed \in BOOLEAN /\ n.type \in {"dir", "file"}
    BY <1>3, <1>6
  <2> QED
    BY <1>6, <2>1, <2>2, <2>3 DEF Blank, InodeOK
<1>8. FsOK(p, f) /\ \A s \in Tasks : s # t => WalkOK(p, f, W[s], PhaseOf(p, W[s]))
    BY <1>5, AtParts
<1>9. Grown(p, f, g, n)
    BY <1>7, <1>8, AddEntryGrown DEF g
<1>10. At(p, g, W, t, v, q)
    BY <1>5, <1>9, AtGrown
<1>11. /\ Len(f.dentry) \in Nat /\ Len(f.inode) \in Nat
       /\ Len(g.dentry) = Len(f.dentry) + 1
       /\ g.dentry[cur].name = <<>> /\ g.dentry[cur].inode = Len(f.inode) + 1
       /\ g.inode[Len(f.inode) + 1] = n
  <2> DEFINE d == f.dentry
             b == NewDentry(<<>>, Len(f.inode) + 1)
  <2>1. Sequence(d) /\ Sequence(f.inode)
    BY <1>8 DEF FsOK
  <2>2. g.dentry = Append(d, b)
    BY DEF g, AddEntry
  <2>3. b.name = <<>> /\ b.inode = Len(f.inode) + 1
    BY DEF NewDentry
  <2> HIDE DEF b, d
  <2>4. Len(Append(d, b)) = Len(d) + 1 /\ Append(d, b)[Len(d) + 1] = b
    BY <2>1, AppendElements
  <2>5. Len(d) \in Nat /\ Len(f.inode) \in Nat
    BY <2>1, SequenceDomain
  <2>6. g.inode[Len(f.inode) + 1] = n
    BY <1>9 DEF Grown
  <2> QED
    BY <2>2, <2>3, <2>4, <2>5, <2>6 DEF d
<1>12. /\ DOMAIN v = WalkFields /\ v.buf = w.buf /\ v.inode = w.inode /\ v.cluster = w.cluster /\ InDir(v)
       /\ v.status = "fat"
       /\ DOMAIN u = WalkFields /\ u.buf = w.buf /\ u.inode = w.inode /\ u.cluster = w.cluster /\ InDir(u)
       /\ u.status = "fat" /\ u.cur = cur
    BY FillFields DEF v, u
<1>13. WalkOK(p, g, v, q)
    BY <1>10, AtParts
<1>14. Filling(p, g, cur, r)
  <2> DEFINE l == Len(f.inode)
             m == Len(f.dentry)
  <2>1. l \in Nat /\ m \in Nat
    BY <1>11
  <2> HIDE DEF l, m
  <2>2. m + 1 \in 0 .. m + 1 /\ m + 1 # 0 /\ l + 1 # 0
    BY <2>1
  <2>3. cur \in 0 .. Len(g.dentry) /\ cur # 0 /\ g.dentry[cur].inode # NULL
    BY <1>11, <2>2 DEF l, m, NULL
  <2>4. g.inode[g.dentry[cur].inode].type = r /\ g.inode[g.dentry[cur].inode].loads = 0
    BY <1>3, <1>6, <1>7, <1>11 DEF Blank
  <2> QED
    BY <1>3, <1>11, <2>3, <2>4 DEF Filling
<1>15. WalkOK(p, g, u, r)
    BY <1>12, <1>13, <1>14 DEF WalkOK
<1>16. ASSUME NEW s \in Tasks, s # t, InDir(W[s]) PROVE u.cur # W[s].cur
  <2> DEFINE m == Len(f.dentry)
             c == W[s].cur
  <2>1. m \in Nat /\ c \in 0 .. m
    BY <1>8, <1>11, <1>16 DEF WalkOK, Filling
  <2> HIDE DEF m, c
  <2>2. c # m + 1
    BY <2>1
  <2> QED
    BY <1>12, <2>2 DEF m, c
<1>17. At(p, g, W, t, u, r)
    BY <1>10, <1>12, <1>15, <1>16, AtMove
<1>18. PageAt(p, W, t, w, R, r)
    BY <1>2, <1>17 DEF PageAt, u
<1> QED
    BY <1>18 DEF R

\* What an info entry makes of an inode.
Informed(n, start, length) ==
    [n EXCEPT !.start = start, !.file_length = IF n.type = "file" THEN length ELSE @]

\* A number that is not NULL, up to the last dentry, is that of a dentry.
LEMMA IsDentry ==
    ASSUME NEW p, NEW f, NEW cur, FsOK(p, f), cur \in 0 .. Len(f.dentry), cur # 0
    PROVE  cur \in DOMAIN f.dentry
<1>1. Sequence(f.dentry)
    BY DEF FsOK
<1>2. Len(f.dentry) \in Nat /\ DOMAIN f.dentry = 1 .. Len(f.dentry)
    BY <1>1, SequenceDomain
<1> QED
    BY <1>2

\* An info entry: where the clusters of the new file or directory are.
LEMMA InfoEntry ==
    ASSUME NEW p, NEW W, NEW t \in Tasks, NEW w, NEW P, NEW q, NEW x, NEW r, NEW dir,
           DOMAIN w = WalkFields, PageAt(p, W, t, w, P, q), Legal(p, q, x, r), x.e = "info"
    PROVE  PageAt(p, W, t, w, ParseEntry(P, dir, x), r)
<1> DEFINE f == P.fs
           cur == P.cur
           i == f.dentry[cur].inode
           a == f.inode[i]
           n == Informed(a, x.start, x.length)
           R == ParseEntry(P, dir, x)
           g == R.fs
           u == Fill(w, cur)
<1>1. DOMAIN P = {"fs", "cur"} /\ At(p, f, W, t, u, q)
    BY DEF PageAt
<1>2. /\ q \in {"file", "dir"} /\ r = "info" /\ x.length \in Nat
      /\ q = "dir" => StartOK(p, x.start)
      /\ q = "file" => \E c : IsChain(c, x.start, x.length)
    BY DEF Legal
<1>3. R = [P EXCEPT !.fs.inode[i] = n]
    BY DEF ParseEntry, Informed
<1>4. /\ DOMAIN u = WalkFields /\ u.status = "fat" /\ u.cur = cur
      /\ u.buf = w.buf /\ u.inode = w.inode /\ u.cluster = w.cluster /\ InDir(u)
    BY FillFields
<1>5. /\ FsOK(p, f) /\ WalkOK(p, f, u, q)
      /\ \A s \in Tasks : s # t /\ InDir(u) /\ InDir(W[s])
                             /\ (q \in {"file", "dir"} \/ PhaseOf(p, W[s]) \in {"file", "dir"})
                          => u.cur # W[s].cur
    BY <1>1, AtParts
<1>6. Filling(p, f, cur, q)
    BY <1>4, <1>5 DEF WalkOK
<1>7. /\ cur \in 0 .. Len(f.dentry) /\ cur # 0 /\ i # NULL /\ a.type = q
      /\ q = "file" => a.loads = 0
    BY <1>2, <1>6 DEF Filling
<1>8. i \in DOMAIN f.inode
  <2>1. cur \in DOMAIN f.dentry
    BY <1>5, <1>7, IsDentry
  <2> QED
    BY <1>5, <1>7, <2>1 DEF FsOK
<1>9. InodeOK(a) /\ DOMAIN a = InodeFields /\ DOMAIN f = {"inode", "dentry"}
    BY <1>5, <1>8 DEF FsOK, InodeOK
<1>10. DOMAIN R = {"fs", "cur"} /\ R.cur = cur /\ Put(f, g, i, n)
  <2> HIDE DEF n, R
  <2>1. /\ DOMAIN R = {"fs", "cur"} /\ R.cur = cur
        /\ DOMAIN g = {"inode", "dentry"} /\ g.inode = [f.inode EXCEPT ![i] = n] /\ g.dentry = f.dentry
    BY <1>1, <1>3, <1>8, <1>9
  <2> HIDE DEF g, f
  <2> QED
    BY <1>8, <2>1 DEF Put
<1> HIDE DEF R, g, u
<1>11. /\ DOMAIN n = InodeFields /\ n.start = x.start /\ n.type = a.type /\ n.dentry_lh = a.dentry_lh
       /\ n.loads = a.loads /\ n.load_needed = a.load_needed /\ n.clusters = a.clusters
       /\ n.file_length = IF a.type = "file" THEN x.length ELSE a.file_length
  <2> HIDE DEF a
  <2> QED
    BY <1>9 DEF Informed, InodeFields
<1>12. FileOK(a, i, With(W, t, u)) \/ a.type # "file"
    BY <1>1, <1>8, AtParts
<1> HIDE DEF n, a, i, cur, f
<1>13. InodeOK(n)
    BY <1>2, <1>7, <1>9, <1>11 DEF InodeOK
<1>14. Ready(p, n)
    BY <1>2, <1>7, <1>11 DEF Ready
<1>15. n.type = "file" => FileOK(n, i, With(W, t, u))
  <2>1. SUFFICES ASSUME n.type = "file" PROVE FileOK(n, i, With(W, t, u))
    OBVIOUS
  <2>2. n.loads = 0 /\ a.loads = 0 /\ FileOK(a, i, With(W, t, u))
    BY <1>7, <1>11, <1>12, <2>1
  <2> DEFINE V == With(W, t, u)
  <2> HIDE DEF V
  <2>3. (a.load_needed => a.clusters = <<>>) /\ \A s \in Tasks : ~ InFile(V[s], i)
    BY <2>2 DEF FileOK, V
  <2> QED
    BY <1>11, <2>2, <2>3 DEF FileOK, V
<1>16. WalkOK(p, g, u, "info")
  <2>1. /\ g.dentry = f.dentry /\ DOMAIN g.inode = DOMAIN f.inode /\ g.inode[i] = n
        /\ \A j \in DOMAIN f.inode : g.inode[j].type = f.inode[j].type
    <3>1. \A j \in DOMAIN f.inode : j # i => g.inode[j] = f.inode[j]
      BY <1>10 DEF Put
    <3> QED
      BY <1>10, <1>11, <3>1 DEF Put, a
  <2>2. Filling(p, g, cur, "info")
    BY <1>7, <1>14, <2>1 DEF Filling, i
  <2> QED
    BY <1>4, <1>5, <2>1, <2>2 DEF WalkOK
<1>17. \A j \in DOMAIN f.inode : j # i => ~ InFile(u, j)
    BY <1>4 DEF InFile
<1>18. At(p, g, W, t, u, "info")
  <2>1. /\ n.type = f.inode[i].type /\ n.dentry_lh = f.inode[i].dentry_lh /\ n.loads = f.inode[i].loads
    BY <1>11 DEF a
  <2>2. \A s \in Tasks : s # t /\ InDir(u) /\ InDir(W[s])
                            /\ ("info" \in {"file", "dir"} \/ PhaseOf(p, W[s]) \in {"file", "dir"})
                         => u.cur # W[s].cur
    BY <1>2, <1>5
  <2> QED
    BY <1>1, <1>8, <1>10, <1>13, <1>14, <1>15, <1>16, <1>17, <2>1, <2>2, InodeStep
<1> QED
    BY <1>2, <1>10, <1>18 DEF PageAt, g, u, R

\* The update of a name entry, as an update of one dentry.
LEMMA NamePut ==
    ASSUME NEW P, NEW k, NEW part, k \in DOMAIN P.fs.dentry, DOMAIN P.fs.dentry[k] = DentryFields,
           DOMAIN P = {"fs", "cur"}, DOMAIN P.fs = {"inode", "dentry"}
    PROVE  [P EXCEPT !.fs.dentry[k].name = @ \o part]
           = [P EXCEPT !.fs.dentry[k] = [P.fs.dentry[k] EXCEPT !.name = @ \o part]]
    OBVIOUS

\* A name entry: one more part of the name.
LEMMA NameEntry ==
    ASSUME NEW p, NEW W, NEW t \in Tasks, NEW w, NEW P, NEW q, NEW x, NEW r, NEW dir,
           DOMAIN w = WalkFields, PageAt(p, W, t, w, P, q), Legal(p, q, x, r), x.e = "name"
    PROVE  PageAt(p, W, t, w, ParseEntry(P, dir, x), r)
<1> DEFINE f == P.fs
           cur == P.cur
           i == f.dentry[cur].inode
           b == f.dentry[cur]
           d == [b EXCEPT !.name = @ \o x.part]
           R == ParseEntry(P, dir, x)
           g == R.fs
           u == Fill(w, cur)
<1>1. DOMAIN P = {"fs", "cur"} /\ At(p, f, W, t, u, q)
    BY DEF PageAt
<1>2. q \in {"info", "name"} /\ r = "name"
    BY DEF Legal
<1>3. R = IF cur = NULL THEN P ELSE [P EXCEPT !.fs.dentry[cur].name = @ \o x.part]
    BY DEF ParseEntry
<1>4. /\ DOMAIN u = WalkFields /\ u.status = "fat" /\ u.cur = cur
      /\ u.buf = w.buf /\ u.inode = w.inode /\ u.cluster = w.cluster /\ InDir(u)
    BY FillFields
<1>5. /\ FsOK(p, f) /\ WalkOK(p, f, u, q)
      /\ \A s \in Tasks : s # t => WalkOK(p, f, W[s], PhaseOf(p, W[s]))
      /\ \A s \in Tasks : s # t /\ InDir(u) /\ InDir(W[s])
                             /\ (q \in {"file", "dir"} \/ PhaseOf(p, W[s]) \in {"file", "dir"})
                          => u.cur # W[s].cur
    BY <1>1, AtParts
<1>6. Filling(p, f, cur, q)
    BY <1>4, <1>5 DEF WalkOK
<1>7. cur \in 0 .. Len(f.dentry) /\ cur # 0 /\ i # NULL /\ Ready(p, f.inode[i])
    BY <1>2, <1>6 DEF Filling
<1>8. cur \in DOMAIN f.dentry
    BY <1>5, <1>7, IsDentry
<1>9. DOMAIN b = DentryFields /\ DOMAIN f = {"inode", "dentry"}
    BY <1>5, <1>8 DEF FsOK
<1>10. /\ DOMAIN R = {"fs", "cur"} /\ R.cur = cur
       /\ DOMAIN g = {"inode", "dentry"} /\ g.inode = f.inode /\ g.dentry = [f.dentry EXCEPT ![cur] = d]
  <2>1. R = [P EXCEPT !.fs.dentry[cur] = d]
    BY <1>1, <1>3, <1>7, <1>8, <1>9, NamePut DEF NULL
  <2> HIDE DEF R, d
  <2> QED
    BY <1>1, <1>8, <1>9, <2>1
<1> HIDE DEF R, g, u, b
<1>11. DOMAIN d = DentryFields /\ d.inode = b.inode /\ d.mounted_inode = b.mounted_inode
    BY <1>9 DEF DentryFields
<1> HIDE DEF d
<1>12. /\ DOMAIN d = DentryFields /\ d.inode = f.dentry[cur].inode
       /\ d.mounted_inode # NULL => /\ d.mounted_inode \in DOMAIN f.inode
                                    /\ f.inode[d.mounted_inode].type = "dir"
                                    /\ Ready(p, f.inode[d.mounted_inode])
       /\ d.inode # NULL /\ d.name # <<>> => Ready(p, f.inode[d.inode])
    BY <1>5, <1>7, <1>8, <1>11 DEF FsOK, b
<1> HIDE DEF f, cur
<1>13. FsOK(p, g) /\ Stays(p, f, g, NULL, cur)
    BY <1>5, <1>8, <1>10, <1>12, DentryChanged
<1>14. ASSUME NEW s \in Tasks, s # t PROVE Apart(f, W[s], PhaseOf(p, W[s]), NULL, cur)
  <2>1. Apart(f, W[s], PhaseOf(p, W[s]), NULL, NULL)
    BY <1>5, <1>14, ApartFromNone
  <2>2. InDir(W[s]) /\ PhaseOf(p, W[s]) \in {"file", "dir"} => W[s].cur # cur
    BY <1>4, <1>5, <1>14
  <2> QED
    BY <2>1, <2>2 DEF Apart
<1>15. Filling(p, g, cur, "name")
  <2>1. Len(f.dentry) <= Len(g.dentry) /\ Len(f.dentry) \in Nat /\ Len(g.dentry) \in Nat
    BY <1>13 DEF Stays
  <2>2. cur \in 0 .. Len(g.dentry)
    BY <1>7, <2>1
  <2>3. g.dentry[cur].inode = i
    BY <1>8, <1>13 DEF Stays
  <2> QED
    BY <1>7, <1>10, <2>2, <2>3 DEF Filling
<1>16. WalkOK(p, g, u, "name")
    BY <1>4, <1>5, <1>10, <1>15 DEF WalkOK
<1>17. NULL \notin DOMAIN f.inode
    BY <1>5, NullIsNone DEF FsOK
<1>18. \A j \in DOMAIN f.inode : SameFields(f.inode[j], g.inode[j]) /\ ~ InFile(u, j)
    BY <1>4, <1>10 DEF SameFields, InFile
<1>19. At(p, g, W, t, u, "name")
  <2>1. \A s \in Tasks : s # t /\ InDir(u) /\ InDir(W[s])
                            /\ ("name" \in {"file", "dir"} \/ PhaseOf(p, W[s]) \in {"file", "dir"})
                         => u.cur # W[s].cur
    BY <1>5
  <2>2. DOMAIN g.inode = DOMAIN f.inode
    BY <1>10
  <2> QED
    BY <1>1, <1>13, <1>14, <1>16, <1>17, <1>18, <2>1, <2>2, AtStep
<1> QED
    BY <1>2, <1>10, <1>19 DEF PageAt, g, u, R

\* Any entry.
LEMMA EntryParsed ==
    ASSUME NEW p, NEW W, NEW t \in Tasks, NEW w, NEW P, NEW q, NEW x, NEW r, NEW dir,
           DOMAIN w = WalkFields, PageAt(p, W, t, w, P, q), Legal(p, q, x, r)
    PROVE  PageAt(p, W, t, w, ParseEntry(P, dir, x), r)
<1>1. CASE x.e \in {"file", "info", "name"}
    BY <1>1, FileEntry, InfoEntry, NameEntry
<1>2. CASE x.e \notin {"file", "info", "name"}
  <2>1. r = q
    BY <1>2 DEF Legal
  <2>2. ParseEntry(P, dir, x) = P
    BY <1>2 DEF ParseEntry
  <2> QED
    BY <2>1, <2>2
<1> QED
    BY <1>1, <1>2

\* ParsePage takes the turns of its loop.
LEMMA PageTurns ==
    ASSUME NEW f, NEW dir, NEW cur, NEW entries, EntriesOf(entries) \in Nat
    PROVE  \E a : /\ Turns(a, EntriesOf(entries), "page", [dir |-> dir, entries |-> entries],
                           [fs |-> f, cur |-> cur])
                  /\ ParsePage(f, dir, cur, entries) = a[EntriesOf(entries)]
<1> DEFINE n == EntriesOf(entries)
           v == [fs |-> f, cur |-> cur]
           F(a) == [k \in 0 .. n |-> IF k = 0 THEN v ELSE ParseEntry(a[k - 1], dir, entries[k])]
           q == CHOOSE a : a = F(a)
           x == [dir |-> dir, entries |-> entries]
<1>1. ParsePage(f, dir, cur, entries) = q[n]
    BY DEF ParsePage, EntriesOf
<1>2. \A a : F(a) = [k \in 0 .. n |-> IF k = 0 THEN v ELSE Turn("page", x, k, a[k - 1])]
    BY DEF Turn
<1> HIDE DEF n, F, x, v
<1>4. \A a : Turns(a, n, "page", x, v) <=> a = F(a)
    BY <1>2 DEF Turns
<1>5. \E a : a = F(a)
    BY <1>4, TurnsExist DEF n
<1>6. q = F(q)
    BY <1>5
<1>7. Turns(q, n, "page", x, v)
    BY <1>4, <1>6
<1> QED
    BY <1>1, <1>7 DEF n, x, v

\* The turns of a loop, one by one.
LEMMA TurnByTurn ==
    ASSUME NEW a, NEW n \in Nat, NEW loop, NEW x, NEW v, Turns(a, n, loop, x, v)
    PROVE  a[0] = v /\ \A k \in 1 .. n : a[k] = Turn(loop, x, k, a[k - 1])
<1>1. \A k \in 0 .. n : a[k] = IF k = 0 THEN v ELSE Turn(loop, x, k, a[k - 1])
    BY DEF Turns
<1>2. 0 \in 0 .. n
    OBVIOUS
<1>3. \A k \in 1 .. n : k \in 0 .. n /\ k # 0
    OBVIOUS
<1> QED
    BY <1>1, <1>2, <1>3

\* The number before.
LEMMA NumberBefore ==
    ASSUME NEW n \in Nat, NEW T \in SUBSET Nat, NEW m \in T, \A j \in T : m <= j, m # 0, m <= n
    PROVE  m \in 1 .. n /\ m - 1 \in Nat /\ m - 1 \in 0 .. n /\ m - 1 <= n /\ m - 1 \notin T
<1>1. m \in Nat
    OBVIOUS
<1>2. m - 1 \in Nat /\ ~ (m <= m - 1)
    BY <1>1
<1> QED
    BY <1>1, <1>2

\* The entries of a page, as many as are looked at, follow the grammar.
LEMMA PageParsed ==
    ASSUME NEW p, NEW W, NEW t \in Tasks, NEW w, NEW c \in DOMAIN DiskPages, NEW f, NEW dir, Grammar(p),
           DOMAIN w = WalkFields, PageAt(p, W, t, w, [fs |-> f, cur |-> w.cur], p[c][0])
    PROVE  PageAt(p, W, t, w, ParsePage(f, dir, w.cur, DiskPages[c]), p[c][EntriesOf(DiskPages[c])])
<1> DEFINE e == DiskPages[c]
           n == EntriesOf(e)
           v == [fs |-> f, cur |-> w.cur]
           x == [dir |-> dir, entries |-> e]
<1>1. n \in Nat /\ \A k \in 1 .. n : Legal(p, p[c][k - 1], e[k], p[c][k])
    BY DEF Grammar
<1>2. PICK a : Turns(a, n, "page", x, v) /\ ParsePage(f, dir, w.cur, e) = a[n]
    BY <1>1, PageTurns
<1> HIDE DEF n, v
<1>3. a[0] = v /\ \A k \in 1 .. n : a[k] = Turn("page", x, k, a[k - 1])
    BY <1>1, <1>2, TurnByTurn
<1>4. \A k \in 1 .. n : a[k] = ParseEntry(a[k - 1], dir, e[k])
    BY <1>3 DEF Turn
<1> HIDE DEF e, x
<1> DEFINE T == {k \in Nat : k <= n /\ ~ PageAt(p, W, t, w, a[k], p[c][k])}
<1>5. T = {}
  <2>1. SUFFICES ASSUME T # {} PROVE FALSE
    OBVIOUS
  <2>2. PICK m \in T : \A j \in T : m <= j
    BY <2>1, LeastNatural
  <2>3. m \in Nat /\ m <= n /\ ~ PageAt(p, W, t, w, a[m], p[c][m])
    BY <2>2
  <2>4. T \in SUBSET Nat
    OBVIOUS
  <2>5. m # 0
    BY <1>3, <2>3 DEF v
  <2> HIDE DEF T
  <2>6. m \in 1 .. n /\ m - 1 \in Nat /\ m - 1 <= n /\ m - 1 \notin T
    BY <1>1, <2>2, <2>3, <2>4, <2>5, NumberBefore
  <2>7. PageAt(p, W, t, w, a[m - 1], p[c][m - 1])
    BY <2>6 DEF T
  <2>8. Legal(p, p[c][m - 1], e[m], p[c][m]) /\ a[m] = ParseEntry(a[m - 1], dir, e[m])
    BY <1>1, <1>4, <2>6
  <2>9. PageAt(p, W, t, w, ParseEntry(a[m - 1], dir, e[m]), p[c][m])
    BY <2>7, <2>8, EntryParsed
  <2> QED
    BY <2>3, <2>8, <2>9
<1>6. PageAt(p, W, t, w, a[n], p[c][n])
  <2>1. n <= n
    BY <1>1
  <2> QED
    BY <1>1, <1>5, <2>1
<1> QED
    BY <1>2, <1>6 DEF n, e

\* A page of a directory arrives.
LEMMA PageArrivesResult ==
    ASSUME NEW p, NEW f, NEW W, NEW t \in Tasks, NEW w, Grammar(p),
           At(p, f, W, t, w, PhaseOf(p, w)), w.status = "page"
    PROVE  Result(p, W, t, w.device, PageArrives(f, w))
<1> DEFINE c == w.cluster
           q == PhaseOf(p, w)
           P == ParsePage(f, w.inode, w.cur, DiskPages[c])
           v == [fs |-> f, cur |-> w.cur]
           u == Fill(w, w.cur)
           z == Fill(w, P.cur)
           r == PageArrives(f, w)
<1>1. q = p[c][0]
    BY DEF PhaseOf
<1>2. At(p, f, W, t, w, q)
    OBVIOUS
<1> HIDE DEF q, P, c, v, u, z, r
<1>3. /\ FsOK(p, f) /\ WalkOK(p, f, w, q)
      /\ \A s \in Tasks : s # t => WalkOK(p, f, W[s], PhaseOf(p, W[s]))
      /\ \A i \in DOMAIN f.inode : f.inode[i].type = "file" => FileOK(f.inode[i], i, With(W, t, w))
      /\ \A s \in Tasks : s # t /\ InDir(w) /\ InDir(W[s])
                             /\ (q \in {"file", "dir"} \/ PhaseOf(p, W[s]) \in {"file", "dir"})
                          => w.cur # W[s].cur
    BY <1>2, AtParts
<1>4. /\ DOMAIN w = WalkFields /\ w.buf \in Nat \ {0} /\ w.inode \in DOMAIN f.inode /\ InDir(w)
      /\ f.inode[w.inode].type = "dir" /\ c \in DOMAIN DiskPages /\ Filling(p, f, w.cur, q)
    BY <1>3 DEF WalkOK, InDir, c
<1>5. /\ DOMAIN u = WalkFields /\ u.status = "fat" /\ u.cur = w.cur /\ u.buf = w.buf /\ u.inode = w.inode
      /\ u.cluster = c /\ InDir(u)
      /\ z.status = "fat" /\ z.cluster = c /\ z.device = w.device
    BY <1>4, FillFields, Zenon DEF u, z, c
<1>6. v.fs = f /\ v.cur = w.cur /\ DOMAIN v = {"fs", "cur"}
    BY DEF v
<1>7. r.fs = P.fs /\ r.w = z
    BY DEF PageArrives, P, Fill, r, z, c
<1>8. WalkOK(p, f, u, q)
    BY <1>4, <1>5 DEF WalkOK
<1>9. At(p, f, W, t, u, q)
  <2>1. \A s \in Tasks : s # t /\ InDir(u) /\ InDir(W[s])
                            /\ (q \in {"file", "dir"} \/ PhaseOf(p, W[s]) \in {"file", "dir"})
                         => u.cur # W[s].cur
    BY <1>3, <1>4, <1>5
  <2> QED
    BY <1>2, <1>5, <1>8, <2>1, AtMove
<1>10. PageAt(p, W, t, w, v, p[c][0])
    BY <1>1, <1>6, <1>9 DEF PageAt, u
<1>11. PageAt(p, W, t, w, P, p[c][EntriesOf(DiskPages[c])])
    BY <1>4, <1>10, PageParsed DEF v, P
<1>12. PhaseOf(p, z) = p[c][EntriesOf(DiskPages[c])]
    BY <1>5 DEF PhaseOf
<1>13. At(p, P.fs, W, t, z, PhaseOf(p, z))
    BY <1>11, <1>12 DEF PageAt, z
<1> QED
    BY <1>5, <1>7, <1>13 DEF Result, r

-----------------------------------------------------------------------------
(* Booting, and the partitions.                                            *)

\* No task is in a system call.
NoWalks == [t \in Tasks |-> NoWalk]
NoPhases == [t \in Tasks |-> "none"]

\* How many entries of the partition table nvmepart_probe handles.
Handled ==
    LET bad == {k \in DOMAIN GptEntries : k > GptFits \/ (GptEntries[k].used /\ GptEntries[k].beyond2tb)}
    IN IF bad = {} THEN Len(GptEntries) ELSE (CHOOSE k \in bad : \A j \in bad : k <= j) - 1

\* That is a natural number.
LEMMA HandledNatural ==
    ASSUME VfsAssumption
    PROVE  Handled \in Nat
<1> DEFINE bad == {k \in DOMAIN GptEntries : k > GptFits \/ (GptEntries[k].used /\ GptEntries[k].beyond2tb)}
<1>1. Sequence(GptEntries)
    BY DEF VfsAssumption, Sequence
<1>2. Len(GptEntries) \in Nat /\ DOMAIN GptEntries = 1 .. Len(GptEntries)
    BY <1>1, SequenceDomain
<1>3. Handled = IF bad = {} THEN Len(GptEntries) ELSE (CHOOSE k \in bad : \A j \in bad : k <= j) - 1
    BY DEF Handled
<1>4. bad \subseteq Nat \ {0}
    BY <1>2
<1> HIDE DEF bad
<1>5. CASE bad = {}
    BY <1>2, <1>3, <1>5
<1>6. CASE bad # {}
  <2>1. \E k \in bad : \A j \in bad : k <= j
    BY <1>4, <1>6, LeastNatural
  <2> DEFINE m == CHOOSE k \in bad : \A j \in bad : k <= j
  <2>2. m \in bad
    BY <2>1
  <2> HIDE DEF m
  <2>3. m - 1 \in Nat
    BY <1>4, <2>2
  <2> QED
    BY <1>3, <1>6, <2>3 DEF m
<1> QED
    BY <1>5, <1>6

\* The turns of nvmepart_probe.
LEMMA ProbeTurns ==
    ASSUME nvmepart_probe, Handled \in Nat, NEW x
    PROVE  \E a : Turns(a, Handled, "gpt", x, fs) /\ fs' = a[Handled]
<1> DEFINE n == Handled
           F(a) == [k \in 0 .. n |->
                      IF k = 0 THEN fs
                      ELSE IF ~ GptEntries[k].used THEN a[k - 1]
                      ELSE vfs_mknod(a[k - 1], DEV, GptEntries[k].name, <<"nvmepart", k>>)]
           q == CHOOSE a : a = F(a)
<1>1. fs' = q[n]
    BY DEF nvmepart_probe, Handled
<1>2. \A a : F(a) = [k \in 0 .. n |-> IF k = 0 THEN fs ELSE Turn("gpt", x, k, a[k - 1])]
    BY DEF Turn
<1> HIDE DEF n, F
<1>4. \A a : Turns(a, n, "gpt", x, fs) <=> a = F(a)
    BY <1>2 DEF Turns
<1>5. \E a : a = F(a)
    BY <1>4, TurnsExist DEF n
<1>6. q = F(q)
    BY <1>5
<1>7. Turns(q, n, "gpt", x, fs)
    BY <1>4, <1>6
<1> QED
    BY <1>1, <1>7 DEF n

\* The turns of extract_tar_files.
LEMMA TarTurns ==
    ASSUME NEW f, Len(TarEntries) \in Nat, NEW x
    PROVE  \E a : Turns(a, Len(TarEntries), "tar", x, f) /\ extract_tar_files(f) = a[Len(TarEntries)]
<1> DEFINE n == Len(TarEntries)
           F(a) == [k \in 0 .. n |-> IF k = 0 THEN f ELSE Extract(a[k - 1], TarEntries[k])]
           q == CHOOSE a : a = F(a)
<1>1. extract_tar_files(f) = q[n]
    BY DEF extract_tar_files
<1>2. \A a : F(a) = [k \in 0 .. n |-> IF k = 0 THEN f ELSE Turn("tar", x, k, a[k - 1])]
    BY DEF Turn
<1> HIDE DEF n, F
<1>4. \A a : Turns(a, n, "tar", x, f) <=> a = F(a)
    BY <1>2 DEF Turns
<1>5. \E a : a = F(a)
    BY <1>4, TurnsExist DEF n
<1>6. q = F(q)
    BY <1>5
<1>7. Turns(q, n, "tar", x, f)
    BY <1>4, <1>6
<1> QED
    BY <1>1, <1>7 DEF n

\* A device file for each partition: the invariant holds on.
LEMMA ProbeKeepsAll ==
    ASSUME NEW p, NEW W, NEW Q, All(p, fs, W, Q), nvmepart_probe, VfsAssumption
    PROVE  All(p, fs', W, Q)
<1> DEFINE n == Handled
<1>1. n \in Nat
    BY HandledNatural
<1>2. PICK a : Turns(a, n, "gpt", NULL, fs) /\ fs' = a[n]
    BY <1>1, ProbeTurns
<1> HIDE DEF n
<1>3. a[0] = fs /\ \A k \in 1 .. n : a[k] = Turn("gpt", NULL, k, a[k - 1])
    BY <1>1, <1>2, TurnByTurn
<1>4. ASSUME NEW k \in 1 .. n, All(p, a[k - 1], W, Q) PROVE All(p, a[k], W, Q)
  <2> DEFINE f == a[k - 1]
             g == vfs_mknod(f, DEV, GptEntries[k].name, <<"nvmepart", k>>)
  <2>1. a[k] = f \/ a[k] = g
    BY <1>3 DEF Turn
  <2>2. FsOK(p, f)
    BY <1>4 DEF All
  <2>3. \E m : Grown(p, f, g, m)
    BY <2>2, MakeGrown
  <2>4. All(p, f, W, Q)
    BY <1>4
  <2> HIDE DEF f, g
  <2>5. All(p, g, W, Q)
    BY <2>3, <2>4, GrownAll
  <2> QED
    BY <2>1, <2>4, <2>5
<1> DEFINE T == {k \in Nat : k <= n /\ ~ All(p, a[k], W, Q)}
<1>5. T = {}
  <2>1. SUFFICES ASSUME T # {} PROVE FALSE
    OBVIOUS
  <2>2. PICK m \in T : \A j \in T : m <= j
    BY <2>1, LeastNatural
  <2>3. m \in Nat /\ m <= n /\ ~ All(p, a[m], W, Q)
    BY <2>2
  <2>4. T \in SUBSET Nat /\ m # 0
    BY <1>3, <2>3
  <2> HIDE DEF T
  <2>5. m \in 1 .. n /\ m - 1 \in Nat /\ m - 1 <= n /\ m - 1 \notin T
    BY <1>1, <2>2, <2>3, <2>4, NumberBefore
  <2>6. All(p, a[m - 1], W, Q)
    BY <2>5 DEF T
  <2> QED
    BY <1>4, <2>3, <2>5, <2>6
<1>6. n <= n
    BY <1>1
<1> QED
    BY <1>1, <1>2, <1>5, <1>6

\* The tree while the initramfs is extracted: a panic leaves none.
Extracted(p, f) ==
    DOMAIN f = {"inode", "dentry"} /\ (f.inode = <<>> \/ All(p, f, NoWalks, NoPhases))

\* Extracting one entry keeps the tree sound, or panics.
LEMMA ExtractKeepsAll ==
    ASSUME NEW p, NEW f, NEW entry, Extracted(p, f)
    PROVE  Extracted(p, Extract(f, entry))
<1> DEFINE w == Walk(f, entry.path, StartWalk(entry.path))
           name == entry.path[w.buf]
           g == vfs_mkdir(f, w.inode, name)
           h == vfs_create(f, w.inode, name)
           e == [f EXCEPT !.inode = <<>>]
           r == Extract(f, entry)
<1>1. r = IF f.inode = <<>> \/ w.status # "could exist" THEN e ELSE IF entry.dir THEN g ELSE h
    BY DEF Extract
<1>2. DOMAIN f = {"inode", "dentry"} /\ (f.inode # <<>> => All(p, f, NoWalks, NoPhases))
    BY DEF Extracted
<1>3. DOMAIN e = {"inode", "dentry"} /\ e.inode = <<>>
    BY <1>2
<1>4. ASSUME f.inode # <<>> PROVE Extracted(p, g) /\ Extracted(p, h)
  <2>1. FsOK(p, f) /\ All(p, f, NoWalks, NoPhases)
    BY <1>2, <1>4 DEF All
  <2>2. (\E n : Grown(p, f, g, n)) /\ (\E n : Grown(p, f, h, n))
    BY <2>1, MakeGrown
  <2> HIDE DEF g, h
  <2>3. All(p, g, NoWalks, NoPhases) /\ All(p, h, NoWalks, NoPhases)
    BY <2>1, <2>2, GrownAll
  <2>4. DOMAIN g = {"inode", "dentry"} /\ DOMAIN h = {"inode", "dentry"}
    BY <2>2 DEF Grown
  <2> QED
    BY <2>3, <2>4 DEF Extracted
<1>5. Extracted(p, e)
    BY <1>3 DEF Extracted
<1> HIDE DEF w, g, h, e, r
<1>6. Extracted(p, r)
    BY <1>1, <1>4, <1>5
<1> QED
    BY <1>6 DEF r

\* And so does extracting them all.
LEMMA TarKeepsAll ==
    ASSUME NEW p, NEW f, Extracted(p, f), VfsAssumption
    PROVE  Extracted(p, extract_tar_files(f))
<1> DEFINE n == Len(TarEntries)
<1>1. n \in Nat
  <2>1. Sequence(TarEntries)
    BY DEF VfsAssumption, Sequence
  <2> QED
    BY <2>1, SequenceDomain
<1>2. PICK a : Turns(a, n, "tar", NULL, f) /\ extract_tar_files(f) = a[n]
    BY <1>1, TarTurns
<1> HIDE DEF n
<1>3. a[0] = f /\ \A k \in 1 .. n : a[k] = Turn("tar", NULL, k, a[k - 1])
    BY <1>1, <1>2, TurnByTurn
<1>4. ASSUME NEW k \in 1 .. n, Extracted(p, a[k - 1]) PROVE Extracted(p, a[k])
  <2>1. a[k] = Extract(a[k - 1], TarEntries[k])
    BY <1>3 DEF Turn
  <2> QED
    BY <1>4, <2>1, ExtractKeepsAll
<1> DEFINE T == {k \in Nat : k <= n /\ ~ Extracted(p, a[k])}
<1>5. T = {}
  <2>1. SUFFICES ASSUME T # {} PROVE FALSE
    OBVIOUS
  <2>2. PICK m \in T : \A j \in T : m <= j
    BY <2>1, LeastNatural
  <2>3. m \in Nat /\ m <= n /\ ~ Extracted(p, a[m])
    BY <2>2
  <2>4. T \in SUBSET Nat /\ m # 0
    BY <1>3, <2>3
  <2> HIDE DEF T
  <2>5. m \in 1 .. n /\ m - 1 \in Nat /\ m - 1 <= n /\ m - 1 \notin T
    BY <1>1, <2>2, <2>3, <2>4, NumberBefore
  <2>6. Extracted(p, a[m - 1])
    BY <2>5 DEF T
  <2> QED
    BY <1>4, <2>3, <2>5, <2>6
<1>6. n <= n
    BY <1>1
<1> QED
    BY <1>1, <1>2, <1>5, <1>6

\* While the system boots, the tree is sound if its files are not being loaded.
LEMMA Booting ==
    ASSUME NEW p, NEW f
    PROVE  All(p, f, NoWalks, NoPhases) <=>
             /\ FsOK(p, f)
             /\ \A i \in DOMAIN f.inode : f.inode[i].type = "file" => FileOK(f.inode[i], i, NoWalks)
<1>1. ASSUME NEW t \in Tasks PROVE WalkOK(p, f, NoWalks[t], NoPhases[t]) /\ ~ InDir(NoWalks[t])
  <2>1. NoWalks[t].status = "idle"
    BY DEF NoWalks, NoWalk
  <2> QED
    BY <2>1 DEF WalkOK, InDir
<1> QED
  BY <1>1 DEF All

\* One inode more.
Longer(f, g, n) == Len(g.inode) = Len(f.inode) + 1 /\ g.inode[Len(f.inode) + 1] = n

\* The tree that a new node is added to.
LEMMA BootGrown ==
    ASSUME NEW p, NEW f, NEW g, NEW n, All(p, f, NoWalks, NoPhases), Grown(p, f, g, n)
    PROVE  /\ All(p, g, NoWalks, NoPhases)
           /\ Longer(f, g, n)
           /\ \A i \in DOMAIN f.inode : i \in DOMAIN g.inode /\ g.inode[i].type = f.inode[i].type
                                        /\ g.inode[i].load_needed = f.inode[i].load_needed
<1>1. FsOK(p, f)
    BY DEF All
<1>2. All(p, g, NoWalks, NoPhases)
    BY GrownAll
<1>3. Longer(f, g, n)
    BY DEF Grown, Longer
<1>4. /\ Len(f.inode) \in Nat /\ DOMAIN f.inode = 1 .. Len(f.inode) /\ DOMAIN g.inode = 1 .. Len(f.inode) + 1
      /\ \A i \in DOMAIN f.inode : g.inode[i].type = f.inode[i].type
                                   /\ g.inode[i].load_needed = f.inode[i].load_needed
    BY <1>1, GrownOld
<1>5. \A i \in DOMAIN f.inode : i \in DOMAIN g.inode
    BY <1>4
<1> QED
    BY <1>2, <1>3, <1>4, <1>5

\* One inode, the root.
LEMMA RootAlone ==
    ASSUME NEW p, NEW f, DOMAIN f = {"inode", "dentry"}, f.inode = <<NewInode("dir", "ramfs")>>, f.dentry = <<>>
    PROVE  All(p, f, NoWalks, NoPhases) /\ Len(f.inode) = 1
<1> DEFINE n == NewInode("dir", "ramfs")
<1>1. Blank(n) /\ ~ n.load_needed /\ n.type = "dir"
    BY NewInodeBlank
<1> HIDE DEF n
<1>2. f.inode = <<n>>
    BY DEF n
<1>3. Sequence(f.inode) /\ Len(f.inode) = 1 /\ DOMAIN f.inode = {1} /\ f.inode[1] = n
  <2>1. <<n>> \in Seq({n})
    OBVIOUS
  <2>2. Len(<<n>>) = 1 /\ <<n>>[1] = n /\ DOMAIN <<n>> = 1 .. 1
    OBVIOUS
  <2>3. 1 .. 1 = {1}
    OBVIOUS
  <2> QED
    BY <1>2, <2>1, <2>2, <2>3, Zenon DEF Sequence
<1>4. Sequence(f.dentry) /\ DOMAIN f.dentry = {}
  <2>1. DOMAIN <<>> = {}
    OBVIOUS
  <2> QED
    BY <2>1, EmptySequence
<1>5. DOMAIN n.dentry_lh = {}
  <2>1. DOMAIN <<>> = {}
    OBVIOUS
  <2>2. n.dentry_lh = <<>>
    BY <1>1 DEF Blank
  <2> QED
    BY <2>1, <2>2, Zenon
<1>6. FsOK(p, f)
    BY <1>1, <1>3, <1>4, <1>5 DEF FsOK, ROOT, Blank
<1> QED
    BY <1>1, <1>3, <1>6, Booting

\* The root, with dev and sys.
LEMMA VfsInit ==
    ASSUME NEW p
    PROVE  All(p, vfs_init, NoWalks, NoPhases) /\ Len(vfs_init.inode) = 3
<1> DEFINE e == [inode |-> <<NewInode("dir", "ramfs")>>, dentry |-> <<>>]
           f == vfs_mkdir(e, ROOT, <<"dev">>)
           g == vfs_mkdir(f, ROOT, <<"sys">>)
<1>1. vfs_init = g
    BY DEF vfs_init
<1>2. DOMAIN e = {"inode", "dentry"} /\ e.inode = <<NewInode("dir", "ramfs")>> /\ e.dentry = <<>>
    OBVIOUS
<1> HIDE DEF e
<1>3. All(p, e, NoWalks, NoPhases) /\ Len(e.inode) = 1
    BY <1>2, RootAlone
<1>4. PICK n : Grown(p, e, f, n)
    BY <1>3, MakeGrown DEF All
<1> HIDE DEF f
<1>5. All(p, f, NoWalks, NoPhases) /\ Len(f.inode) = 1 + 1
  <2>1. All(p, f, NoWalks, NoPhases) /\ Longer(e, f, n)
    BY <1>3, <1>4, BootGrown
  <2> QED
    BY <1>3, <2>1 DEF Longer
<1>6. PICK m : Grown(p, f, g, m)
    BY <1>5, MakeGrown DEF All
<1> HIDE DEF g
<1>7. All(p, g, NoWalks, NoPhases) /\ Len(g.inode) = (1 + 1) + 1
  <2>1. All(p, g, NoWalks, NoPhases) /\ Longer(f, g, m)
    BY <1>5, <1>6, BootGrown
  <2> QED
    BY <1>5, <2>1 DEF Longer
<1> QED
    BY <1>1, <1>7

\* A tree with the same inodes and dentries.
LEMMA SameTree ==
    ASSUME NEW p, NEW f, NEW g, FsOK(p, f), DOMAIN g = {"inode", "dentry"},
           g.inode = f.inode, g.dentry = f.dentry
    PROVE  FsOK(p, g)
    BY DEF FsOK

\* A directory is mounted on a dentry.
LEMMA Mounted ==
    ASSUME NEW p, NEW f, NEW k, NEW i, NEW g, NEW d, All(p, f, NoWalks, NoPhases), i \in DOMAIN f.inode,
           f.inode[i].type = "dir", ~ f.inode[i].load_needed,
           DOMAIN g = {"inode", "dentry"}, g.inode = f.inode, g.dentry = [f.dentry EXCEPT ![k] = d],
           d = [f.dentry[k] EXCEPT !.mounted_inode = i]
    PROVE  All(p, g, NoWalks, NoPhases)
<1>1. FsOK(p, f) /\ Sequence(f.dentry)
    BY DEF All, FsOK
<1>3. Ready(p, f.inode[i])
    BY DEF Ready
<1>4. FsOK(p, g)
  <2>1. CASE k \in DOMAIN f.dentry
    <3> DEFINE b == f.dentry[k]
    <3>1. /\ DOMAIN b = DentryFields
          /\ b.inode # NULL /\ b.name # <<>> => Ready(p, f.inode[b.inode])
      BY <1>1, <2>1 DEF FsOK
    <3>2. DOMAIN d = DentryFields /\ d.mounted_inode = i /\ d.inode = b.inode /\ d.name = b.name
      BY <3>1 DEF DentryFields
    <3>3. /\ d.mounted_inode # NULL => /\ d.mounted_inode \in DOMAIN f.inode
                                        /\ f.inode[d.mounted_inode].type = "dir"
                                        /\ Ready(p, f.inode[d.mounted_inode])
          /\ d.inode # NULL /\ d.name # <<>> => Ready(p, f.inode[d.inode])
      BY <1>3, <3>1, <3>2
    <3> QED
      BY <1>1, <2>1, <3>2, <3>3, DentryChanged
  <2>2. CASE k \notin DOMAIN f.dentry
    <3> DEFINE s == f.dentry
               r == [s EXCEPT ![k] = d]
    <3>1. \E S : s \in Seq(S)
      BY <1>1 DEF Sequence
    <3>2. PICK S : s \in Seq(S)
      BY <3>1
    <3>3. s = [j \in DOMAIN s |-> s[j]]
      BY <3>2
    <3>4. r = s
      BY <2>2, <3>3
    <3> QED
      BY <1>1, <3>4, SameTree
  <2> QED
    BY <2>1, <2>2
<1>5. \A j \in DOMAIN g.inode : g.inode[j].type = "file" => FileOK(g.inode[j], j, NoWalks)
    BY Booting
<1> QED
    BY <1>4, <1>5, Booting

\* A file of sysfs.
LEMMA SysFile ==
    ASSUME NEW n
    PROVE  LET a == [NewInode("file", "sysfs") EXCEPT !.file_length = 10, !.start = n]
           IN Blank(a) /\ Ready(NULL, a) /\ \A p : Ready(p, a)
<1> DEFINE b == NewInode("file", "sysfs")
           a == [b EXCEPT !.file_length = 10, !.start = n]
<1>1. Blank(b) /\ ~ b.load_needed /\ b.type = "file" /\ DOMAIN b = InodeFields
    BY NewInodeBlank
<1> HIDE DEF b
<1>2. /\ DOMAIN a = InodeFields /\ a.type = "file" /\ a.load_needed = b.load_needed /\ a.loads = b.loads
      /\ a.clusters = b.clusters /\ a.dentry_lh = b.dentry_lh /\ a.file_length = 10
    BY <1>1 DEF InodeFields
<1> HIDE DEF a
<1>3. 10 \in Nat
    OBVIOUS
<1>4. Blank(a)
    BY <1>1, <1>2, <1>3 DEF Blank, InodeOK
<1>5. \A p : Ready(p, a)
    BY <1>1, <1>2 DEF Ready
<1> QED
    BY <1>4, <1>5 DEF a, b

\* sysfs, mounted on sys.
LEMMA SysfsInit ==
    ASSUME NEW p, NEW f, All(p, f, NoWalks, NoPhases), Len(f.inode) = 3
    PROVE  All(p, sysfs_init(f), NoWalks, NoPhases)
<1> DEFINE n == NewInode("dir", "sysfs")
           File(k) == [NewInode("file", "sysfs") EXCEPT !.file_length = 10, !.start = k]
           g == [f EXCEPT !.inode = Append(@, n)]
           h1 == AddEntry(g, SYSFS_ROOT, <<"pciinfo">>, File(1))
           h2 == AddEntry(h1, SYSFS_ROOT, <<"meminfo">>, File(2))
           h == AddEntry(h2, SYSFS_ROOT, <<"nvme">>, File(3))
           sys == Walk(h, <<<<"sys">>>>, StartWalk(<<<<"sys">>>>))
<1>1. sysfs_init(f) = [h EXCEPT !.dentry[sys.dentry].mounted_inode = SYSFS_ROOT]
    BY DEF sysfs_init
<1>2. FsOK(p, f) /\ DOMAIN f = {"inode", "dentry"}
    BY DEF All, FsOK
<1>3. Grown(p, f, g, n)
  <2> DEFINE b == NewDentry(<<>>, NULL)
             z == [inode |-> Append(f.inode, n), dentry |-> f.dentry]
  <2>1. Blank(n) /\ Ready(p, n)
    BY NewInodeBlank DEF Ready
  <2>2. DOMAIN b = DentryFields /\ b.inode = NULL /\ b.mounted_inode = NULL
    BY DEF NewDentry, DentryFields
  <2>3. /\ DOMAIN g = DOMAIN z /\ g.inode = z.inode /\ g.dentry = z.dentry
    BY <1>2
  <2> HIDE DEF n, b
  <2>4. Grown(p, f, z, n)
    BY <1>2, <2>1, <2>2, AppendGrown
  <2> HIDE DEF g, z
  <2> QED
    BY <2>3, <2>4 DEF Grown
<1>4. n.type = "dir" /\ ~ n.load_needed
    BY NewInodeBlank
<1>5. \A k : Blank(File(k)) /\ Ready(p, File(k))
    BY SysFile
<1> HIDE DEF n, File, g
<1>6. /\ All(p, g, NoWalks, NoPhases) /\ SYSFS_ROOT \in DOMAIN g.inode
      /\ g.inode[SYSFS_ROOT].type = "dir" /\ ~ g.inode[SYSFS_ROOT].load_needed
  <2>1. /\ All(p, g, NoWalks, NoPhases) /\ Len(g.inode) = 3 + 1 /\ g.inode[3 + 1] = n
    <3>1. All(p, g, NoWalks, NoPhases) /\ Longer(f, g, n)
      BY <1>3, BootGrown
    <3> QED
      BY <3>1 DEF Longer
  <2>2. Len(g.inode) \in Nat /\ DOMAIN g.inode = 1 .. Len(g.inode)
    BY <2>1, SequenceDomain DEF All, FsOK
  <2>3. SYSFS_ROOT = 3 + 1 /\ SYSFS_ROOT \in 1 .. 3 + 1
    BY DEF SYSFS_ROOT
  <2> QED
    BY <1>4, <2>1, <2>2, <2>3
<1>7. Grown(p, g, h1, File(1))
    BY <1>5, <1>6, AddEntryGrown DEF All
<1> HIDE DEF h1
<1>8. /\ All(p, h1, NoWalks, NoPhases) /\ SYSFS_ROOT \in DOMAIN h1.inode
      /\ h1.inode[SYSFS_ROOT].type = "dir" /\ ~ h1.inode[SYSFS_ROOT].load_needed
    BY <1>6, <1>7, BootGrown
<1>9. Grown(p, h1, h2, File(2))
    BY <1>5, <1>8, AddEntryGrown DEF All
<1> HIDE DEF h2
<1>10. /\ All(p, h2, NoWalks, NoPhases) /\ SYSFS_ROOT \in DOMAIN h2.inode
       /\ h2.inode[SYSFS_ROOT].type = "dir" /\ ~ h2.inode[SYSFS_ROOT].load_needed
    BY <1>8, <1>9, BootGrown
<1>11. Grown(p, h2, h, File(3))
    BY <1>5, <1>10, AddEntryGrown DEF All
<1> HIDE DEF h
<1>12. /\ All(p, h, NoWalks, NoPhases) /\ SYSFS_ROOT \in DOMAIN h.inode
       /\ h.inode[SYSFS_ROOT].type = "dir" /\ ~ h.inode[SYSFS_ROOT].load_needed
    BY <1>10, <1>11, BootGrown
<1> HIDE DEF sys
<1> DEFINE e == [h EXCEPT !.dentry[sys.dentry].mounted_inode = SYSFS_ROOT]
           d == [h.dentry[sys.dentry] EXCEPT !.mounted_inode = SYSFS_ROOT]
<1>13. DOMAIN h = {"inode", "dentry"}
    BY <1>12 DEF All, FsOK
<1>14. DOMAIN e = {"inode", "dentry"} /\ e.inode = h.inode /\ e.dentry = [h.dentry EXCEPT ![sys.dentry] = d]
    BY <1>13
<1>15. d = [h.dentry[sys.dentry] EXCEPT !.mounted_inode = SYSFS_ROOT]
    OBVIOUS
<1> HIDE DEF e, d
<1>16. All(p, e, NoWalks, NoPhases)
    BY <1>12, <1>14, <1>15, Mounted
<1> QED
    BY <1>1, <1>16 DEF e

\* A device file.
LEMMA DeviceMade ==
    ASSUME NEW p, NEW f, NEW dir, NEW name, NEW device, All(p, f, NoWalks, NoPhases)
    PROVE  All(p, vfs_mknod(f, dir, name, device), NoWalks, NoPhases)
<1>1. PICK n : Grown(p, f, vfs_mknod(f, dir, name, device), n)
    BY MakeGrown DEF All
<1> QED
    BY <1>1, BootGrown

\* Before the first task runs, the tree is sound.
LEMMA BootedTree ==
    ASSUME NEW p, Init, VfsAssumption
    PROVE  TreeInv(p)
<1> DEFINE f == vfs_init
           g == sysfs_init(f)
           h == terminal_init_2(g)
           k == zero_init(h)
           e == extract_tar_files(k)
<1>1. fs = e /\ fs.inode # <<>> /\ walk = [t \in Tasks |-> NoWalk]
    BY DEF Init
<1>2. All(p, f, NoWalks, NoPhases) /\ Len(f.inode) = 3
    BY VfsInit
<1> HIDE DEF f
<1>3. All(p, g, NoWalks, NoPhases)
    BY <1>2, SysfsInit
<1> HIDE DEF g
<1>4. All(p, h, NoWalks, NoPhases)
    BY <1>3, DeviceMade DEF terminal_init_2
<1> HIDE DEF h
<1>5. All(p, k, NoWalks, NoPhases)
    BY <1>4, DeviceMade DEF zero_init
<1> HIDE DEF k
<1>6. Extracted(p, k)
    BY <1>5 DEF Extracted, All, FsOK
<1>7. Extracted(p, e)
    BY <1>6, TarKeepsAll
<1> HIDE DEF e
<1>8. All(p, fs, NoWalks, NoPhases)
    BY <1>1, <1>7 DEF Extracted
<1>9. walk = NoWalks
    BY <1>1 DEF NoWalks
<1>10. [t \in Tasks |-> PhaseOf(p, walk[t])] = NoPhases
  <2>1. \A t \in Tasks : PhaseOf(p, walk[t]) = "none"
    BY <1>1 DEF PhaseOf, NoWalk
  <2> QED
    BY <2>1 DEF NoPhases
<1> QED
    BY <1>8, <1>9, <1>10 DEF TreeInv

-----------------------------------------------------------------------------
(* The system calls.                                                       *)

\* What every step keeps, of a disk with phases p.
VfsInv(p) ==
    /\ TreeInv(p) /\ CallsOK
    /\ DOMAIN walk = Tasks /\ DOMAIN call = Tasks

\* Changing the entry of one task.
LEMMA OneTask ==
    ASSUME NEW W, DOMAIN W = Tasks, NEW t \in Tasks, NEW w, NEW V, V = [W EXCEPT ![t] = w]
    PROVE  DOMAIN V = Tasks /\ V[t] = w /\ \A u \in Tasks : u # t => V[u] = W[u]
    OBVIOUS

\* Task t goes on with walk w.
LEMMA StepTree ==
    ASSUME NEW p, NEW t \in Tasks, NEW w, NEW g, DOMAIN walk = Tasks,
           At(p, g, walk, t, w, PhaseOf(p, w)), fs' = g, walk' = [walk EXCEPT ![t] = w]
    PROVE  TreeInv(p)' /\ DOMAIN walk' = Tasks
<1>1. DOMAIN walk' = Tasks /\ walk'[t] = w /\ \A u \in Tasks : u # t => walk'[u] = walk[u]
    BY OneTask
<1>2. All(p, g, walk', [u \in Tasks |-> PhaseOf(p, walk'[u])])
    BY <1>1, AtNow
<1> QED
    BY <1>1, <1>2 DEF TreeInv

\* A walk that reads nothing.
LEMMA QuietStep ==
    ASSUME NEW p, NEW t \in Tasks, NEW w, NEW g, NEW v, NEW q0, DOMAIN walk = Tasks,
           At(p, g, walk, t, v, q0), w.status \in {"idle", "superblock"},
           fs' = g, walk' = [walk EXCEPT ![t] = w]
    PROVE  TreeInv(p)' /\ DOMAIN walk' = Tasks
<1>1. WalkOK(p, g, w, PhaseOf(p, w)) /\ ~ InDir(w) /\ w.status # "file fat"
    BY DEF WalkOK, InDir
<1>2. At(p, g, walk, t, w, PhaseOf(p, w))
    BY <1>1, AtQuiet
<1> QED
    BY <1>2, StepTree

\* The call of task t.
CallAt(c, w) ==
    w.status # "idle" =>
        /\ c \in Calls
        /\ w.status \in {"walk", "page", "fat", "file fat"} /\ w.device # NULL => c.op = "mount"

\* A step of task t, whose call is c from now on, leaves the calls in order.
LEMMA StepCalls ==
    ASSUME CallsOK, NEW t \in Tasks, DOMAIN walk = Tasks, DOMAIN call = Tasks, NEW w, NEW c,
           walk' = [walk EXCEPT ![t] = w], call' = [call EXCEPT ![t] = c] \/ (call' = call /\ c = call[t]),
           CallAt(c, w)
    PROVE  CallsOK' /\ DOMAIN call' = Tasks
<1>1. walk'[t] = w /\ \A u \in Tasks : u # t => walk'[u] = walk[u]
    BY OneTask
<1>2. DOMAIN call' = Tasks /\ call'[t] = c /\ \A u \in Tasks : u # t => call'[u] = call[u]
  <2>1. CASE call' = [call EXCEPT ![t] = c]
    BY <2>1, OneTask
  <2>2. CASE call' = call /\ c = call[t]
    BY <2>2
  <2> QED
    BY <2>1, <2>2
<1>3. ASSUME NEW u \in Tasks PROVE CallAt(call'[u], walk'[u])
  <2>1. CASE u = t
    BY <1>1, <1>2, <2>1
  <2>2. CASE u # t
    <3>1. CallAt(call[u], walk[u])
      BY DEF CallsOK, CallAt
    <3> QED
      BY <1>1, <1>2, <2>2, <3>1
  <2> QED
    BY <2>1, <2>2
<1>4. CallsOK'
    BY <1>3 DEF CallsOK, CallAt
<1> QED
    BY <1>2, <1>4

\* A call returns.
LEMMA Returned ==
    ASSUME NEW p, NEW t \in Tasks, NEW g, NEW v, NEW q0, NEW value, CallsOK,
           DOMAIN walk = Tasks, DOMAIN call = Tasks,
           At(p, g, walk, t, v, q0), fs' = g, Return(t, value)
    PROVE  VfsInv(p)'
<1>1. call' = [call EXCEPT ![t] = NoCall] /\ walk' = [walk EXCEPT ![t] = NoWalk]
    BY DEF Return
<1>2. NoWalk.status = "idle" /\ CallAt(NoCall, NoWalk)
    BY DEF NoWalk, CallAt
<1>3. TreeInv(p)' /\ DOMAIN walk' = Tasks
    BY <1>1, <1>2, QuietStep
<1>4. CallsOK' /\ DOMAIN call' = Tasks
    BY <1>1, <1>2, StepCalls
<1> QED
    BY <1>3, <1>4 DEF VfsInv

\* A call waits for the disk.
LEMMA Waited ==
    ASSUME NEW p, NEW t \in Tasks, NEW dev, NEW r, CallsOK,
           DOMAIN walk = Tasks, DOMAIN call = Tasks, call[t] \in Calls, dev # NULL => call[t].op = "mount",
           Result(p, walk, t, dev, r), Waits(t, r)
    PROVE  VfsInv(p)'
<1>1. fs' = r.fs /\ walk' = [walk EXCEPT ![t] = r.w] /\ call' = call
    BY DEF Waits
<1>2. At(p, r.fs, walk, t, r.w, PhaseOf(p, r.w)) /\ CallAt(call[t], r.w)
    BY DEF Result, CallAt
<1>3. TreeInv(p)' /\ DOMAIN walk' = Tasks
    BY <1>1, <1>2, StepTree
<1>4. CallsOK' /\ DOMAIN call' = Tasks
    BY <1>1, <1>2, StepCalls
<1> QED
    BY <1>3, <1>4 DEF VfsInv

\* A path is resolved from the root.
LEMMA Started ==
    ASSUME NEW p, NEW f, NEW path, NEW dev, FsOK(p, f), PathOK(path)
    PROVE  /\ OnTheWay(p, f, NULL, StartWalk(path)) /\ StartWalk(path).status = "walk"
           /\ OnTheWay(p, f, dev, [StartWalk(path) EXCEPT !.device = dev])
<1> DEFINE w == StartWalk(path)
           v == [w EXCEPT !.device = dev]
<1>1. SkipSlashes(path, 1) \in Nat \ {0}
  <2>1. Sequence(path) /\ Len(path) \in Nat
    BY SequenceDomain DEF PathOK, Sequence
  <2>2. 1 \in 1 .. Len(path) + 1
    BY <2>1
  <2>3. SkipSlashes(path, 1) \in 1 .. Len(path) + 1
    BY <2>1, <2>2, SlashesEnd
  <2> QED
    BY <2>1, <2>3
<1>2. ROOT \in DOMAIN f.inode
    BY DEF FsOK
<1>3. /\ DOMAIN w = WalkFields /\ w.status = "walk" /\ w.buf = SkipSlashes(path, 1)
      /\ w.inode = ROOT /\ w.device = NULL
    BY DEF StartWalk, WalkFields
<1> HIDE DEF w
<1>4. /\ DOMAIN v = WalkFields /\ v.status = "walk" /\ v.buf = w.buf
      /\ v.inode = ROOT /\ v.device = dev
    BY <1>3 DEF WalkFields
<1> HIDE DEF v
<1>5. OnTheWay(p, f, NULL, w)
    BY <1>1, <1>2, <1>3 DEF OnTheWay
<1>6. OnTheWay(p, f, dev, v)
    BY <1>1, <1>2, <1>3, <1>4 DEF OnTheWay
<1> QED
    BY <1>3, <1>5, <1>6 DEF w, v

\* SYSCALL_OPEN and SYSCALL_MKDIR.
LEMMA OpenStep ==
    ASSUME NEW p, NEW t \in Tasks, NEW dev, NEW r, CallsOK, DOMAIN walk = Tasks, DOMAIN call = Tasks,
           Result(p, walk, t, dev, r), OpenResolved(t, r.fs, r.w)
    PROVE  VfsInv(p)'
<1> DEFINE f == r.fs
           w == r.w
           g == vfs_create(f, w.inode, call[t].path[w.buf])
<1>1. (fs' = f \/ fs' = g) /\ \E value : Return(t, value)
    BY DEF OpenResolved
<1>2. At(p, f, walk, t, w, PhaseOf(p, w))
    BY DEF Result
<1>3. \E n : Grown(p, f, g, n)
    BY <1>2, AtParts, MakeGrown
<1> HIDE DEF f, g, w
<1>4. At(p, g, walk, t, w, PhaseOf(p, w))
    BY <1>2, <1>3, AtGrown
<1> QED
    BY <1>1, <1>2, <1>4, Returned

\* SYSCALL_MKDIR.
LEMMA MkdirStep ==
    ASSUME NEW p, NEW t \in Tasks, NEW dev, NEW r, CallsOK, DOMAIN walk = Tasks, DOMAIN call = Tasks,
           Result(p, walk, t, dev, r), MkdirResolved(t, r.fs, r.w)
    PROVE  VfsInv(p)'
<1> DEFINE f == r.fs
           w == r.w
           g == vfs_mkdir(f, w.inode, call[t].path[w.buf])
<1>1. (fs' = f \/ fs' = g) /\ \E value : Return(t, value)
    BY DEF MkdirResolved
<1>2. At(p, f, walk, t, w, PhaseOf(p, w))
    BY DEF Result
<1>3. \E n : Grown(p, f, g, n)
    BY <1>2, AtParts, MakeGrown
<1> HIDE DEF f, g, w
<1>4. At(p, g, walk, t, w, PhaseOf(p, w))
    BY <1>2, <1>3, AtGrown
<1> QED
    BY <1>1, <1>2, <1>4, Returned

\* SYSCALL_MOUNT.
LEMMA MountpointStep ==
    ASSUME NEW p, NEW t \in Tasks, NEW dev, NEW r, CallsOK, DOMAIN walk = Tasks, DOMAIN call = Tasks,
           call[t] \in Calls, call[t].op = "mount",
           Result(p, walk, t, dev, r), ResolveMountpoint(t, r)
    PROVE  VfsInv(p)'
<1> DEFINE u == [r.w EXCEPT !.status = "superblock"]
<1>1. At(p, r.fs, walk, t, r.w, PhaseOf(p, r.w))
    BY DEF Result
<1>2. CASE Waits(t, r)
    BY <1>2, Waited
<1>3. CASE MountpointResolved(t, r.fs, r.w)
  <2>1. /\ fs' = r.fs
        /\ \/ \E value : Return(t, value)
           \/ r.w.status = "exists" /\ walk' = [walk EXCEPT ![t] = u] /\ call' = call
    BY <1>3 DEF MountpointResolved
  <2>2. CASE \E value : Return(t, value)
    BY <1>1, <2>1, <2>2, Returned
  <2>3. CASE r.w.status = "exists" /\ walk' = [walk EXCEPT ![t] = u] /\ call' = call
    <3>1. WalkOK(p, r.fs, r.w, PhaseOf(p, r.w))
      BY <1>1, AtParts
    <3>2. DOMAIN r.w = WalkFields
      BY <2>3, <3>1 DEF WalkOK
    <3>6. u.status = "superblock"
      BY <3>2 DEF WalkFields
    <3> HIDE DEF u
    <3>3. CallAt(call[t], u) /\ u.status \in {"idle", "superblock"}
      BY <3>6 DEF CallAt
    <3>4. TreeInv(p)' /\ DOMAIN walk' = Tasks
      BY <1>1, <2>1, <2>3, <3>3, QuietStep
    <3>5. CallsOK' /\ DOMAIN call' = Tasks
      BY <2>3, <3>3, StepCalls
    <3> QED
      BY <3>4, <3>5 DEF VfsInv
  <2> QED
    BY <2>1, <2>2, <2>3
<1> QED
    BY <1>2, <1>3 DEF ResolveMountpoint

\* The device of a mount, then its mount point.
LEMMA DeviceStep ==
    ASSUME NEW p, NEW t \in Tasks, NEW dev, NEW r, CallsOK, DOMAIN walk = Tasks, DOMAIN call = Tasks,
           call[t] \in Calls, call[t].op = "mount", VfsAssumption,
           Result(p, walk, t, dev, r), ResolveDevice(t, r)
    PROVE  VfsInv(p)'
<1> DEFINE on == call[t].on
           w == [StartWalk(on) EXCEPT !.device = r.w.inode]
           s == Advance(r.fs, on, w)
<1>1. At(p, r.fs, walk, t, r.w, PhaseOf(p, r.w))
    BY DEF Result
<1>2. \/ Waits(t, r)
      \/ fs' = r.fs /\ Return(t, -1)
      \/ ResolveMountpoint(t, s)
    BY DEF ResolveDevice
<1>3. FsOK(p, r.fs)
    BY <1>1, AtParts
<1>4. PathOK(on)
    BY DEF VfsAssumption, CallOK
<1> HIDE DEF on
<1>5. OnTheWay(p, r.fs, r.w.inode, w)
    BY <1>3, <1>4, Started
<1> HIDE DEF w
<1>6. Result(p, walk, t, r.w.inode, s)
    BY <1>1, <1>4, <1>5, AdvanceResult
<1> HIDE DEF s
<1>7. CASE Waits(t, r)
    BY <1>7, Waited
<1>8. CASE fs' = r.fs /\ Return(t, -1)
    BY <1>1, <1>8, Returned
<1>9. CASE ResolveMountpoint(t, s)
    BY <1>6, <1>9, MountpointStep
<1> QED
    BY <1>2, <1>7, <1>8, <1>9

\* A call goes on with a resolution.
LEMMA Proceeded ==
    ASSUME NEW p, NEW t \in Tasks, NEW dev, NEW r, CallsOK, DOMAIN walk = Tasks, DOMAIN call = Tasks,
           call[t] \in Calls, call[t].op \in {"open", "mkdir", "mount"},
           dev # NULL => call[t].op = "mount", VfsAssumption,
           Result(p, walk, t, dev, r), Proceed(t, r)
    PROVE  VfsInv(p)'
<1>1. CASE call[t].op = "mount"
  <2>1. ResolveDevice(t, r) \/ ResolveMountpoint(t, r)
    BY <1>1 DEF Proceed
  <2> QED
    BY <1>1, <2>1, DeviceStep, MountpointStep
<1>2. CASE call[t].op = "open"
  <2>1. Waits(t, r) \/ OpenResolved(t, r.fs, r.w)
    BY <1>2 DEF Proceed
  <2> QED
    BY <2>1, Waited, OpenStep
<1>3. CASE call[t].op = "mkdir"
  <2>1. Waits(t, r) \/ MkdirResolved(t, r.fs, r.w)
    BY <1>3 DEF Proceed
  <2> QED
    BY <2>1, Waited, MkdirStep
<1> QED
    BY <1>1, <1>2, <1>3

\* The state of a task that is on its way.
LEMMA OfTask ==
    ASSUME NEW p, VfsInv(p), NEW t \in Tasks, VfsAssumption
    PROVE  /\ At(p, fs, walk, t, walk[t], PhaseOf(p, walk[t]))
           /\ FsOK(p, fs) /\ WalkOK(p, fs, walk[t], PhaseOf(p, walk[t]))
           /\ walk[t].status \in {"walk", "page", "fat", "file fat"} =>
                 /\ call[t] \in Calls /\ (walk[t].device # NULL => call[t].op = "mount")
                 /\ PathOK(Path(t))
<1>1. At(p, fs, walk, t, walk[t], PhaseOf(p, walk[t]))
    BY NowAt DEF VfsInv, TreeInv
<1>2. FsOK(p, fs) /\ WalkOK(p, fs, walk[t], PhaseOf(p, walk[t]))
    BY <1>1, AtParts
<1>3. ASSUME walk[t].status \in {"walk", "page", "fat", "file fat"}
      PROVE  call[t] \in Calls /\ (walk[t].device # NULL => call[t].op = "mount")
    BY <1>3 DEF VfsInv, CallsOK
<1>4. ASSUME walk[t].status \in {"walk", "page", "fat", "file fat"} PROVE PathOK(Path(t))
    BY <1>3, <1>4 DEF VfsAssumption, CallOK, Path
<1> QED
    BY <1>1, <1>2, <1>3, <1>4

\* A call begins.
LEMMA InvokeStep ==
    ASSUME NEW p, VfsInv(p), NEW t \in Tasks, VfsAssumption, NEW c \in Calls, Invoke(t, c)
    PROVE  VfsInv(p)'
<1> DEFINE w == StartWalk(c.path)
<1>1. call' = [call EXCEPT ![t] = c] /\ walk' = [walk EXCEPT ![t] = w] /\ fs' = fs
    BY DEF Invoke
<1>2. At(p, fs, walk, t, walk[t], PhaseOf(p, walk[t])) /\ FsOK(p, fs)
    BY OfTask
<1>3. PathOK(c.path)
    BY DEF VfsAssumption, CallOK
<1>4. OnTheWay(p, fs, NULL, w) /\ w.status = "walk"
    BY <1>2, <1>3, Started
<1> HIDE DEF w
<1>5. WalkOK(p, fs, w, PhaseOf(p, w)) /\ ~ InDir(w) /\ w.status # "file fat"
    BY <1>4, OnTheWayQuiet
<1>6. At(p, fs, walk, t, w, PhaseOf(p, w))
    BY <1>2, <1>5, AtQuiet
<1>7. DOMAIN walk = Tasks /\ DOMAIN call = Tasks /\ CallsOK
    BY DEF VfsInv
<1>8. CallAt(c, w)
    BY <1>4 DEF CallAt, OnTheWay
<1>9. TreeInv(p)' /\ DOMAIN walk' = Tasks
    BY <1>1, <1>6, <1>7, StepTree
<1>10. CallsOK' /\ DOMAIN call' = Tasks
    BY <1>1, <1>7, <1>8, StepCalls
<1> QED
    BY <1>9, <1>10 DEF VfsInv

\* The first stretch of a resolution.
LEMMA RunStep ==
    ASSUME NEW p, VfsInv(p), NEW t \in Tasks, VfsAssumption, Run(t)
    PROVE  VfsInv(p)'
<1> DEFINE w == walk[t]
           r == Advance(fs, Path(t), w)
<1>1. w.status = "walk" /\ Proceed(t, r)
    BY DEF Run
<1>2. /\ At(p, fs, walk, t, w, PhaseOf(p, w)) /\ WalkOK(p, fs, w, PhaseOf(p, w))
      /\ call[t] \in Calls /\ (w.device # NULL => call[t].op = "mount") /\ PathOK(Path(t))
    BY <1>1, OfTask
<1>3. OnTheWay(p, fs, w.device, w)
    BY <1>1, <1>2 DEF WalkOK, OnTheWay
<1>4. DOMAIN walk = Tasks /\ DOMAIN call = Tasks /\ CallsOK /\ call[t].op \in {"open", "mkdir", "mount"}
    BY <1>2 DEF VfsInv, VfsAssumption, CallOK
<1> HIDE DEF w
<1>5. Result(p, walk, t, w.device, r)
    BY <1>2, <1>3, AdvanceResult
<1> HIDE DEF r
<1> QED
    BY <1>1, <1>2, <1>4, <1>5, Proceeded

\* A page of a directory arrives.
LEMMA PageStep ==
    ASSUME NEW p, VfsInv(p), NEW t \in Tasks, VfsAssumption, Grammar(p), PageRead(t)
    PROVE  VfsInv(p)'
<1> DEFINE w == walk[t]
           r == PageArrives(fs, w)
<1>1. w.status = "page" /\ Waits(t, r)
    BY DEF PageRead
<1>2. /\ At(p, fs, walk, t, w, PhaseOf(p, w))
      /\ call[t] \in Calls /\ (w.device # NULL => call[t].op = "mount")
    BY <1>1, OfTask
<1>4. DOMAIN walk = Tasks /\ DOMAIN call = Tasks /\ CallsOK
    BY DEF VfsInv
<1> HIDE DEF w
<1>5. Result(p, walk, t, w.device, r)
    BY <1>1, <1>2, PageArrivesResult
<1> HIDE DEF r
<1> QED
    BY <1>1, <1>2, <1>4, <1>5, Waited

\* An entry of the FAT arrives for a directory.
LEMMA FatStep ==
    ASSUME NEW p, VfsInv(p), NEW t \in Tasks, VfsAssumption, Grammar(p), FatRead(t)
    PROVE  VfsInv(p)'
<1> DEFINE w == walk[t]
           r == FatArrives(fs, Path(t), w)
<1>1. w.status = "fat" /\ Proceed(t, r)
    BY DEF FatRead
<1>2. /\ At(p, fs, walk, t, w, PhaseOf(p, w))
      /\ call[t] \in Calls /\ (w.device # NULL => call[t].op = "mount") /\ PathOK(Path(t))
    BY <1>1, OfTask
<1>4. DOMAIN walk = Tasks /\ DOMAIN call = Tasks /\ CallsOK /\ call[t].op \in {"open", "mkdir", "mount"}
    BY <1>2 DEF VfsInv, VfsAssumption, CallOK
<1> HIDE DEF w
<1>5. Result(p, walk, t, w.device, r)
    BY <1>1, <1>2, FatArrivesResult
<1> HIDE DEF r
<1> QED
    BY <1>1, <1>2, <1>4, <1>5, Proceeded

\* An entry of the FAT arrives for a file.
LEMMA FileFatStep ==
    ASSUME NEW p, VfsInv(p), NEW t \in Tasks, VfsAssumption, FileFatRead(t)
    PROVE  VfsInv(p)'
<1> DEFINE w == walk[t]
           r == FileFatArrives(fs, Path(t), w)
<1>1. w.status = "file fat" /\ Proceed(t, r)
    BY DEF FileFatRead
<1>2. /\ At(p, fs, walk, t, w, PhaseOf(p, w))
      /\ call[t] \in Calls /\ (w.device # NULL => call[t].op = "mount") /\ PathOK(Path(t))
    BY <1>1, OfTask
<1>4. DOMAIN walk = Tasks /\ DOMAIN call = Tasks /\ CallsOK /\ call[t].op \in {"open", "mkdir", "mount"}
    BY <1>2 DEF VfsInv, VfsAssumption, CallOK
<1> HIDE DEF w
<1>5. Result(p, walk, t, w.device, r)
    BY <1>1, <1>2, FileFatArrivesResult
<1> HIDE DEF r
<1> QED
    BY <1>1, <1>2, <1>4, <1>5, Proceeded

\* A task is killed while it waits.
LEMMA KilledStep ==
    ASSUME NEW p, VfsInv(p), NEW t \in Tasks, VfsAssumption, Killed(t)
    PROVE  VfsInv(p)'
<1>1. call' = [call EXCEPT ![t] = NoCall] /\ walk' = [walk EXCEPT ![t] = NoWalk] /\ fs' = fs
    BY DEF Killed
<1>2. NoWalk.status = "idle" /\ CallAt(NoCall, NoWalk)
    BY DEF NoWalk, CallAt
<1>3. DOMAIN walk = Tasks /\ DOMAIN call = Tasks /\ CallsOK
    BY DEF VfsInv
<1>4. At(p, fs, walk, t, walk[t], PhaseOf(p, walk[t]))
    BY OfTask
<1>5. TreeInv(p)' /\ DOMAIN walk' = Tasks
    BY <1>1, <1>2, <1>3, <1>4, QuietStep
<1>6. CallsOK' /\ DOMAIN call' = Tasks
    BY <1>1, <1>2, <1>3, StepCalls
<1> QED
    BY <1>5, <1>6 DEF VfsInv

\* One entry of a sequence changes.
LEMMA OneEntry ==
    ASSUME NEW s, Sequence(s), NEW k, NEW d, NEW t, t = [s EXCEPT ![k] = d]
    PROVE  Sequence(t) /\ Len(t) = Len(s) /\ \A j \in DOMAIN s : t[j] = s[j] \/ (j = k /\ t[j] = d)
<1>1. Sequence(t) /\ Len(t) = Len(s) /\ \A j \in DOMAIN s : t[j] = IF j = k THEN d ELSE s[j]
    BY ExceptElements
<1> QED
    BY <1>1

\* The root of a mounted partition.
LEMMA MountGrown ==
    ASSUME NEW p, NEW f, NEW n, NEW b, NEW g, FsOK(p, f), Grammar(p),
           b = NewInode("dir", "exfat"), n = [b EXCEPT !.start = RootCluster, !.load_needed = TRUE],
           DOMAIN g = {"inode", "dentry"}, g.inode = Append(f.inode, n),
           Sequence(g.dentry), Len(g.dentry) = Len(f.dentry),
           \A j \in DOMAIN f.dentry :
              \/ g.dentry[j] = f.dentry[j]
              \/ g.dentry[j] = [f.dentry[j] EXCEPT !.mounted_inode = Len(f.inode) + 1]
    PROVE  Grown(p, f, g, n)
<1>1. /\ Blank(b) /\ b.type = "dir" /\ b.file_length = 0 /\ DOMAIN b = InodeFields
    BY NewInodeBlank
<1>2. /\ DOMAIN n = InodeFields /\ n.start = RootCluster /\ n.load_needed = TRUE /\ n.type = "dir"
      /\ n.loads = b.loads /\ n.clusters = b.clusters /\ n.dentry_lh = b.dentry_lh
      /\ n.file_length = b.file_length
    BY <1>1 DEF InodeFields
<1>3. Blank(n) /\ Ready(p, n)
  <2>1. StartOK(p, RootCluster)
    BY DEF Grammar
  <2>2. n.load_needed \in BOOLEAN
    BY <1>2
  <2> QED
    BY <1>1, <1>2, <2>1, <2>2 DEF Blank, InodeOK, Ready
<1>4. Sequence(f.inode) /\ Sequence(f.dentry)
    BY DEF FsOK
<1> DEFINE s == f.inode
           r == Append(s, n)
           e == f.dentry
<1>5. Sequence(r) /\ Len(r) = Len(s) + 1 /\ (\A i \in 1 .. Len(s) : r[i] = s[i]) /\ r[Len(s) + 1] = n
    BY <1>4, AppendElements
<1>6. DOMAIN s = 1 .. Len(s)
    BY <1>4, SequenceDomain
<1>8. \A j \in DOMAIN e : \/ g.dentry[j] = e[j]
                          \/ g.dentry[j] = [e[j] EXCEPT !.mounted_inode = Len(s) + 1]
    OBVIOUS
<1>9. Len(e) # Len(e) + 1
  <2>1. Len(e) \in Nat
    BY <1>4, SequenceDomain
  <2> QED
    BY <2>1, Lengths, Zenon
<1>10. \A i \in DOMAIN s : g.inode[i] = s[i]
    BY <1>5, <1>6
<1>11. Sequence(g.inode) /\ Len(g.inode) = Len(s) + 1 /\ g.inode[Len(s) + 1] = n
    BY <1>5
<1> HIDE DEF s, r, e
<1> QED
    BY <1>2, <1>3, <1>8, <1>9, <1>10, <1>11 DEF Grown, Blank, s, e

\* exfat_mount makes the root of the partition.
LEMMA MountStep ==
    ASSUME NEW p, VfsInv(p), NEW t \in Tasks, VfsAssumption, Grammar(p), exfat_mount(t)
    PROVE  VfsInv(p)'
<1> DEFINE b == NewInode("dir", "exfat")
           n == [b EXCEPT !.start = RootCluster, !.load_needed = TRUE]
           k == walk[t].dentry
           d == [fs.dentry[k] EXCEPT !.mounted_inode = Len(fs.inode) + 1]
           g == [inode |-> Append(fs.inode, n),
                 dentry |-> [fs.dentry EXCEPT ![k].mounted_inode = Len(fs.inode) + 1]]
<1>1. (fs' = fs \/ fs' = g) /\ \E value : Return(t, value)
    BY DEF exfat_mount
<1>2. At(p, fs, walk, t, walk[t], PhaseOf(p, walk[t])) /\ FsOK(p, fs)
    BY OfTask
<1>3. DOMAIN walk = Tasks /\ DOMAIN call = Tasks /\ CallsOK
    BY DEF VfsInv
<1>4. /\ DOMAIN g = {"inode", "dentry"} /\ g.inode = Append(fs.inode, n)
      /\ g.dentry = [fs.dentry EXCEPT ![k] = d]
    OBVIOUS
<1>5. b = NewInode("dir", "exfat") /\ n = [b EXCEPT !.start = RootCluster, !.load_needed = TRUE]
    OBVIOUS
<1>6. Grown(p, fs, g, n)
  <2> DEFINE s == fs.dentry
             x == g.dentry
  <2>1. Sequence(s) /\ x = [s EXCEPT ![k] = d]
    BY <1>2, <1>4 DEF FsOK
  <2> HIDE DEF b, n, g, k, d, s, x
  <2>2. Sequence(x) /\ Len(x) = Len(s) /\ \A j \in DOMAIN s : x[j] = s[j] \/ (j = k /\ x[j] = d)
    BY <2>1, OneEntry
  <2>3. d = [s[k] EXCEPT !.mounted_inode = Len(fs.inode) + 1]
    BY DEF d, s
  <2>4. \A j \in DOMAIN s : \/ x[j] = s[j]
                            \/ x[j] = [s[j] EXCEPT !.mounted_inode = Len(fs.inode) + 1]
    BY <2>2, <2>3
  <2> QED
    BY <1>2, <1>4, <1>5, <2>2, <2>4, MountGrown DEF s, x
<1> HIDE DEF b, n, d, g, k
<1>7. At(p, g, walk, t, walk[t], PhaseOf(p, walk[t]))
    BY <1>2, <1>6, AtGrown
<1> QED
    BY <1>1, <1>2, <1>3, <1>7, Returned

\* nvmepart_probe makes the device files.
LEMMA ProbeStep ==
    ASSUME NEW p, VfsInv(p), VfsAssumption, nvmepart_probe
    PROVE  VfsInv(p)'
<1>1. walk' = walk /\ call' = call
    BY DEF nvmepart_probe
<1> DEFINE Q == [t \in Tasks |-> PhaseOf(p, walk[t])]
<1>2. All(p, fs, walk, Q)
    BY DEF VfsInv, TreeInv
<1> HIDE DEF Q
<1>3. All(p, fs', walk, Q)
    BY <1>2, ProbeKeepsAll
<1>4. TreeInv(p)'
    BY <1>1, <1>3 DEF TreeInv, Q
<1> QED
    BY <1>1, <1>4 DEF VfsInv, CallsOK

\* Every step keeps the invariant.
LEMMA VfsStep ==
    ASSUME NEW p, VfsInv(p), VfsAssumption, Grammar(p), [Next]_vars
    PROVE  VfsInv(p)'
<1>1. CASE UNCHANGED vars
    BY <1>1 DEF vars, VfsInv, TreeInv, CallsOK
<1>2. CASE nvmepart_probe
    BY <1>2, ProbeStep
<1>3. ASSUME NEW t \in Tasks, NEW c \in Calls, Invoke(t, c) PROVE VfsInv(p)'
    BY <1>3, InvokeStep
<1>4. ASSUME NEW t \in Tasks,
             Run(t) \/ PageRead(t) \/ FatRead(t) \/ FileFatRead(t) \/ exfat_mount(t) \/ Killed(t)
      PROVE  VfsInv(p)'
    BY <1>4, RunStep, PageStep, FatStep, FileFatStep, MountStep, KilledStep
<1> QED
    BY <1>1, <1>2, <1>3, <1>4 DEF Next

\* The invariant says what a loaded file holds.
LEMMA FilesMatch ==
    ASSUME NEW p, TreeInv(p)
    PROVE  LoadedFilesMatchDisk
<1> SUFFICES ASSUME NEW i \in DOMAIN fs.inode, fs.inode[i].type = "file",
                    ~ fs.inode[i].load_needed, fs.inode[i].loads = 1
             PROVE  /\ Len(fs.inode[i].clusters) = fs.inode[i].file_length
                    /\ \A k \in DOMAIN fs.inode[i].clusters :
                          /\ fs.inode[i].clusters[k].byte_offset = k - 1
                          /\ fs.inode[i].clusters[k].device_offset =
                                IF k = 1 THEN fs.inode[i].start
                                ELSE FAT[fs.inode[i].clusters[k - 1].device_offset]
    BY DEF LoadedFilesMatchDisk
<1> DEFINE n == fs.inode[i]
           l == n.file_length
<1>1. FileOK(n, i, walk) /\ InodeOK(n)
    BY DEF TreeInv, All, FsOK
<1> HIDE DEF n
<1>2. n.loads = 1 /\ ~ n.load_needed
    BY DEF n
<1>3. PICK c : Listed(n, c, l)
    BY <1>1, <1>2 DEF FileOK
<1>4. l \in Nat /\ Sequence(n.clusters)
    BY <1>1 DEF InodeOK
<1> HIDE DEF l
<1>5. Len(n.clusters) = l /\ DOMAIN n.clusters = 1 .. l
    BY <1>3, <1>4, SequenceDomain DEF Listed
<1>6. ASSUME NEW k \in 1 .. l
      PROVE  n.clusters[k].byte_offset = k - 1 /\ n.clusters[k].device_offset = c[k]
  <2>1. n.clusters[k] = [byte_offset |-> k - 1, device_offset |-> c[k]]
    BY <1>3, <1>6 DEF Listed
  <2> QED
    BY <2>1
<1>7. (l > 0 => c[1] = n.start) /\ \A k \in 1 .. l - 1 : c[k + 1] = FAT[c[k]]
    BY <1>3 DEF Listed, IsChain, l
<1>8. ASSUME NEW k \in 1 .. l
      PROVE  c[k] = IF k = 1 THEN n.start ELSE FAT[n.clusters[k - 1].device_offset]
  <2>1. CASE k = 1
    <3>1. l > 0
      BY <1>4, <1>8
    <3> QED
      BY <1>7, <2>1, <3>1
  <2>2. CASE k # 1
    <3>1. k - 1 \in 1 .. l - 1 /\ k - 1 \in 1 .. l /\ (k - 1) + 1 = k
      BY <1>4, <1>8, <2>2
    <3> QED
      BY <1>6, <1>7, <2>2, <3>1
  <2> QED
    BY <2>1, <2>2
<1> QED
    BY <1>5, <1>6, <1>8 DEF n, l

\* It holds when the system has booted.
LEMMA VfsBoots ==
    ASSUME NEW p, Init, VfsAssumption
    PROVE  VfsInv(p)
<1>1. TreeInv(p)
    BY BootedTree
<1>2. DOMAIN walk = Tasks /\ DOMAIN call = Tasks /\ \A t \in Tasks : walk[t].status = "idle"
    BY DEF Init, NoWalk
<1> QED
    BY <1>1, <1>2 DEF VfsInv, CallsOK

\* What holds of the tree in every state, on an exFAT volume: an inode that is
\* listed in a directory exists, and no two dentries share one (vfs_mkdir,
\* vfs_create, vfs_mknod, exfat_load_dir_inode); what is mounted is a directory
\* (exfat_mount); a named directory that is not loaded starts at a cluster of
\* directory entries; and of two tasks that load directories together, neither
\* fills the dentry the other is about to fill.
THEOREM TreeStaysSound ==
    ASSUME NEW p, Grammar(p)
    PROVE  Spec => []VfsInv(p)
<1>1. Init => VfsInv(p)
    BY VfsBoots, VfsAssumption
<1>2. VfsInv(p) /\ [Next]_vars => VfsInv(p)'
    BY VfsStep, VfsAssumption
<1> QED
    BY <1>1, <1>2, PTL DEF Spec

\* The content pages of a loaded exFAT file are the clusters of its chain, in
\* order, one for each page of its length (exfat_load_file_inode): however the
\* directory's entries are spread over its clusters, whatever the other tasks
\* load, create and mount between two reads, and whoever is killed.
THEOREM LoadedFilesMatch ==
    ASSUME NEW p, Grammar(p)
    PROVE  Spec => []LoadedFilesMatchDisk
<1>1. VfsInv(p) => LoadedFilesMatchDisk
    BY FilesMatch DEF VfsInv
<1> QED
    BY <1>1, TreeStaysSound, PTL
=============================================================================
