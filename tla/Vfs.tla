-------------------------------- MODULE Vfs --------------------------------
(***************************************************************************)
(* The tree of inodes and dentries: its construction while the system      *)
(* boots (fs/vfs.c, fs/sysfs.c, fs/tar.c), path resolution, and the system *)
(* calls open, mkdir, mount and getdents on top of it.                     *)
(*                                                                         *)
(* ramfs and sysfs live in memory; an exFAT directory or file is read from *)
(* the disk the first time a path leads to it.  A task that reads from the *)
(* disk yields, so that between two reads the other tasks run; everything  *)
(* between two reads is one step.                                          *)
(***************************************************************************)
EXTENDS Naturals, Integers, Sequences, FiniteSets, SequencesExt

CONSTANTS
    Tasks,
    Calls,        \* the system calls tasks make
    MaxCalls,     \* bound: the number of system calls
    SLASH,        \* the path separator; a path is a sequence of names and slashes
    TarEntries,   \* the initramfs: [path, dir]
    GptEntries,   \* the partition table: [used, beyond2tb, name, exfat]
    GptFits,      \* how many of its entries fit in the pages nvmepart_probe reads
    DiskPages,    \* the directory entries in each cluster of a directory
    FAT,          \* the file allocation table: cluster -> next cluster, or EOC
    EOC,          \* any of the values that end a chain
    RootCluster,  \* first_cluster_of_root_directory
    DiskTree      \* the tree the disk's directories encode: [dir, name, obj]

\* How many entries of a directory's cluster are looked at: up to one that ends
\* the directory (the first is looked at in any case).
EntriesOf(entries) ==
    LET ends == {k \in DOMAIN entries : k > 1 /\ entries[k].e = "end"}
    IN IF ends = {} THEN Len(entries) ELSE (CHOOSE k \in ends : \A j \in ends : k <= j) - 1

\* Names are not empty, and there are no other calls.
PathOK(path) == path \in Seq(Range(path)) /\ \A k \in DOMAIN path : path[k] # <<>>
CallOK(c) == c.op \in {"open", "mkdir", "mount"} /\ PathOK(c.path) /\ (c.op = "mount" => PathOK(c.on))

ASSUME VfsAssumption ==
    /\ MaxCalls \in Nat
    /\ GptFits \in Nat
    /\ EOC \notin DOMAIN FAT
    /\ DOMAIN DiskPages \subseteq DOMAIN FAT
    /\ RootCluster \in DOMAIN DiskPages
    /\ TarEntries \in Seq(Range(TarEntries)) /\ GptEntries \in Seq(Range(GptEntries))
    /\ \A c \in Calls : CallOK(c)

-----------------------------------------------------------------------------
(***************************************************************************)
(* What makes the disk an exFAT volume: the code does not check it, and    *)
(* what is proved of loading supposes it.                                  *)
(*                                                                         *)
(* And what makes it one that this driver can read: a cluster is one page  *)
(* of 4096 bytes, which exfat_load_dir_inode and exfat_load_file_inode     *)
(* take for granted whatever the boot sector says; the volume is smaller   *)
(* than 4 GiB, for the byte offset of a directory's cluster is computed in *)
(* 32 bits (fs/exfat.c:90); files are shorter than 4 GiB, for their length *)
(* and the offsets of their clusters have 32 bits (fs/exfat.c:134); and    *)
(* every file has its clusters in the FAT, contiguous or not.  Here a      *)
(* cluster is an element of DOMAIN FAT and lengths count clusters: no      *)
(* other volume is a value of these constants.                             *)
(***************************************************************************)
\* Clusters that follow each other in the FAT, as many as n, from start on.
IsChain(c, start, n) ==
    /\ \A k \in 1 .. n : c[k] \in DOMAIN FAT
    /\ n > 0 => c[1] = start
    /\ \A k \in 1 .. n - 1 : c[k + 1] = FAT[c[k]]

\* A directory begins there.
StartOK(p, cluster) == cluster \in DOMAIN DiskPages /\ p[cluster][0] = "none"

\* The entry x leads from phase q to phase r: a file entry says whether a file
\* or a directory follows, an info entry where its clusters are, and name
\* entries what its name is, in this order.
Legal(p, q, x, r) ==
    /\ x.e = "file" => x.type \in {"file", "dir"} /\ r = x.type
    /\ x.e = "info" => /\ q \in {"file", "dir"} /\ r = "info" /\ x.length \in Nat
                       /\ q = "dir" => StartOK(p, x.start)
                       /\ q = "file" => \E c \in [1 .. x.length -> DOMAIN FAT] : IsChain(c, x.start, x.length)
    /\ x.e = "name" => q \in {"info", "name"} /\ r = "name"
    /\ x.e \notin {"file", "info", "name"} => r = q

\* p[c][k] is the phase behind the first k entries of cluster c.
Grammar(p) ==
    /\ StartOK(p, RootCluster)
    /\ \A c \in DOMAIN DiskPages :
          /\ EntriesOf(DiskPages[c]) \in Nat
          /\ \A k \in 1 .. EntriesOf(DiskPages[c]) : Legal(p, p[c][k - 1], DiskPages[c][k], p[c][k])
          /\ FAT[c] # EOC => /\ FAT[c] \in DOMAIN DiskPages
                             /\ p[FAT[c]][0] = p[c][EntriesOf(DiskPages[c])]

-----------------------------------------------------------------------------
VARIABLES
    fs,       \* [inode, dentry]: the inodes and dentries, numbered as they are allocated
    call,     \* the system call each task is in
    walk,     \* the locals of the vfs_resolve and exfat_load_* it is in
    reply,    \* what its last call returned
    files,    \* the inodes it has open
    probed,   \* kt_hw_init has been through nvmepart_probe
    ncalls

vars == <<fs, call, walk, reply, files, probed, ncalls>>

NULL == 0
ROOT == 1
NoCall == [op |-> "none"]
NoWalk == [status |-> "idle"]

-----------------------------------------------------------------------------
(***************************************************************************)
(* Inodes and dentries.                                                    *)
(***************************************************************************)
\* start is the first cluster; loads, which the code does not keep, counts how
\* often loading the inode has begun.
NewInode(type, superblock) ==
    [type |-> type, superblock |-> superblock, dentry_lh |-> <<>>,
     start |-> NULL, file_length |-> 0, clusters |-> <<>>, load_needed |-> FALSE,
     device |-> <<>>, loads |-> 0]

NewDentry(name, inode) == [name |-> name, inode |-> inode, mounted_inode |-> NULL]

IsDir(f, i) == f.inode[i].type = "dir"

\* A dentry for the inode, at the tail of the directory's list.
AddEntry(f, dir, name, inode) ==
    [inode  |-> Append([f.inode EXCEPT ![dir].dentry_lh = Append(@, Len(f.dentry) + 1)], inode),
     dentry |-> Append(f.dentry, NewDentry(name, Len(f.inode) + 1))]

\* create_file_inode, create_dir_inode and create_dev_inode of the three file
\* systems: only ramfs can create.
CanCreate(f, dir) == f.inode[dir].superblock = "ramfs"

create_inode(f, dir, name, type) == AddEntry(f, dir, name, NewInode(type, f.inode[dir].superblock))

\* The directory file system's error is ignored: the new inode is just left
\* unreferenced.
vfs_mkdir(f, dir, name) ==
    IF CanCreate(f, dir) THEN create_inode(f, dir, name, "dir")
    ELSE [inode  |-> Append(f.inode, NewInode("none", "none")),
          dentry |-> Append(f.dentry, NewDentry(name, NULL))]

vfs_create(f, dir, name) == create_inode(f, dir, name, "file")

vfs_mknod(f, dir, name, device) ==
    AddEntry(f, dir, name, [NewInode("dev", f.inode[dir].superblock) EXCEPT !.device = device])

-----------------------------------------------------------------------------
(***************************************************************************)
(* vfs_resolve.                                                            *)
(***************************************************************************)
FirstMatch(f, dir, name) ==
    LET lh == f.inode[dir].dentry_lh
        matching == {k \in DOMAIN lh : f.dentry[lh[k]].name = name}
    IN IF matching = {} THEN NULL
       ELSE lh[CHOOSE k \in matching : \A j \in matching : k <= j]

SkipSlashes(path, b) ==
    CHOOSE k \in b .. Len(path) + 1 :
      /\ k <= Len(path) => path[k] # SLASH
      /\ \A j \in b .. k - 1 : path[j] = SLASH

\* Mutant of Through: a mount covers nothing.
Through_mutant(dentry) == dentry.inode

Through(dentry) ==
    IF dentry.mounted_inode # NULL THEN dentry.mounted_inode ELSE dentry.inode

StartWalk(path) ==
    [status |-> "walk", buf |-> SkipSlashes(path, 1), inode |-> ROOT, dentry |-> NULL, parent |-> ROOT,
     cluster |-> NULL, cur |-> NULL, byte_offset |-> 0, device |-> NULL]

\* One turn of the loop.  "load": the inode must be loaded from the disk
\* before the walk goes on.
WalkOne(f, path, w) ==
    LET b == SkipSlashes(path, w.buf)
        d == FirstMatch(f, w.inode, path[b])
        i == Through(f.dentry[d])
    IN IF w.buf > Len(path) THEN [w EXCEPT !.status = "exists"]
       ELSE IF ~ IsDir(f, w.inode) THEN [w EXCEPT !.status = "not a directory"]
       ELSE IF b > Len(path) THEN [w EXCEPT !.status = "exists"]
       ELSE IF d = NULL
       THEN [w EXCEPT !.status = IF b = Len(path) THEN "could exist" ELSE "no parent", !.buf = b]
       ELSE [w EXCEPT !.status = IF f.inode[i].load_needed THEN "load" ELSE "walk",
                      !.buf = b + 1, !.inode = i, !.dentry = d, !.parent = w.inode]

Walk(f, path, w) ==
    LET after[k \in 0 .. Len(path) + 1] ==
          IF k = 0 THEN w
          ELSE IF after[k - 1].status = "walk" THEN WalkOne(f, path, after[k - 1]) ELSE after[k - 1]
    IN after[Len(path) + 1]

-----------------------------------------------------------------------------
(***************************************************************************)
(* exFAT: loading a directory or a file.                                   *)
(***************************************************************************)

LoadDone(f, i) == [f EXCEPT !.inode[i].load_needed = FALSE]

\* One directory entry: p is [fs, cur], cur the dentry being filled.
ParseEntry(p, dir, x) ==
    LET i == p.fs.dentry[p.cur].inode
    IN CASE x.e = "file" ->
              [fs  |-> AddEntry(p.fs, dir, <<>>,
                                [NewInode(x.type, "exfat") EXCEPT !.load_needed = TRUE]),
               cur |-> Len(p.fs.dentry) + 1]
         [] x.e = "info" ->
              LET n == p.fs.inode[i]
              IN [p EXCEPT !.fs.inode[i] =
                    [n EXCEPT !.start = x.start,
                              !.file_length = IF n.type = "file" THEN x.length ELSE @]]
         [] x.e = "name" ->
              IF p.cur = NULL THEN p ELSE [p EXCEPT !.fs.dentry[p.cur].name = @ \o x.part]
         [] OTHER -> p

\* Mutant of ParsePage: the end of the directory is not noticed.
ParsePage_mutant(f, dir, cur, entries) ==
    LET p[k \in 0 .. Len(entries)] ==
          IF k = 0 THEN [fs |-> f, cur |-> cur] ELSE ParseEntry(p[k - 1], dir, entries[k])
    IN p[Len(entries)]

\* The entries of a page.
ParsePage(f, dir, cur, entries) ==
    LET n == EntriesOf(entries)
        p[k \in 0 .. n] ==
          IF k = 0 THEN [fs |-> f, cur |-> cur] ELSE ParseEntry(p[k - 1], dir, entries[k])
    IN p[n]

\* Mutant of AddCluster: the cluster the chain started with, every time.
AddCluster_mutant(f, i, offset, cluster) ==
    [f EXCEPT !.inode[i].clusters = Append(@, [byte_offset |-> offset, device_offset |-> f.inode[i].start])]

\* The next cluster of a file, whose entry in the FAT is then read.  Lengths
\* and offsets of files are in clusters.
AddCluster(f, i, offset, cluster) ==
    [f EXCEPT !.inode[i].clusters = Append(@, [byte_offset |-> offset, device_offset |-> cluster])]

\* exfat_lookup: the walk has come to an inode that must be loaded.
exfat_lookup(f, path, w) ==
    LET i == w.inode
        g == [f EXCEPT !.inode[i].loads = @ + 1]
        start == g.inode[i].start
    IN IF IsDir(g, i)
       THEN [fs |-> g, w |-> [w EXCEPT !.status = "page", !.cluster = start, !.cur = NULL]]
       ELSE IF g.inode[i].file_length = 0
       THEN LET h == LoadDone(g, i)
            IN [fs |-> h, w |-> Walk(h, path, [w EXCEPT !.status = "walk"])]
       ELSE [fs |-> AddCluster(g, i, 0, start),
             w |-> [w EXCEPT !.status = "file fat", !.cluster = start, !.byte_offset = 0]]

\* On with the resolution, up to its end or the next read from the disk.
Advance(f, path, w) ==
    LET v == Walk(f, path, w)
    IN IF v.status = "load" THEN exfat_lookup(f, path, v) ELSE [fs |-> f, w |-> v]

AfterLoad(f, path, w) ==
    Advance(LoadDone(f, w.inode), path, [w EXCEPT !.status = "walk"])

\* What the answer to the read the task waits for leads to.
PageArrives(f, w) ==
    LET p == ParsePage(f, w.inode, w.cur, DiskPages[w.cluster])
    IN [fs |-> p.fs, w |-> [w EXCEPT !.status = "fat", !.cur = p.cur]]

FatArrives(f, path, w) ==
    IF FAT[w.cluster] = EOC THEN AfterLoad(f, path, w)
    ELSE [fs |-> f, w |-> [w EXCEPT !.status = "page", !.cluster = FAT[w.cluster]]]

FileFatArrives(f, path, w) ==
    LET next == FAT[w.cluster]
        offset == w.byte_offset + 1
    IN IF next = EOC \/ offset >= f.inode[w.inode].file_length THEN AfterLoad(f, path, w)
       ELSE [fs |-> AddCluster(f, w.inode, offset, next),
             w |-> [w EXCEPT !.cluster = next, !.byte_offset = offset]]

-----------------------------------------------------------------------------
(***************************************************************************)
(* Booting: the tree before the first task runs.                           *)
(***************************************************************************)
vfs_init ==
    LET empty == [inode |-> <<NewInode("dir", "ramfs")>>, dentry |-> <<>>]
    IN vfs_mkdir(vfs_mkdir(empty, ROOT, <<"dev">>), ROOT, <<"sys">>)

DEV == 2
SYS == 3
SYSFS_ROOT == 4

\* The three files of sysfs; sysfs is mounted on sys.
sysfs_init(f) ==
    LET g == [f EXCEPT !.inode = Append(@, NewInode("dir", "sysfs"))]
        File(n) == [NewInode("file", "sysfs") EXCEPT !.file_length = 10, !.start = n]
        h == AddEntry(AddEntry(AddEntry(g, SYSFS_ROOT, <<"pciinfo">>, File(1)),
                               SYSFS_ROOT, <<"meminfo">>, File(2)), SYSFS_ROOT, <<"nvme">>, File(3))
        sys == Walk(h, <<<<"sys">>>>, StartWalk(<<<<"sys">>>>))
    IN [h EXCEPT !.dentry[sys.dentry].mounted_inode = SYSFS_ROOT]

terminal_init_2(f) ==
    vfs_mknod(vfs_mknod(vfs_mknod(f, DEV, <<"tty1">>, <<"tty", 1>>), DEV, <<"tty2">>, <<"tty", 2>>),
              DEV, <<"tty3">>, <<"tty", 3>>)

zero_init(f) == vfs_mknod(f, DEV, <<"zero">>, <<"zero", 1>>)

\* What extract_tar_files makes of an entry: a path that exists already, or
\* has no parent directory, is a panic; no inodes stand for that, and nothing
\* happens any more.
Extract(f, entry) ==
    LET w == Walk(f, entry.path, StartWalk(entry.path))
        name == entry.path[w.buf]
    IN IF f.inode = <<>> \/ w.status # "could exist" THEN [f EXCEPT !.inode = <<>>]
       ELSE IF entry.dir THEN vfs_mkdir(f, w.inode, name) ELSE vfs_create(f, w.inode, name)

extract_tar_files(f) ==
    LET g[k \in 0 .. Len(TarEntries)] == IF k = 0 THEN f ELSE Extract(g[k - 1], TarEntries[k])
    IN g[Len(TarEntries)]

Init ==
    /\ fs = extract_tar_files(zero_init(terminal_init_2(sysfs_init(vfs_init))))
    /\ fs.inode # <<>>
    /\ call = [t \in Tasks |-> NoCall]
    /\ walk = [t \in Tasks |-> NoWalk]
    /\ reply = [t \in Tasks |-> 0]
    /\ files = [t \in Tasks |-> <<>>]
    /\ probed = FALSE
    /\ ncalls = 0

\* kt_hw_init has read the partition table: a device file for each partition
\* up to the first entry that cannot be handled.
nvmepart_probe ==
    LET bad == {k \in DOMAIN GptEntries : k > GptFits \/ (GptEntries[k].used /\ GptEntries[k].beyond2tb)}
        n == IF bad = {} THEN Len(GptEntries) ELSE (CHOOSE k \in bad : \A j \in bad : k <= j) - 1
        f[k \in 0 .. n] ==
          IF k = 0 THEN fs
          ELSE IF ~ GptEntries[k].used THEN f[k - 1]
          ELSE vfs_mknod(f[k - 1], DEV, GptEntries[k].name, <<"nvmepart", k>>)
    IN /\ ~ probed
       /\ probed' = TRUE
       /\ fs' = f[n]
       /\ UNCHANGED <<call, walk, reply, files, ncalls>>
-----------------------------------------------------------------------------
(***************************************************************************)
(* The system calls.                                                       *)
(***************************************************************************)
Waiting == {"page", "fat", "file fat"}

Invoke(t, c) ==
    /\ call[t] = NoCall
    /\ ncalls < MaxCalls
    /\ call' = [call EXCEPT ![t] = c]
    /\ walk' = [walk EXCEPT ![t] = StartWalk(c.path)]
    /\ ncalls' = ncalls + 1
    /\ UNCHANGED <<fs, reply, files, probed>>

Return(t, value) ==
    /\ call' = [call EXCEPT ![t] = NoCall]
    /\ walk' = [walk EXCEPT ![t] = NoWalk]
    /\ reply' = [reply EXCEPT ![t] = value]

\* The next descriptor, for inode i.
Open(t, i) == files' = [files EXCEPT ![t] = Append(@, i)]

\* SYSCALL_OPEN, once the path is resolved.
OpenResolved(t, f, w) ==
    LET c == call[t]
    IN /\ \/ /\ w.status = "exists"
             /\ fs' = f
             /\ Open(t, w.inode)
             \* vfs_ftruncate: sysfs and exFAT refuse, with the file open.
             /\ Return(t, IF f.inode[w.inode].type = "file" /\ c.truncate
                             /\ f.inode[w.inode].superblock # "ramfs"
                          THEN -1 ELSE Len(files[t]))
          \/ /\ w.status = "could exist" /\ c.create /\ CanCreate(f, w.inode)
             /\ fs' = vfs_create(f, w.inode, c.path[w.buf])
             /\ Open(t, Len(f.inode) + 1)
             /\ Return(t, Len(files[t]))
          \/ /\ w.status = "could exist" /\ c.create /\ ~ CanCreate(f, w.inode)
             /\ fs' = f
             /\ Return(t, -4)
             /\ UNCHANGED files
          \/ /\ w.status \in {"not a directory", "no parent"} \/ (w.status = "could exist" /\ ~ c.create)
             /\ fs' = f
             /\ Return(t, CASE w.status = "not a directory" -> -1
                            [] w.status = "no parent" -> -2
                            [] w.status = "could exist" -> -3)
             /\ UNCHANGED files
       /\ UNCHANGED <<probed, ncalls>>

\* SYSCALL_MKDIR, once the path is resolved.
MkdirResolved(t, f, w) ==
    LET c == call[t]
    IN /\ \/ /\ w.status = "could exist"
             /\ fs' = vfs_mkdir(f, w.inode, c.path[w.buf])
             /\ Return(t, 0)
          \/ /\ w.status # "could exist"
             /\ fs' = f
             /\ Return(t, CASE w.status = "not a directory" -> -1
                            [] w.status = "no parent" -> -2
                            [] w.status = "exists" -> -3)
       /\ UNCHANGED <<files, probed, ncalls>>

\* SYSCALL_MOUNT, once both paths are resolved: exfat_mount reads the first
\* page of a partition, and of nothing else.
MountpointResolved(t, f, w) ==
    LET refused == IF w.status # "exists" THEN -2
                   ELSE IF ~ IsDir(f, w.inode) THEN -3
                   ELSE IF ~ call[t].exfat THEN -4
                   ELSE IF f.inode[w.device].device = <<>> \/ f.inode[w.device].device[1] # "nvmepart" THEN -10
                   ELSE 0
    IN /\ fs' = f
       /\ \/ /\ refused # 0
             /\ Return(t, refused)
          \/ /\ refused = 0
             /\ walk' = [walk EXCEPT ![t] = [w EXCEPT !.status = "superblock"]]
             /\ UNCHANGED <<call, reply>>
       /\ UNCHANGED <<files, probed, ncalls>>

Waits(t, r) ==
    /\ r.w.status \in Waiting
    /\ fs' = r.fs
    /\ walk' = [walk EXCEPT ![t] = r.w]
    /\ UNCHANGED <<call, reply, files, probed, ncalls>>

ResolveMountpoint(t, r) ==
    \/ Waits(t, r)
    \/ r.w.status \notin Waiting /\ MountpointResolved(t, r.fs, r.w)

\* The device comes first; its inode is kept while the mount point is resolved.
ResolveDevice(t, r) ==
    \/ Waits(t, r)
    \/ /\ r.w.status \notin Waiting \cup {"exists"}
       /\ fs' = r.fs
       /\ Return(t, -1)
       /\ UNCHANGED <<files, probed, ncalls>>
    \/ /\ r.w.status = "exists"
       /\ ResolveMountpoint(t, Advance(r.fs, call[t].on, [StartWalk(call[t].on) EXCEPT !.device = r.w.inode]))

\* The call goes on with the resolution r.
Proceed(t, r) ==
    CASE call[t].op = "mount" ->
           IF r.w.device = NULL THEN ResolveDevice(t, r) ELSE ResolveMountpoint(t, r)
      [] call[t].op = "open" -> Waits(t, r) \/ (r.w.status \notin Waiting /\ OpenResolved(t, r.fs, r.w))
      [] call[t].op = "mkdir" -> Waits(t, r) \/ (r.w.status \notin Waiting /\ MkdirResolved(t, r.fs, r.w))

Path(t) == IF walk[t].device = NULL THEN call[t].path ELSE call[t].on

Run(t) ==
    /\ walk[t].status = "walk"
    /\ Proceed(t, Advance(fs, Path(t), walk[t]))

PageRead(t) ==
    /\ walk[t].status = "page"
    /\ Waits(t, PageArrives(fs, walk[t]))

FatRead(t) ==
    /\ walk[t].status = "fat"
    /\ Proceed(t, FatArrives(fs, Path(t), walk[t]))

FileFatRead(t) ==
    /\ walk[t].status = "file fat"
    /\ Proceed(t, FileFatArrives(fs, Path(t), walk[t]))

\* The rest of exfat_mount: the root directory is a new inode, not yet loaded.
exfat_mount(t) ==
    LET w == walk[t]
        root == [NewInode("dir", "exfat") EXCEPT !.start = RootCluster, !.load_needed = TRUE]
    IN /\ w.status = "superblock"
       /\ \/ /\ ~ GptEntries[fs.inode[w.device].device[2]].exfat
             /\ Return(t, -11)
             /\ UNCHANGED fs
          \/ /\ GptEntries[fs.inode[w.device].device[2]].exfat
             /\ fs' = [inode |-> Append(fs.inode, root),
                       dentry |-> [fs.dentry EXCEPT ![w.dentry].mounted_inode = Len(fs.inode) + 1]]
             /\ Return(t, 0)
       /\ UNCHANGED <<files, probed, ncalls>>

\* A task is killed while it waits for the disk; a new one takes its place.
Killed(t) ==
    /\ walk[t].status \in Waiting \cup {"superblock"}
    /\ call' = [call EXCEPT ![t] = NoCall]
    /\ walk' = [walk EXCEPT ![t] = NoWalk]
    /\ files' = [files EXCEPT ![t] = <<>>]
    /\ UNCHANGED <<fs, reply, probed, ncalls>>

Next ==
    \/ nvmepart_probe
    \/ \E t \in Tasks :
         \/ \E c \in Calls : Invoke(t, c)
         \/ Run(t) \/ PageRead(t) \/ FatRead(t) \/ FileFatRead(t) \/ exfat_mount(t)
         \/ Killed(t)

Spec == Init /\ [][Next]_vars

-----------------------------------------------------------------------------
(***************************************************************************)
(* Properties.                                                             *)
(***************************************************************************)
\* SYSCALL_GETDENTS: the names in directory i, as many as the buffer has room for.
getdents(i, room) ==
    LET lh == fs.inode[i].dentry_lh
    IN [k \in 1 .. IF Len(lh) < room THEN Len(lh) ELSE room |-> fs.dentry[lh[k]].name]

\* The object an inode stands for.
Object(i) ==
    LET n == fs.inode[i]
    IN CASE n.superblock = "ramfs" -> [fs |-> "ram", type |-> n.type, id |-> i]
         [] n.superblock = "sysfs" -> [fs |-> "sys", type |-> n.type, id |-> n.start]
         [] n.superblock = "exfat" -> [fs |-> "disk", type |-> n.type, id |-> n.start]

Dirs == {i \in DOMAIN fs.inode : IsDir(fs, i)}

NamesOnDisk(i) == {l.name : l \in {k \in DiskTree : k.dir = Object(i)}}

\* getdents (syscall.c) of any directory, with room for all of it, gives every
\* name once; and once an exFAT directory is loaded (exfat_load_dir_inode) these
\* are the names on the disk, however its entries are spread over clusters.
\* For a directory whose load was begun a second time, because two tasks came
\* to it together or because the first was killed, only: no name is missing.
ListingsRight ==
    \A i \in Dirs :
      LET names == getdents(i, 100)
          listed == {names[k] : k \in DOMAIN names}
          loaded == fs.inode[i].superblock = "exfat" /\ ~ fs.inode[i].load_needed
      IN /\ fs.inode[i].loads <= 1 => Cardinality(listed) = Len(names)
         /\ loaded /\ fs.inode[i].loads <= 1 => listed = NamesOnDisk(i)
         /\ loaded => NamesOnDisk(i) \subseteq listed

\* The content pages of a loaded exFAT file (exfat_load_file_inode) are the
\* clusters of its chain in order, one for each page of the file's length;
\* unless two tasks loaded the file together, or one was killed doing so.
LoadedFilesMatchDisk ==
    \A i \in DOMAIN fs.inode :
      LET n == fs.inode[i]
      IN n.superblock = "exfat" /\ n.type = "file" /\ ~ n.load_needed /\ n.loads = 1 =>
           /\ Len(n.clusters) = n.file_length
           /\ \A k \in DOMAIN n.clusters :
                /\ n.clusters[k].byte_offset = k - 1
                /\ n.clusters[k].device_offset = IF k = 1 THEN n.start ELSE FAT[n.clusters[k - 1].device_offset]

SysObject(type, n) == [fs |-> "sys", type |-> type, id |-> n]

SysTree ==
    {[dir |-> SysObject("dir", 0), name |-> <<"pciinfo">>, obj |-> SysObject("file", 1)],
     [dir |-> SysObject("dir", 0), name |-> <<"meminfo">>, obj |-> SysObject("file", 2)],
     [dir |-> SysObject("dir", 0), name |-> <<"nvme">>, obj |-> SysObject("file", 3)]}

Entries == UNION {{<<i, fs.inode[i].dentry_lh[k]>> : k \in DOMAIN fs.inode[i].dentry_lh} :
                  i \in {j \in Dirs : fs.inode[j].superblock = "ramfs"}}

Tree == INSTANCE Namespace WITH
    FixedLinks <- DiskTree \cup SysTree,
    DiskRoot   <- [fs |-> "disk", type |-> "dir", id |-> RootCluster],
    Partitions <- {g.name : g \in Range(GptEntries)},
    Formatted  <- {g.name : g \in {h \in Range(GptEntries) : h.exfat}},
    ObjectIds  <- Nat,
    links  <- {[dir |-> Object(e[1]), name |-> fs.dentry[e[2]].name, obj |-> Object(fs.dentry[e[2]].inode)] : e \in Entries},
    covers <- {[dir |-> Object(e[1]), name |-> fs.dentry[e[2]].name, obj |-> Object(fs.dentry[e[2]].mounted_inode)] :
                 e \in {d \in Entries : fs.dentry[d[2]].mounted_inode # NULL}},
    files  <- [t \in Tasks |-> [k \in DOMAIN files[t] |-> Object(files[t][k])]]

\* Every open, mkdir and mount answers as if it had happened in one step on a
\* tree that holds the disk's directories from the start: vfs_resolve finds the
\* object the path names, through mounts and through directories other tasks
\* are loading, and a name is created once.
ActsLikeNamespace == Tree!Spec
=============================================================================
