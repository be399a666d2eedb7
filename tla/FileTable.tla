----------------------------- MODULE FileTable -----------------------------
(***************************************************************************)
(* File descriptors: the list files_lh of each task, and the open, close,  *)
(* dup2, lseek, fork, read and write syscalls of kernel/syscall.c on it,   *)
(* with the searches of fs/vfs.c.                                          *)
(*                                                                         *)
(* A struct file is a slot of the slab allocator.  slab_free only marks    *)
(* the slot free, its bytes stay until the slot is handed out again, so    *)
(* fd, inode and offset are functions of ALL slots.  None of these calls   *)
(* gives up the CPU while it works on the table: each is one step.         *)
(***************************************************************************)
EXTENDS Integers, Sequences, FiniteSets, SequencesExt

CONSTANTS
    Tasks,      \* tasks that may exist
    InitTask,   \* the one that exists at boot
    Files,      \* slots for struct file
    Inodes,     \* what paths resolve to, or are created as
    NoInode,    \* what a slot never used holds
    FdModulus,  \* fd is a uint32_t: 2^32, scaled down
    MaxFd,      \* bound: dup2 targets, and the last descriptor open still goes beyond
    MaxOffset   \* bound on file offsets

ASSUME FileConstants ==
    /\ InitTask \in Tasks
    /\ NoInode \notin Inodes
    /\ FdModulus \in Nat \ {0} /\ MaxFd \in 0 .. FdModulus - 1
    /\ MaxOffset \in Nat

VARIABLES
    fd, inode, offset, \* the fields of each struct file
    used,              \* slots handed out: the slab's bitmap
    files,             \* files_lh of each task, a sequence of slots
    alive              \* tasks that exist: running, or dead and not reaped

vars == <<fd, inode, offset, used, files, alive>>

Fds == 0 .. FdModulus - 1

TypeOK ==
    /\ fd \in [Files -> Fds]
    /\ inode \in [Files -> Inodes \cup {NoInode}]
    /\ offset \in [Files -> 0 .. MaxOffset]
    /\ used \subseteq Files
    /\ alive \subseteq Tasks
    /\ files \in [Tasks -> Seq(Files)]
    /\ \A t \in Tasks : \A k \in DOMAIN files[t] : inode[files[t][k]] \in Inodes

\* Slots start as kpage_alloc and slab_alloc's memset leave them; init is
\* started with an empty list.
Init ==
    /\ fd = [f \in Files |-> 0]
    /\ inode = [f \in Files |-> NoInode]
    /\ offset = [f \in Files |-> 0]
    /\ used = {}
    /\ files = [t \in Tasks |-> <<>>]
    /\ alive = {InitTask}

-----------------------------------------------------------------------------
\* filp_find: position in the list of the first file with that descriptor, or 0.
Find(t, d) == SelectInSeq(files[t], LAMBDA f : fd[f] = d)

\* Mutant of InsertPoint: always the end.
InsertLast(s, d) == Len(s) + 1

\* filp_insert_point_find: position of the first file with a greater
\* descriptor, or the end.
InsertPoint(s, d) ==
    LET k == SelectInSeq(s, LAMBDA f : fd[f] > d)
    IN  IF k = 0 THEN Len(s) + 1 ELSE k

\* Mutant of ListDel: the list is left alone.
ListKept(s, k) == s

\* list_del of the k-th file.
ListDel(s, k) == RemoveAt(s, k)

\* Mutant of AfterFree: the slot is overwritten, as the line of slab_free that
\* is commented out would.
Poisoned(f) == [inode EXCEPT ![f] = NoInode]

\* slab_free leaves the bytes of the slot alone.
AfterFree(f) == inode

\* Mutant of FillIn: the offset is whatever the slot held before.
FillInNoOffset(bytes, n, d, i, o) ==
    /\ fd' = [fd EXCEPT ![n] = d]
    /\ inode' = [bytes EXCEPT ![n] = i]
    /\ UNCHANGED offset

\* The fields of a new struct file are assigned.
FillIn(bytes, n, d, i, o) ==
    /\ fd' = [fd EXCEPT ![n] = d]
    /\ inode' = [bytes EXCEPT ![n] = i]
    /\ offset' = [offset EXCEPT ![n] = o]

-----------------------------------------------------------------------------
(* The syscalls.                                                           *)

\* The descriptor open gives: one more than the last of the list.
NewFd(s) == IF s = <<>> THEN 0 ELSE (fd[Last(s)] + 1) % FdModulus

\* SYSCALL_OPEN of a path that exists or is created.  When O_TRUNCATE fails
\* the call returns an error, but the file stays in the list all the same.
Open(t, i) ==
    /\ t \in alive
    /\ files[t] # <<>> => fd[Last(files[t])] <= MaxFd
    /\ \E n \in Files \ used :
         /\ FillIn(inode, n, NewFd(files[t]), i, 0)
         /\ used' = used \cup {n}
         /\ files' = [files EXCEPT ![t] = Append(@, n)]
    /\ UNCHANGED alive

\* SYSCALL_CLOSE of an open descriptor.
Close(t, d) ==
    /\ t \in alive /\ Find(t, d) # 0
    /\ LET k == Find(t, d) IN
         /\ used' = used \ {files[t][k]}
         /\ inode' = AfterFree(files[t][k])
         /\ files' = [files EXCEPT ![t] = ListDel(@, k)]
    /\ UNCHANGED <<fd, offset, alive>>

\* SYSCALL_DUP2 from an open descriptor a to b.  The old struct file is read
\* last: when a = b its slot has been freed by then, and may be the new one.
Dup2(t, a, b) ==
    /\ t \in alive /\ Find(t, a) # 0
    /\ LET old    == files[t][Find(t, a)]
           k      == Find(t, b)
           bytes  == IF k = 0 THEN inode ELSE AfterFree(files[t][k])
           rest   == IF k = 0 THEN files[t] ELSE ListDel(files[t], k)
           inUse  == IF k = 0 THEN used ELSE used \ {files[t][k]}
       IN  \E n \in Files \ inUse :
             /\ FillIn(bytes, n, b, bytes[old], offset[old])
             /\ used' = inUse \cup {n}
             /\ files' = [files EXCEPT ![t] = InsertAt(rest, InsertPoint(rest, b), n)]
    /\ UNCHANGED alive

\* SYSCALL_LSEEK, and the offset that read and write leave.
Seek(t, d, o) ==
    /\ t \in alive /\ Find(t, d) # 0
    /\ offset' = [offset EXCEPT ![files[t][Find(t, d)]] = o]
    /\ UNCHANGED <<fd, inode, used, files, alive>>

\* Mutant of Fork: the child gets the parent's struct files.
ForkShared(p, c) ==
    /\ p \in alive /\ c \notin alive
    /\ files' = [files EXCEPT ![c] = files[p]]
    /\ alive' = alive \cup {c}
    /\ UNCHANGED <<fd, inode, offset, used>>

\* SYSCALL_FORK: the child gets a copy of every struct file, in order.
Fork(p, c) ==
    /\ p \in alive /\ c \notin alive
    /\ \E copy \in [DOMAIN files[p] -> Files \ used] :
         /\ IsInjective(copy)
         /\ LET Copied(field) ==
                  [f \in Files |-> IF \E k \in DOMAIN copy : copy[k] = f
                                   THEN field[files[p][CHOOSE k \in DOMAIN copy : copy[k] = f]]
                                   ELSE field[f]]
            IN  fd' = Copied(fd) /\ inode' = Copied(inode) /\ offset' = Copied(offset)
         /\ used' = used \cup Range(copy)
         /\ files' = [files EXCEPT ![c] = copy]
    /\ alive' = alive \cup {c}

\* A task that died is reaped by another one's waitpid: free_userspace_memory,
\* free_kernelspace_memory and free_task.  None of them visits files_lh.
Reap(t) ==
    /\ t \in alive /\ alive # {t}
    /\ alive' = alive \ {t}
    /\ files' = [files EXCEPT ![t] = <<>>]
    /\ UNCHANGED <<fd, inode, offset, used>>

Next ==
    \E t \in Tasks :
        \/ \E i \in Inodes : Open(t, i)
        \/ \E d \in 0 .. MaxFd : Close(t, d)
        \/ \E a, b \in 0 .. MaxFd : Dup2(t, a, b)
        \/ \E d \in 0 .. MaxFd, o \in 0 .. MaxOffset : Seek(t, d, o)
        \/ \E c \in Tasks : Fork(t, c)
        \/ Reap(t)

Spec == Init /\ [][Next]_vars

-----------------------------------------------------------------------------
(* Properties.                                                             *)

\* What descriptor d of task t stands for: an inode and an offset, or nothing.
Seen(t, d) ==
    IF Find(t, d) = 0 THEN <<>>
    ELSE <<inode[files[t][Find(t, d)]], offset[files[t][Find(t, d)]]>>

\* vfs.h:119, "List of struct file associated with a task_struct, sorted by
\* fd": descriptors grow along the list, so none is in it twice.
FilesSortedByFd ==
    \A t \in Tasks : \A j, k \in DOMAIN files[t] :
        j < k => fd[files[t][j]] < fd[files[t][k]]

\* A struct file in a list is allocated, and in that one place only: no
\* descriptor outlives its file, and a reused slot is never seen by two tasks.
FilesOwnedOnce ==
    \A t, u \in Tasks : \A j \in DOMAIN files[t], k \in DOMAIN files[u] :
        /\ files[t][j] \in used
        /\ files[t][j] = files[u][k] => t = u /\ j = k

\* dup2(a, b) makes b stand for what a stood for, also when a = b and when b
\* was open, and leaves every other descriptor of the task as it was.
Dup2Copies ==
    [][\A t \in Tasks : \A a, b \in 0 .. MaxFd :
          Dup2(t, a, b) =>
              /\ Seen(t, b)' = Seen(t, a)
              /\ \A d \in Fds \ {b} : Seen(t, d)' = Seen(t, d)]_vars

\* A step changes what descriptors stand for in one task at most: after fork,
\* neither parent nor child can disturb the other through an offset or a slot.
TasksIsolated ==
    [][\A t, u \in Tasks :
          (\E d \in Fds : Seen(t, d)' # Seen(t, d)) /\ (\E d \in Fds : Seen(u, d)' # Seen(u, d))
              => t = u]_vars
=============================================================================
