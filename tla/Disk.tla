-------------------------------- MODULE Disk --------------------------------
(***************************************************************************)
(* Bytes on an NVMe disk: the probing of the device by the hardware task   *)
(* (nvme_probe_2, nvme_probe_contents, nvmepart_probe), and reads and      *)
(* writes of the whole disk (drivers/nvme.c), of its partitions            *)
(* (drivers/nvmepart.c) and of an exFAT file in one of them                 *)
(* (fs/exfat.c), through vfs_read and vfs_write.                           *)
(*                                                                         *)
(* The device moves whole pages.  A task that has submitted the read or    *)
(* the write of a page yields until it is executed; NvmeQueue models how.  *)
(* Here a page is moved in one step, and commands succeed.                 *)
(***************************************************************************)
EXTENDS Naturals, Integers, Sequences, FiniteSets

CONSTANTS
    Tasks,
    PAGE,           \* 4096: bytes in a page, and in a cluster
    UINT64,         \* 2^64
    DiskSize,       \* lba_count << lbads_exponent
    LBA_BYTES,      \* 2^32 << lbads_exponent: what the uint32_t lba of a command can address
    PartStart,      \* first byte of each partition
    PartEnd,        \* the byte after its last
    ExfatPart,      \* the partition with an exFAT file system
    Clusters,       \* the device_offset of each cluster of the file, in its partition
    file_length,
    ByteOf,         \* the byte a task writes
    Lengths,        \* lengths of reads and writes
    Offsets,        \* offsets tasks seek to
    MaxCalls,       \* bound: the number of reads and writes
    Careful         \* TRUE: callers avoid what the drivers do not handle

ASSUME DiskAssumption ==
    /\ {DiskSize, UINT64, file_length} \subseteq Nat /\ Lengths \subseteq Nat /\ Offsets \subseteq Nat
    /\ PAGE \in Nat \ {0} /\ DiskSize % PAGE = 0 /\ DiskSize < UINT64 /\ file_length < UINT64
    /\ DOMAIN PartStart \cap {"disk", "exfat", "none"} = {} /\ ExfatPart \in DOMAIN PartStart
    /\ PartStart \in [DOMAIN PartStart -> Nat] /\ PartEnd \in [DOMAIN PartStart -> Nat]
    /\ LBA_BYTES \in Nat \ {0} /\ LBA_BYTES % PAGE = 0
    \* nvmepart_probe gives up on a partition that begins or ends beyond 2^32 blocks.
    /\ \A p \in DOMAIN PartStart :
          PartStart[p] < PartEnd[p] /\ PartEnd[p] <= DiskSize /\ PartEnd[p] <= LBA_BYTES
    /\ Clusters \in Seq(Nat) /\ file_length <= PAGE * Len(Clusters)
    /\ \A k \in DOMAIN Clusters : Clusters[k] + PAGE <= PartEnd[ExfatPart] - PartStart[ExfatPart]
    /\ ByteOf \in [Tasks -> Nat]
    /\ Careful \in BOOLEAN

VARIABLES
    disk,        \* byte at each offset of the disk
    probe,       \* how far the hardware task has come with the device
    lba_count,   \* in bytes: 0 until the namespace is identified
    filp,        \* the file each task has open: [file, offset]
    call,        \* the vfs_read or vfs_write it is in
    io,          \* the locals of the functions below it
    early,       \* the tasks whose command is in the ring, though the device has no queue yet
    ncalls

vars == <<disk, probe, lba_count, filp, call, io, early, ncalls>>

NoCall == [op |-> "none"]
NoFile == [file |-> "none", offset |-> 0]
NoIo == [phase |-> "idle", done |-> 0, got |-> <<>>, k |-> 0, at |-> 0, left |-> 0, asked |-> 0,
         temp |-> <<>>, dead |-> FALSE]

Parts == DOMAIN PartStart

\* The device files, and the file in the mounted exFAT.
FileNames == {"disk", "exfat"} \cup Parts

Minimum(a, b) == IF a < b THEN a ELSE b

-----------------------------------------------------------------------------
(***************************************************************************)
(* The device is probed.                                                   *)
(***************************************************************************)

\* nvme_probe_1 has made the device file while the system booted.
Init ==
    /\ disk = [a \in 0 .. DiskSize - 1 |-> 0]
    /\ probe = "found"
    /\ lba_count = 0
    /\ filp = [t \in Tasks |-> NoFile]
    /\ call = [t \in Tasks |-> NoCall]
    /\ io = [t \in Tasks |-> NoIo]
    /\ early = {}
    /\ ncalls = 0

Stage(from, to) ==
    /\ probe = from
    /\ probe' = to
    /\ UNCHANGED <<disk, filp, call, io, early, ncalls>>

\* The controller is reset, given its admin queues and enabled again.
nvme_probe_2 == Stage("found", "enabled") /\ UNCHANGED lba_count

\* The admin commands, one after the other; the hardware task gives up on an
\* error, and on a controller that is not for I/O.
IdentifyController == (Stage("enabled", "controller") \/ Stage("enabled", "failed")) /\ UNCHANGED lba_count

IdentifyNamespace ==
    \/ Stage("controller", "namespace") /\ lba_count' = DiskSize
    \/ Stage("controller", "failed") /\ UNCHANGED lba_count

CreateIocq == (Stage("namespace", "iocq") \/ Stage("namespace", "failed")) /\ UNCHANGED lba_count

CreateIosq == (Stage("iocq", "iosq") \/ Stage("iocq", "failed")) /\ UNCHANGED lba_count

\* A command submitted before the I/O queue exists stays in the ring: the device
\* is told of a queue it does not have.  The tail it is told with the first command
\* that follows is beyond both.
QueueExists == probe \in {"iosq", "table", "partitions", "no partitions"}

Submit(t) == early' = IF QueueExists THEN {} ELSE early \cup {t}

\* nvmepart_probe submits the first of its five reads.
ReadTable ==
    /\ probe = "iosq"
    /\ probe' = "table"
    /\ early' = {}
    /\ UNCHANGED <<disk, lba_count, filp, call, io, ncalls>>

\* It has read them, and the partitions become device files, if there are any.
nvmepart_probe == (Stage("table", "partitions") \/ Stage("table", "no partitions")) /\ UNCHANGED lba_count

\* Mutant of Exists: the partitions are read off as soon as the disk is identified.
Exists_mutant(file) == file = "disk" \/ lba_count # 0

Exists(file) == file = "disk" \/ probe = "partitions"

-----------------------------------------------------------------------------
(***************************************************************************)
(* Reading and writing.  A segment [at, n] is what one call of nvme_read   *)
(* or nvme_write is asked for: n bytes at offset at of the disk.           *)
(***************************************************************************)

\* nvme_read and nvme_write do not go past the end of the disk.
Clamped(at, n) ==
    [at |-> at, n |-> Minimum(n, IF lba_count - at < 0 THEN 0 ELSE lba_count - at)]

\* Mutant of nvmepart: the end of the partition as an offset in it.
nvmepart_mutant(p, offset, n) == Clamped(offset + PartStart[p], Minimum(n, PartEnd[p] - offset))

\* nvmepart_read and nvmepart_write: what is left of the partition is unsigned.
nvmepart(p, offset, n) ==
    LET at == offset + PartStart[p]
    IN Clamped(at, Minimum(n, (PartEnd[p] - at) % UINT64))

Device(file, offset, n) ==
    IF file = "disk" THEN Clamped(offset, n) ELSE nvmepart(file, offset, n)

\* exfat_read and exfat_write: on from cluster k to the next one that does not
\* begin after the offset.  No segment: the end of the file or of the buffer.
exfat_segment(k, offset, n) ==
    LET next == {j \in DOMAIN Clusters : j > k /\ offset >= (j - 1) * PAGE}
        j == CHOOSE j \in next : \A i \in next : j <= i
        page_offset == (offset - (j - 1) * PAGE) % PAGE
        bytes == Minimum(Minimum(n, PAGE - page_offset), (file_length - offset) % UINT64)
    IN IF next = {} \/ bytes = 0 THEN [k |-> k, at |-> 0, n |-> 0]
       ELSE LET s == nvmepart(ExfatPart, Clusters[j] + page_offset, bytes)
            IN [k |-> j, at |-> s.at, n |-> s.n]

\* The locals i on entering a segment: the first page is read, or there is
\* nothing to do.
Enter(i, k, s) ==
    [i EXCEPT !.k = k, !.at = s.at, !.left = s.n, !.asked = s.n,
              !.phase = IF s.n = 0 THEN "return" ELSE "readpage"]

\* Where each byte of a file is: what the calls mean.
Places ==
    [f \in FileNames |->
       CASE f = "disk" -> [a \in 1 .. DiskSize |-> a - 1]
         [] f = "exfat" -> [a \in 1 .. file_length |->
                              PartStart[ExfatPart] + Clusters[((a - 1) \div PAGE) + 1] + ((a - 1) % PAGE)]
         [] OTHER -> [a \in 1 .. PartEnd[f] - PartStart[f] |-> PartStart[f] + a - 1]]

\* The pages a call reads or writes.
PagesOf(c) ==
    {Places[c.file][a] \div PAGE : a \in c.offset + 1 .. Minimum(c.offset + c.length, Len(Places[c.file]))}

\* What the drivers leave to their callers: an offset past the end of a file
\* or a partition, one past the first cluster of an exFAT file, the part of the
\* disk beyond 2^32 blocks, and two tasks that write to one page.
CallersAvoid(t, c) ==
    \/ c.offset > Len(Places[c.file])
    \/ c.file = "disk" /\ Minimum(c.offset + c.length, DiskSize) > LBA_BYTES
    \/ c.file = "exfat" /\ c.offset >= PAGE
    \/ /\ c.op = "write"
       /\ \E u \in Tasks \ {t} : call[u].op = "write" /\ PagesOf(call[u]) \cap PagesOf(c) # {}

\* The files a task can use next: the one it has, where it has come to, or
\* another one, after SYSCALL_OPEN and SYSCALL_LSEEK.
Usable(t) ==
    ({filp[t]} \ {NoFile}) \cup {[file |-> f, offset |-> o] : f \in {g \in FileNames : Exists(g)}, o \in Offsets}

\* vfs_read and vfs_write, up to the first page.
Begin(t, f, op, length) ==
    LET c == [op |-> op, file |-> f.file, offset |-> f.offset, length |-> length,
              data |-> [k \in 1 .. length |-> 10 * ByteOf[t] + k], ready |-> lba_count # 0]
        x == exfat_segment(0, c.offset, length)
        i == IF c.file = "exfat" THEN Enter(NoIo, x.k, x) ELSE Enter(NoIo, 0, Device(c.file, c.offset, length))
    IN /\ call[t] = NoCall
       /\ ncalls < MaxCalls
       /\ Careful => ~ CallersAvoid(t, c)
       /\ call' = [call EXCEPT ![t] = c]
       /\ io' = [io EXCEPT ![t] = i]
       /\ IF i.phase = "readpage" THEN Submit(t) ELSE UNCHANGED early
       /\ filp' = [filp EXCEPT ![t] = f]
       /\ ncalls' = ncalls + 1
       /\ UNCHANGED <<disk, probe, lba_count>>

\* Mutant of Chunk: no bytes when the offset is at the start of a page.
Chunk_mutant(i) == Minimum((PAGE - i.at) % PAGE, i.left)

\* How much of the segment is in the page.
Chunk(i) == Minimum(PAGE - (i.at % PAGE), i.left)

\* n bytes of the segment are done.  At its end a device file returns; an
\* exFAT file moves its offset and goes on to the next cluster.
Moved(t, i, n) ==
    LET j == [i EXCEPT !.done = @ + n, !.at = @ + n, !.left = @ - n, !.temp = <<>>, !.phase = "readpage"]
        offset == filp[t].offset + i.asked
        x == exfat_segment(i.k, offset, call[t].length - j.done)
    IN IF j.left > 0 /\ ~ i.dead
       THEN io' = [io EXCEPT ![t] = j] /\ UNCHANGED filp
       ELSE IF call[t].file = "exfat" /\ ~ i.dead
       THEN /\ io' = [io EXCEPT ![t] = Enter(j, x.k, x)]
            /\ filp' = [filp EXCEPT ![t].offset = offset]
       ELSE io' = [io EXCEPT ![t] = [j EXCEPT !.phase = "return"]] /\ UNCHANGED filp

\* The first byte of the page the command of i names: its lba has 32 bits.
PageBase(i) == (i.at - (i.at % PAGE)) % LBA_BYTES

\* nvme_readpage has returned.  A read takes its bytes out of the page, a write
\* puts its bytes into it.
PageRead(t) ==
    LET i == io[t]
        p == i.at % PAGE
        page == [k \in 0 .. PAGE - 1 |-> disk[PageBase(i) + k]]
        n == Chunk(i)
    IN /\ i.phase = "readpage" /\ t \notin early
       /\ \/ /\ call[t].op = "read"
             /\ Moved(t, [i EXCEPT !.got = @ \o [k \in 1 .. n |-> page[p + k - 1]]], n)
          \/ /\ call[t].op = "write"
             /\ io' = [io EXCEPT ![t].phase = "writepage", ![t].temp =
                         [k \in 0 .. PAGE - 1 |-> IF k \in p .. p + n - 1
                                                  THEN call[t].data[i.done + k - p + 1] ELSE page[k]]]
             /\ UNCHANGED filp
       /\ UNCHANGED <<disk, probe, lba_count, call, early, ncalls>>

\* The device executes the nvme_writepage, even for a task that is dead by now.
PageWrite(t) ==
    LET i == io[t]
        base == PageBase(i)
    IN /\ i.phase = "writepage"
       /\ disk' = [a \in DOMAIN disk |-> IF a \in base .. base + PAGE - 1 THEN i.temp[a - base] ELSE disk[a]]
       /\ Moved(t, i, Chunk(i))
       /\ UNCHANGED <<probe, lba_count, call, early, ncalls>>

\* vfs_read and vfs_write return.  Only exfat_read has moved the offset of the
\* file already, and it alone is spared the second time.
Return(t) ==
    LET c == call[t]
    IN /\ io[t].phase = "return"
       /\ filp' = IF io[t].dead THEN [filp EXCEPT ![t] = NoFile]
                  ELSE IF c.file = "exfat" /\ c.op = "read" THEN filp
                  ELSE [filp EXCEPT ![t].offset = @ + io[t].done]
       /\ call' = [call EXCEPT ![t] = NoCall]
       /\ io' = [io EXCEPT ![t] = NoIo]
       /\ UNCHANGED <<disk, probe, lba_count, early, ncalls>>

\* The task is killed while it waits.  A write it has submitted is executed.
Killed(t) ==
    \/ /\ io[t].phase = "readpage"
       /\ filp' = [filp EXCEPT ![t] = NoFile]
       /\ call' = [call EXCEPT ![t] = NoCall]
       /\ io' = [io EXCEPT ![t] = NoIo]
       /\ early' = early \ {t}
       /\ UNCHANGED <<disk, probe, lba_count, ncalls>>
    \/ /\ io[t].phase = "writepage" /\ ~ io[t].dead
       /\ io' = [io EXCEPT ![t].dead = TRUE]
       /\ UNCHANGED <<disk, probe, lba_count, filp, call, early, ncalls>>

\* The hardware task.
Probe ==
    \/ nvme_probe_2 \/ IdentifyController \/ IdentifyNamespace \/ CreateIocq \/ CreateIosq
    \/ ReadTable \/ nvmepart_probe

Next ==
    \/ Probe
    \/ \E t \in Tasks :
         \/ \E f \in Usable(t), op \in {"read", "write"}, n \in Lengths : Begin(t, f, op, n)
         \/ PageRead(t) \/ PageWrite(t) \/ Return(t) \/ Killed(t)

\* A submitted command is executed and its task scheduled again, the hardware
\* task among them: what NvmeQueue and Scheduler show of the layers below.
Fairness ==
    WF_vars(Probe) /\ \A t \in Tasks : WF_vars(PageRead(t)) /\ WF_vars(PageWrite(t)) /\ WF_vars(Return(t))

Spec == Init /\ [][Next]_vars /\ Fairness

-----------------------------------------------------------------------------
(***************************************************************************)
(* Properties.                                                             *)
(***************************************************************************)
\* No read or write of a partition or of a file is submitted before the device
\* has its I/O queue: the device files appear last (nvme_probe_contents), so
\* that only a user of the whole disk, whose file exists since nvme_probe_1,
\* can come too early.
PartitionsAfterQueues ==
    \A t \in early : call[t].file = "disk"

\* Every vfs_read and vfs_write comes to an end: the loops over pages
\* (nvme_read, nvme_write) and clusters (exfat_read, exfat_write) make progress.
\* A command submitted while there was no queue waits for the one that follows
\* it; the exception is a device whose probe fails, where none ever does.
CallsReturn ==
    \A t \in Tasks : call[t] # NoCall ~> (call[t] = NoCall \/ (t \in early /\ probe = "failed"))

Bytes == INSTANCE Transfers WITH
    ready <- lba_count # 0,
    done  <- [t \in Tasks |-> io[t].done],
    got   <- [t \in Tasks |-> io[t].got],
    filp  <- [t \in Tasks |-> IF call[t] = NoCall THEN filp[t] ELSE [filp[t] EXCEPT !.offset = call[t].offset]]

\* Reads return the bytes of the file and writes change these bytes and no
\* others, though the device moves whole pages, partitions begin and end inside
\* pages, the clusters of a file lie anywhere, other tasks read and write
\* between any two pages, and a task may be killed half-way (nvme_read,
\* nvme_write, nvmepart_*, exfat_read, exfat_write).
ActsLikeTransfers == Bytes!Spec
=============================================================================
