# Persistos64 in TLA+

A verification project for Persistos64, a hobby operating system for x86-64:
TLA+ modules that follow the kernel's code, TLC runs on small instances, and
proofs checked by TLAPS. Paths below are relative to `src/kernel/src/`.

## 1. The system

One CPU, no preemption. A task keeps the CPU until it calls `task_yield()`
itself (in `sched_yield`, `waitpid`, `sleep`, `kill`, `exit`, a terminal read,
a disk access). Concurrency has three sources: tasks that change over at those
calls, interrupt handlers, and the disk.

| Component | State | Operations | Hard because |
|---|---|---|---|
| Scheduler, task list (`kernel/scheduler.c`, `.s`, `lib/list.c`) | circular list of `task_struct`, `current_task_ts`, `pid_counter` | `task_yield`, `switch_to_task`, `free_task` | zombies yield on their own stack; the CPU halts when nobody runs |
| Process control (`kernel/syscall.c`, `arch/idt.c`) | `task_state`, `exit_code` | fork, exit, waitpid, kill, sleep, fatal exceptions | pointers held across yields, kill at any point, slots reused |
| Interrupts (`arch/idt.c`, `idt.s`, `asm.c`) | interrupt flag, `timer_ticks` | timer, keyboard, disk | system calls run with interrupts off; who turns them on? |
| NVMe queue pair (`drivers/nvme.c`) | two rings, phase, command statuses | `nvme_readpage`, `nvme_writepage`, `nvme_handle_interrupt` | three actors, out-of-order completion, wrap-around, killed waiters |
| NVMe blocks, partitions (`drivers/nvme.c`, `nvmepart.c`) | temporary page per call, how far the probe is | the probe, `nvme_read`, `nvme_write`, partition bounds | read-modify-write across yields, unsigned lengths, users before the probe has ended |
| File descriptors (`kernel/syscall.c`, `fs/vfs.c`) | sorted list of `struct file` per task | open, close, dup2, lseek, fork | a freed slot is read in dup2; descriptors wrap |
| ramfs (`fs/ramfs.c`) | size and list of 128-byte clusters | read, write, set_size | boundaries of size and clusters; several handles |
| VFS (`fs/vfs.c`) | inodes, dentries, mounts | resolve, create, mkdir, mknod, mount | mounted over, created while resolved |
| exFAT (`fs/exfat.c`) | cluster chains, `load_needed` | mount, lookup, read, write | lazy loading yields half-way |
| sysfs (`fs/sysfs.c`) | a fixed tree | mount at boot, read | formatting |
| Terminals, keyboard (`drivers/tty.c`, `keyboard.c`) | input ring buffer, screen and cells to repaint, escape parser, modifiers | append (interrupt), switch (interrupt), read, write | ring and framebuffer shared with the interrupt handler |
| Shell (`src/userspace/src/shell.c`) | the line, its history, the cursor's distance from the end; a script's offset | editing keys, parse, execute, script mode | in-place loops over buffers, redrawing by escape codes, rereading |
| Memory (`mm/`) | page map, slabs, user ranges, page tables | kpage, slab, fork, exec, brk | ownership across fork, exec and reap |
| Boot, initramfs (`kernel/main.c`, `fs/tar.c`) | | extraction, first tasks | initial states of the above |
| PCI, runtime library, userspace utilities | | | not concurrent, or clients of the above |

How they interact: system calls (`int 0x80`) enter `handle_syscall` on the
task's kernel stack; drivers yield while they wait; the disk interrupt marks
commands completed, the keyboard interrupt fills terminal buffers and the timer
counts ticks; nothing wakes a task, each polls its condition whenever it is
scheduled. `struct file` and `task_struct` come from slabs whose `slab_free`
leaves the bytes alone.

What makes each correct: no task is lost, run when dead, or freed while in use;
no waiting lasts for ever; no disk command is lost, doubled or mistaken for
another; descriptors name what they were opened on, and a task's belong to it
alone; a path leads to the object it names; files read back what was written,
and a write changes nothing else; buffers keep order and the screen shows what
they hold; every page has one owner, and every process memory of its own. `PROJECT.json` lists the hazards line by line.

## 2. The modules

**`Scheduler`** (checked through `MCScheduler`, proved in `SchedulerProof`).
Slots for `task_struct` with their fields as functions of all slots, whether
allocated or not, and the doubly linked list as `next` and `prev` of every slot
and of the head. `cpu` says whether the current task runs, the loop of
`task_yield` is at work (`YieldStep` is one turn), or the CPU halts. `pc` says
where a task's kernel stack will resume. waitpid and kill walk the list one
`FindStep` at a time; `Reap` is the three frees of waitpid. `irq` is the
interrupt flag: cleared by the gate of `int 0x80`, left alone by the gates of
exceptions and by `switch_to_task`, set by `sti; hlt` and by a return to user
mode. Time is how far each sleeper's `end_ticks` still is. init only forks and
yields, as `userspace/src/init.c` does; `kt-hw-init` only yields; any other
program makes any call at any time. `exit_code` of a forked task is `Garbage`
until a death sets it, for fork does not.

Abstracted: page tables, stacks, names, the register frames fork builds.

**`NvmeQueue`** (`MCNvmeQueue`, `NvmeQueueProof`). The I/O submission and completion rings with
their indices and phase, the status of every command id, the locals
`command_id` and `iocq_head` of each task in `nvme_readpage` or
`nvme_writepage` (the two differ in the opcode only), the interrupt handler one
completion at a time, and the device: it fetches what the tail doorbell covers,
completes in any order, posts with its own phase, and holds its interrupt line
until the head doorbell acknowledges. The device is external and modelled by
what the driver relies on. `answer` records, per command in use, what the
device answered; no step reads it.

**`FileTable`** (`MCFileTable`, `FileTableProof`). The list `files_lh` of each task as a sequence
of slots, and the fields of the slots. `Dup2` follows the order of the code:
free, search the insertion point, allocate any free slot, copy from the slot
that may have just been freed.

**`RamFs`** implements **`ByteFile`** (`MCRamFs`, `RamFsProof`). `RamFs` has clusters and the
copy loops' ranges; `ByteFile` is an array of bytes with a position per handle,
what `vfs_read`, `vfs_write`, `vfs_ftruncate` and lseek promise. The
refinement mapping cuts the contents out of the clusters. Bytes a file gains
without a write may have any value in `ByteFile`: `ramfs_set_size` zeroes new
clusters but leaves what a truncation left behind in the last one.

**`Terminal`** with **`Keyboard`**. `Keyboard` has the two key maps, the
modifier keys and what a key event becomes on a terminal's input (an arrow key
is three characters). `Terminal` has, per virtual terminal, the characters, the
cursor, the set of cells flagged for repainting, the escape parser and the input
ring with its two indices, and the framebuffer as what is painted in each cell.
`keyboard_rb_fill` is the keyboard interrupt: it updates the modifiers, switches
terminals (control and a digit) or appends to the ring of the active one.
`vt_write` runs the escape parser over all its characters, and paints the
flagged cells if its terminal is shown.

**`Shell`** with **`ShellParse`**, and **`LineEditor`** (`MCShell`, `ShellProof`). A shell on
each terminal, with the locals of `main`, or one that runs a script. Its steps
end where it waits: for a character, for the second or third character of an
escape sequence, for a child. In between it keeps the CPU, but while it waits
others write to its terminal (`ForeignWrite`): programs whose output is
redirected there or that no shell waits for, and, on the first terminal, the
kernel, which reports there the faults of all programs (`arch/idt.c:50`, `57`,
`69`). `drawn` records whether anybody has since the shell drew its line; no
step reads it. The editor's state implements `LineEditor`, a line
cut in two at the cursor. `ShellParse` is the recursive-descent parser on
positions in the line; `ReferenceStatement`, against which it is checked, reads
the line once, as an automaton.

**`Memory`** and **`AddressSpaces`** (`MCMemory`, `MemoryProof`). Pages with a status and words,
so that page tables are data in pages as they are in the machine; the page
allocator, first fit; the slab allocators of `task_struct` and of memory ranges;
four levels of page tables; fork, exec, brk, malloc of the C library, exit and
reap. Running out of pages is a panic, after which nothing moves. The mapping
reads each process's address space out of its page tables and shows it to be
the private function from addresses to words that `AddressSpaces` describes.

**`Vfs`** and **`Namespace`** (`MCVfs`, `VfsProof`). Inodes and dentries as allocated at boot
by `vfs_init`, `sysfs_init`, `terminal_init_2`, `zero_init` and
`extract_tar_files`, then by `nvmepart_probe`, open, mkdir and mount. A path is a
sequence of names and slashes. `Walk` is the loop of `vfs_resolve` up to an
exFAT inode that must be loaded; from there `PageRead`, `FatRead` and
`FileFatRead` are the disk reads at which the task yields. In `Namespace` the
disk's directories are there from the start and every call takes effect at its
return. `loads`, which the code has not, counts the loads begun of an inode.
`Grammar` says what makes the disk an exFAT volume, which the code relies on
without looking: `MCVfs` asserts it of its disk, and the proofs suppose it. The
constants describe only volumes that this driver can read (section 6): clusters
of one page, volumes and files below 4 GiB.

**`Disk`** and **`Transfers`** (`MCDisk`, `DiskProof`). The bytes of the disk, the stages of
the probe, and every task's `vfs_read` or `vfs_write` on the whole disk, on a
partition or on an exFAT file, page by page. A page is moved in one step: what
`NvmeQueue` shows of the queue below is taken here as given. The address of a
page is narrowed to the 32 bits of an lba (`PageBase`). A command submitted
before the device has its I/O queue stays in the ring, and its task is in `early`
until the next command that follows the creation of the queue (`Submit`,
`ReadTable`): the doorbell's tail is then beyond both. `Transfers` says
which places on the disk a file's bytes have and lets a call move them in order.

Each definition called a mutant in its comment is a plausible slip in the
definition that follows it. It is no part of the specification: `PROJECT.json`
names, for every property, a mutant under which TLC finds it violated.

## 3. The runs

| Run | Instance | Shows |
|---|---|---|
| `scheduler_safe` | 5 slots, pids 1 to 6, kills of 1 to 4 | list sorted and complete; CPU on live tasks; waitpid's pointer valid; only zombies reaped; the dead stay dead |
| `scheduler_live` | 4 slots, pids 1 to 4, kills of 2 and 3 | live tasks run again, waitpid on a dead task returns, sleepers wake |
| `nvme_queue_safe` | 4 tasks, 3 ids, rings of 3 | every command in flight in exactly one place; ids unshared; a request returns after its own answer |
| `nvme_queue_live` | 2 tasks, 2 ids, rings of 2 | every request returns |
| `nvme_queue_status` (violation) | 2 tasks, statuses ok and error | the status verified at `nvme.c:532` is another command's |
| `file_table_safe` | 2 tasks, 4 files, descriptors 0 to 3 | lists sorted, slots owned once, dup2 right, tasks isolated |
| `ramfs_safe` | 2 handles, 5 bytes, clusters of 2 | clusters implement the array of bytes, no copy out of bounds |
| `ramfs_past_end` (violation) | clusters of 3, reads beyond the size | `ramfs.c:100` fails: a copy of negative length |
| `shell_terminal` | 2 terminals of 2 rows by 5, ring of 4, 8 keys, 4 key presses, 1 write of somebody else; 904 scripts | the screen shows the terminal, the line editor's line is on it as last drawn, waiting input is kept, editing implements `LineEditor`; the parser agrees with the reference, scripts run line by line |
| `memory` | 36 pages of 2 words, 2 processes and the kernel thread, 2 programs | pages and slab objects accounted for, malloc's memory mapped, private address spaces |
| `vfs` | 2 tasks, 3 calls out of 12, an exFAT disk with 3 directory clusters | listings and cluster lists right, calls act like `Namespace` |
| `disk` | 2 tasks, 2 calls, 5 pages of 2 bytes of which an lba reaches 4, 2 partitions, a fragmented file | calls return and act like `Transfers`; only the whole disk can be used too early |

Bounds. Five slots let a task be reaped and its slot reused while a waiter, a
killer and a sleeper are on the list. `MaxPid` stops fork, `PidModulus` is 2^32
scaled down. Rings of three hold two commands, so with three ids and four tasks
full rings, wrap-arounds at any point, out-of-order completion, ids used up and
ids leaked by killed tasks all occur. Four files suffice for a fork of two
descriptors, and for dup2 with and without a file to close. Three clusters give
a first, a middle and a last one. Four keys suffice to type, move, insert or
erase, to fill a ring of four (which holds three) and to tear an arrow key's
sequence at its limit; a line of three characters wraps on a screen of five
columns, two rows scroll. One foreign write, of a command's line on either
terminal or of a kernel message longer than a row on the first, comes at any
point of that. The scripts are all lines of up to four characters
over a letter, a quote, a space and the redirections, all texts of up to six over
a letter and newlines with a buffer of five, and one that exits. Memory is
tight: two processes fit in the pages, and with heaps grown an exec or a malloc
finds none left and panics. The disk of `vfs` has a directory of two clusters with a
file's entries split between them, an entry after the end mark, a file of two
clusters out of order and an empty one, and a partition table with an unused,
an unformatted and an unusable entry. The disk of `disk` has partitions that
begin and end inside pages and share one, a file whose second cluster comes
before its first, and a last page whose lba does not fit 32 bits. `scheduler_safe`, `file_table_safe`, `nvme_queue_safe`,
`memory` and `vfs` use symmetry over slots, files, tasks or processes, which no
step tells apart; the second and third a view that drops bytes no later step
reads. Runs with liveness properties use neither.

Deadlock is checked in the scheduler's and ramfs's runs: there the system never
stops. In `nvme_queue_*` every task may be dead, in `file_table_*` every slot
may be lost, and the others stop at their bound on calls or keys, in a panic, or
(`disk`) with a task that came too early to a device whose probe failed.

Fairness. `Scheduler!Fairness`: the kernel's own steps go on; the interrupt
controller holds a tick until the flag lets it in (strong fairness, since the
flag goes up and down); every program that has the CPU gives it up in the end.
The last is an assumption about programs, and without it nothing can be
promised: the kernel does not preempt. `NvmeQueue!Fairness`: the device fetches
and completes, the interrupt gets in, and a waiting task is scheduled again and
again, which is what `EveryLiveTaskRuns` says. `Disk!Fairness`: a submitted
command is executed and its task goes on, which is what `EveryRequestReturns`
says; a command submitted before the queue exists is not executed until another
one follows it. The hardware task goes on with the probe, as any task does that
is alive: it is assumed not to be killed while it probes.

Some properties hold only for users who keep to what the code expects. Each such
expectation is a constant or an assumption, and TLC finds a counterexample when
it is dropped:
- `EnterAtEnd` (`Shell`): Enter is pressed with the cursor at the end of the line.
  `shell.c:503` does not reset `cursor_end_offset`, so that the next line begins
  with an offset beyond its length.
- `KillDuringExec` (`Memory`): a process killed while exec resolves its path
  (`syscall.c:182`) leaves two pages allocated for good.
- `SegmentsAligned` (`Memory`): fork copies a range from its start, not from the
  start of its page, unlike `setup_userspace_memory`. `SegmentsFit` adds what a
  linker guarantees and `load_elf64` does not check: segments one after the other,
  below the stack with a page for the heap in between, and no longer in the file
  than in memory.
- `HeapLimit` (`Memory`): brk does not look whether the heap grows into the stack;
  the model's malloc stops below it.
- `Careful` (`Disk`): two tasks do not write to one page at a time
  (`nvme.c:641`, a lost update), offsets stay inside partitions
  (`nvmepart.c:103`), exFAT files are read and written from their first
  cluster on (`exfat.c:265` does not skip clusters that end before the offset),
  and nobody goes beyond 2^32 blocks of `/dev/nvme0` (`nvme.c:558`, `nvme.c:640`:
  the lba is a `uint32_t` and wraps around to the start of the disk; partitions
  never reach that far, `nvmepart.c:57`, `61`).
- Two tasks that come to an exFAT directory together both load it, since
  `load_needed` is cleared only at the end: its entries are listed twice.
  Resolution takes the first match and is right all the same
  (`ActsLikeNamespace`); `ListingsRight` and `LoadedFilesMatchDisk` speak of
  directories and files whose load was begun once.

What the abstract specifications had to concede to the code: open with
`O_TRUNCATE` on sysfs or exFAT fails and leaves the file open; mkdir there
succeeds and creates nothing; after a write to an exFAT file the offset is of no
use, since `vfs_write` adds what `exfat_write` has added (`vfs.c:173`).

What the runs show besides the two violations:
- `SleeperWakes` rests on init. With pid 1 in `KillPids` it fails: kernel
  threads spin in `task_yield` with interrupts off and the timer never gets in.
- `WaiterHoldsItsTask` rests on programs waiting for their own children. With
  `OwnChildren = FALSE` two waiters free one task twice.
- `ListSortedByPid` ends with the wrap-around of `pid_counter`.
- `EveryRequestReturns` needs as many command ids as tasks: `start_command`
  spins without yielding when none is free, and a killed task's id never is.
- `FileTable!Reap` leaves the struct files of a reaped task allocated.
- `FilesSortedByFd`, the comment at `fs/vfs.h:119`, ends with the wrap-around of
  descriptors: with `MaxFd` one less than `FdModulus`, dup2 to the greatest
  descriptor lets the next open return 0, behind it in the list and perhaps
  taken (`syscall.c:310`).
- A ring at its limit takes the first characters of an arrow key and drops the
  rest; the shell then takes the next key for part of the sequence. `EditsALine`
  holds even so: what it takes for typed is inserted, once and in place.
- `/dev/nvme0` can be used between the identification of the namespace and the
  creation of the I/O queue. The device is then told of a queue it does not have,
  and the command waits for the next one, at the latest the probe's first read of
  the partition table; if the probe fails before that, for ever (`CallsReturn`
  excepts it). Partitions and files cannot be used that early
  (`PartitionsAfterQueues`).
- Without the condition `drawn`, `LineOnScreen` fails: what the kernel says of a
  fault stands behind the line that is being edited until the next key that
  redraws it. A key typed at the end of the line does not.

## 4. The proofs

Each component's theorems are in a module of their own, for every value of the
constants that the assumptions in the component's module allow. A hypothesis is
a condition on constants that the code does not establish. TLC finds a
counterexample without it (section 3), but for `Grammar`: without that, the code
reads what is not there, of which the model says nothing.

| Module | Hypothesis | Spec implies |
|---|---|---|
| `SchedulerProof` | `Disciplined`: programs wait for their own children, `pid_counter` does not wrap | always `TypeOK`, `ListSortedByPid`, `ListHoldsEveryTask`, `CpuRunsLiveTask`, `WaiterHoldsItsTask`, `DeadHaveCode`; `OnlyZombiesAreReaped`, `DeadStaysDead` |
| `NvmeQueueProof` | none | always `TypeOK`, `CommandIdsUnshared`, `EveryCommandInOnePlace`; `ReturnsAfterItsOwnAnswer` |
| `FileTableProof` | `NoFdWrap`: descriptors do not wrap | always `TypeOK`, `FilesSortedByFd`, `FilesOwnedOnce`; `Dup2Copies`, `TasksIsolated` |
| `RamFsProof` | none | always `ClustersMatchSize` |
| | `~PastEnd`: no read starts beyond the size | always `NoWildCopy`; `ImplementsByteFile` |
| `DiskProof` | none | always `TypeInv`, `PartitionsAfterQueues` |
| | `Careful` (section 3) | `ActsLikeTransfers` |
| `ShellProof` | none | always `ScriptInOrder`, `ScreenFaithful`; `WaitingInputKept` |
| | `EnterAtEnd` (section 3) | always `TypeOK`; `EditsALine`, the refinement of `LineEditor` |
| | `EnterAtEnd`, `PlainOutputs`: commands and kernel messages are whole lines | always `LineOnScreen` |
| `MemoryProof` | none | always `ObjectsAccounted`, `MallocedIsMapped`; no page has two uses (`PagesNeverShared`) |
| | `~KillDuringExec` (section 3) | always `PagesAccounted` |
| `VfsProof` | `Grammar(p)`: the disk is an exFAT volume, `p` being what each directory entry finds open | always `LoadedFilesMatchDisk`, `VfsInv` |

Each of these modules begins with what it needs of the natural numbers: that a
set of them has a least element, quotients and remainders, or the page an address
is in.

**Scheduler.** The invariants are not inductive alone. `IInv` adds: every pid is
below `pid_counter` (`PidsBelowCounter`, so that what fork appends is greater
than all before it); the pids a program got from fork belong to it alone, so
nobody else waits for them (`ChildrenBelong`); only the running task is in the
middle of a list walk, and its cursor is on the list (`FramesOK`); and the loop
of `task_yield` stands on the list (`YieldOnList`). There is a lemma per kind of
step: `ForkPreserves` and `ReapPreserves` for the two that change the list,
`CpuStepPreserves`, `DiePreserves` and `FrameStepPreserves` for those that do
not, and `Invariance` puts them together.

**NVMe queue.** All indices of a ring are measured from one of them (`Dist`), so
that wrap-around disappears after a few lemmas. `IInv` then says: the indices of
each ring follow each other in the order in which entries pass
(`SubmissionOrder`, `CompletionOrder`); the submission heads that completions
report are in the order of the completions, so that the driver's head never goes
back (`HeadsReported`); the phase bits tell the unread entries from the read ones
(`PhasesTell`); nothing is in two places (`PlacesDisjoint`) or in none
(`NothingLost`); and at most one task is between taking an id and ringing the
doorbell, having seen room in the queue (`CpuExclusive`), which is where the
absence of preemption comes in.

**Descriptors.** `IInv` is the conjunction of the three invariants. The work is
in the list operations: where the search for an insertion point stops, that
insertion there keeps the list sorted, and that the slot dup2 has freed still has
its fields when the allocator returns that very slot.

**ramfs.** `SizeInv` is inductive whatever programs do. For the refinement,
`ContentsIsCut` says that the contents the mapping cuts out of the clusters are
what a byte-wise lookup finds, and each loop is shown to change the bytes of its
range and no others; the arithmetic is that of quotient and remainder.

**Disk.** `TypeInv` bounds every call's progress by its buffer and by the disk,
whatever callers do, and says which stage of the probe a call on a partition
implies. For the refinement `IInv` adds, per call, that what is left of a segment
lies at the addresses `Transfers` gives these bytes (`Aimed`, `Segmented`), that
the page about to be written is what is on the disk but for the call's own bytes
(`Fresh`), and that no other call writes to that page (`WritersApart`). `Fresh`
is what an interleaved write would break: it survives another task's write only
because of `WritersApart`, which is what `Careful` asks of callers. That the page
moved is the page aimed at, though its lba is narrowed, follows from where
partitions end (`PartsWithinReach`) and, for the whole disk, again from `Careful`
(`AtOwnPage`). `EarlyInv` strengthens `PartitionsAfterQueues`: who is early also
waits for the first page of its call.

**Shell and terminals.** `ScriptInv` says that before each read the descriptor
stands behind the lines executed so far (`AfterLines`, by counting newlines), and
that during a command the loop's end will put it there. For the screen, `Draws`
relates a terminal to what a write makes of it: a cell that is not flagged looks
as before, cursor included. Each operation of `vt_write` has it, and it is
transitive, so that the whole loop has it; likewise `Adds` for the loop that
fills the ring. That `FoldLeft` is such a loop is proved here for these two
(`OutputTurns`, `InputTurns`), by a least counterexample: the library's induction
theorems cannot be instantiated.

That a line fits its buffer is not a matter of one step. The shell does not check
it: no more characters are typed than keys are pressed, although an arrow key
sends three. The letters of a torn arrow key may be typed, and the rest of one
may be swallowed with the next key. So `Budget` looks at what waits in the ring:
it takes the shell through phases (outside an escape sequence, behind its first
character, behind its second) and is typed or not, and after none of these
characters is the length of the line and of the one before more than the keys
pressed so far; in the last phase it is one less, since the key that began the
sequence typed nothing (`Credit`). Reading a character moves along that
(`BudgetRead`), and a key adds to it at most what it costs, whichever of its
characters the ring still takes (`ArrowTracked`). The current and the previous
line are counted together because the up arrow exchanges them, and while a command
runs they are one line. For the refinement, `Edits` states `LineEditor!Next` for
the text before and after the cursor and the previous line, and each loop over the
buffer is shown, element by element, to do one of its steps (`InsertEdits`,
`EraseEdits`, `LeftEdits`, ...); `LinesInv` is what all of this needs of every
reachable state.

That the line is on the screen as it is joins the two. `Steady` says what is on a
terminal while its shell is in a certain state: an empty row where the prompt
will go, or the prompt and the line (`Displays`), and in any case no escape
sequence open and nothing below the cursor's row (`Calm`), without which the next
row would not be empty after a newline. The lemmas follow `vt_write` through the
texts the shell sends: characters that are shown (`TextShows`), the clearing of
the row (`ClearShows`), the arrows back (`ArrowsShow`), all of
`rewrite_command_line` (`RewriteShows`), the lines of a command (`OutputShows`).
They need that what is in the line was typed and is shown as itself, which
`TypedText` says and `EditsTyped` gets from `Edits`. When somebody else writes
whole lines below the line (`ForeignWrite`), the line itself is gone (`drawn`) but
an empty row is left, on which the next drawing displays it again. `PlainOutputs`
is an assumption about commands and the kernel, that they write whole lines of
characters that are shown; without it, as without `EnterAtEnd`, TLC finds the
prompt behind something else in its row. The kernel's messages are such lines: each
but a panic's ends with a newline, before the task that prints it gives up the CPU.

**Memory.** Page tables are data in pages, so the proof first says what a page is
for. `Good` gives every page a label: a PML4, a table at one of three levels, a
user page (each with the PML4 above it and the part of the address that leads to
it), another page of a task, a page of a slab, or none. Every non-zero entry leads
to the page whose label says so, every labelled page is led to, and labels do not
repeat (`EntriesLead`, `PagesReached`, `LabelsUnique`); hence a page walk finds
the page with the label of the address and nothing else (`WalkIs`), and what
`free_userspace_memory` visits is what has the process's label (`EntriesAre`).
`Holds` hides the labels: a memory has certain PML4s, other pages, mapped pages
and objects in use, and each operation on memory has a lemma in these terms
(`HoldsAlloc`, `HoldsMap`, `HoldsCleared`, ...). The loops over pages and ranges
are `FoldLeft`s, treated as in `Shell`. `Books` says what the tasks own according
to their structs, each thing by one task, and `IInv` that, unless the kernel has
panicked, the memory holds exactly that (`Owned`), and that the ranges of a task
neither overlap nor leave user memory, its heap ends at a page below the stack,
and the heap of its libc lies in it (`Checked`). Only what a process killed
inside exec leaves behind is in no book: its two buffers lose their label, and
`PagesAccounted` its equality. There is a lemma per action (`BootSound`,
`ForkSound`, ..., `ReapSound`).

**VFS and exFAT.** What loading a directory must not be disturbed in lasts over
several reads: a file entry adds an inode and a dentry, the info entry that says
where its clusters are may be on the next page, behind a yield, and the name comes
last. `PhaseOf` is what the entry read last leaves open. Until the info entry is
there the dentry has no name, hence no path leads to its inode (`OnTheWay`,
`WalkOnTheWay`) and nobody begins to load it; and no other task fills that dentry
(the last part of `All`), even if both load the same directory, since each adds
dentries of its own. So a directory that is found has a start (`Ready`), and a
file whose load has begun keeps its length. While a file is loaded by one task,
`Partial` says that the clusters listed so far begin the file's chain and the
walk stands at the last; when its load ends the whole chain is `Listed`. `All`
collects this for a tree and all walks, and `At` is `All` with one task's walk
replaced, so that each function of the model has a lemma from `At` to `At`
(`FileEntry`, `InfoEntry`, `NameEntry`, `LookupDir`, `LookupFile`, ...,
`AdvanceResult`). What a step may do to the others is said once: `Stays` for what
it leaves alone, `Grown` for a tree with one more inode, which is what open,
mkdir, mount, the tar archive and the partition table do to it. The loops, over a
path, a page of entries, the archive or the partitions, are recursive functions;
that each has a value, and that what a turn keeps the loop keeps, is proved by a
least counterexample (`TurnsExist`).

The inductive invariants of the other components were model-checked on the
instance of their safety runs before they were proved; of `Vfs`, `TreeInv` and
`CallsOK` were; those of `Shell`
(`ScriptInv`, `TerminalInv`, `LinesInv`, `PicturesInv`) and of `Memory`, which quantify over
sequences and labels, are only proved.

Only model-checked:
- the liveness properties: fairness and ENABLED are beyond the prover;
- of `Memory`, the refinement of `AddressSpaces` (`PrivateAddressSpaces`): the
  proof keeps track of which pages are mapped, not of the words that the loops of
  fork and exec copy, and what such a loop has written in the end is what a fold
  computes;
- of `Vfs`, `ListingsRight` and the refinement of `Namespace`
  (`ActsLikeNamespace`): the proof follows what each entry of a page and each name
  of a path does, not what all of them amount to, the directory `DiskTree` names
  or the object at the end of a path;
- of `Shell`, `ParseMatchesReference`, which is about two parsers, recursive
  functions over the text.

## 5. Plan

Done: all the modules of section 2; the proofs of section 4.

Left to prove:
1. The contents of user pages through fork and exec (`PrivateAddressSpaces`):
   `Good` already relates them to a map from pages of address spaces to words,
   which `Holds` forgets.
2. `ListingsRight` of `Vfs`, for the steps of one load, from `TreeStaysSound`.

## 6. Not modelled

- The text sysfs produces and what exactly `printk` says, fonts and pixels:
  layout. That `printk` writes to the first terminal at any time is modelled
  (`ForeignWrite`).
- exFAT volumes that the driver does not handle, all excluded by the constants of
  `Vfs` and `Disk`: clusters of another size than 4096 bytes (`exfat.c` reads one
  page of each and compares offsets by 4096, whatever the boot sector says);
  volumes of 4 GiB or more (`exfat.c:90` computes a directory's byte offset in 32
  bits); files of 4 GiB or more (`exfat.c:134` keeps 32 bits of the length,
  `exfat.c:211` counts in 32 bits); contiguous files that have no chain in the FAT.
- PCI enumeration, descriptor tables, interrupt controller and page attributes:
  hardware set-up at boot, before anything is concurrent.
- The admin queue's indices: one task uses it, one command at a time. Its
  commands are steps of `Disk`.
- `load_elf64` from an exFAT disk yields between reads of the file; in `Memory`
  loading is one step. The processor's translation cache is not modelled either.
- Two segments of a program on one page: the page is mapped twice and the first
  lost; with `SegmentsAligned` and `SegmentsFit` no two have one in common.
- Names that fill a dentry, and the shell's buffer of 400 characters (unchecked
  at `shell.c:526`): longer input is outside the assumptions.
- The byte that `expand_word` clears is one behind the end of the word
  (`shell.c:299`). It makes no difference: the byte at the end is zero, since
  `malloc` never hands out memory twice and fresh pages are zeroed. The exit for a
  word too long to be expanded (`shell.c:280`) is modelled (`WordTooLong`).
- A mount on `/`, for which `vfs_resolve` gives no dentry.
- `dpage_alloc`, the runtime library and `limine.h` (plain helpers or third
  party), gettasks (reports only), the userspace utilities (sequences of system
  calls).
