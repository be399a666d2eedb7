------------------------------- MODULE Memory -------------------------------
(***************************************************************************)
(* Physical memory and what is built from it: the page allocator of        *)
(* mm/kmem.c, the slabs of mm/slab.c, the page tables of mm/map.c, and the *)
(* memory of processes - mm/userspace.c, the boot of kernel/main.c, and    *)
(* fork, exec, brk and waitpid of kernel/syscall.c - up to the malloc of   *)
(* userspace/src/persistos.c.                                              *)
(*                                                                         *)
(* A page is a sequence of PAGE_SIZE words, numbered from 0: entries of a  *)
(* page table, or data.  Addresses count words, an entry is the number of  *)
(* a page, 0 when nothing is there, and a table has one entry per word of  *)
(* a page.  Page 0 always belongs to the page array.                       *)
(***************************************************************************)
EXTENDS Integers, Sequences, SequencesExt, FiniteSets, FiniteSetsExt

CONSTANTS
    kmem_total_pages,
    page_array_pages,
    KERNEL_STACK_PAGES,
    PAGE_SIZE,         \* words of a page; even
    OBJECTS_PER_PAGE,  \* slab objects in a page
    Procs,             \* processes
    KT,                \* the kernel thread kt-hw-init
    Programs,          \* executables: sequences of segments
    Sizes,             \* arguments of malloc
    HeapLimit,         \* bound: no malloc beyond this address
    StoreAddresses,    \* addresses that programs write to
    MaxCalls,          \* bound: how many times fork and exec are called
    KillDuringExec     \* TRUE: a process may be killed inside exec

\* The end of user memory, the bottom half of the PML4; the stack is the last page.
UserEnd == (PAGE_SIZE \div 2) * PAGE_SIZE * PAGE_SIZE * PAGE_SIZE * PAGE_SIZE
STACK   == UserEnd - PAGE_SIZE

ASSUME MemoryAssumption ==
    /\ {kmem_total_pages, page_array_pages, KERNEL_STACK_PAGES, OBJECTS_PER_PAGE, MaxCalls} \subseteq Nat \ {0}
    /\ page_array_pages < kmem_total_pages
    /\ PAGE_SIZE \in Nat \ {0} /\ PAGE_SIZE % 2 = 0
    /\ IsFiniteSet(Procs) /\ KT \notin Procs
    /\ KillDuringExec \in BOOLEAN
    /\ Sizes \subseteq Nat /\ HeapLimit \in Nat /\ HeapLimit <= STACK
    /\ StoreAddresses \subseteq 0 .. UserEnd - 1

\* userspace.h: "Must be page aligned".  Fork relies on it.
ASSUME SegmentsAligned ==
    \A prog \in Programs : \A i \in DOMAIN prog : prog[i].p_vaddr % PAGE_SIZE = 0

\* A linker puts a program's segments one after the other, far below the
\* stack, and gives a segment no more bytes than it has room for.
ASSUME SegmentsFit ==
    \A prog \in Programs :
      /\ prog \in Seq([p_vaddr : Nat, p_memsz : Nat, data : Seq(Int)])
      /\ \A i \in DOMAIN prog :
           /\ Len(prog[i].data) <= prog[i].p_memsz
           /\ prog[i].p_vaddr + prog[i].p_memsz <= STACK - PAGE_SIZE
           /\ \A j \in DOMAIN prog \ {i} : \/ prog[i].p_vaddr + prog[i].p_memsz <= prog[j].p_vaddr
                                           \/ prog[j].p_vaddr + prog[j].p_memsz <= prog[i].p_vaddr

VARIABLES
    m,      \* physical memory: page statuses and contents, kmem_used_pages, the slabs
    proc,   \* the memory part of each task_struct, and of each libc
    calls   \* how many times fork and exec were called

vars == <<m, proc, calls>>

Tasks   == Procs \cup {KT}
Pages   == 0 .. kmem_total_pages - 1
Slots   == 0 .. PAGE_SIZE - 1
Zeroed  == [i \in Slots |-> 0]

(***************************************************************************)
(* mm/kmem.c.                                                              *)
(***************************************************************************)
kmem_init ==
    [status |-> [i \in Pages |-> IF i < page_array_pages THEN "KPAGE_PAGE_ARRAY" ELSE "KPAGE_FREE"],
     word   |-> [i \in Pages |-> Zeroed],
     kmem_used_pages |-> 0,
     slab   |-> [a \in {"task_struct", "range"} |-> [pages |-> <<>>, free |-> {}]],
     panic  |-> FALSE]

\* kpage_alloc: the first run of free pages that is long enough; without one
\* the kernel panics.
kpage_alloc(mm, num_pages) ==
    LET runs  == {i \in Pages : /\ i + num_pages <= kmem_total_pages
                                /\ \A j \in i .. i + num_pages - 1 : mm.status[j] = "KPAGE_FREE"}
        first == Min(runs)
    IN IF runs = {} THEN [page |-> 0, mm |-> [mm EXCEPT !.panic = TRUE]]
       ELSE [page |-> first,
             mm |-> [mm EXCEPT !.status = [i \in Pages |-> IF i \in first .. first + num_pages - 1
                                                           THEN "KPAGE_USED" ELSE @[i]],
                               !.kmem_used_pages = @ + num_pages]]

kpage_free(mm, page, num_pages) ==
    [mm EXCEPT !.status = [i \in Pages |-> IF i \in page .. page + num_pages - 1 THEN "KPAGE_FREE" ELSE @[i]],
               !.kmem_used_pages = @ - num_pages]

\* kpage_alloc(1) and memset
AllocZeroed(mm) ==
    LET a == kpage_alloc(mm, 1) IN [a EXCEPT !.mm.word[a.page] = Zeroed]

(***************************************************************************)
(* mm/slab.c.  An allocator is its list of pages and its free objects; an  *)
(* object is a page and a slot.                                            *)
(***************************************************************************)

\* The first page of the list with a free slot, and its first free slot.
slab_try_alloc(mm, allocator) ==
    LET s == mm.slab[allocator]
        Free(k) == {slot \in 0 .. OBJECTS_PER_PAGE - 1 : <<s.pages[k], slot>> \in s.free}
        i == Min({k \in DOMAIN s.pages : Free(k) # {}})
        object == <<s.pages[i], Min(Free(i))>>
    IN [object |-> object, mm |-> [mm EXCEPT !.slab[allocator].free = @ \ {object}]]

slab_alloc(mm, allocator) ==
    IF mm.slab[allocator].free # {} THEN slab_try_alloc(mm, allocator)
    ELSE LET a == AllocZeroed(mm)
         IN slab_try_alloc([a.mm EXCEPT !.slab[allocator].pages = <<a.page>> \o @,
                                        !.slab[allocator].free = {a.page} \X (0 .. OBJECTS_PER_PAGE - 1)],
                           allocator)

slab_free(mm, allocator, object) == [mm EXCEPT !.slab[allocator].free = @ \cup {object}]

(***************************************************************************)
(* mm/map.c and the page walk.                                             *)
(***************************************************************************)
\* The shifts by 12, 21, 30 and 39 bits.
Shift(x) == x \div PAGE_SIZE

Prefix(address, level) ==
    CASE level = 0 -> Shift(address)
      [] level = 1 -> Shift(Shift(address))
      [] level = 2 -> Shift(Shift(Shift(address)))
      [] level = 3 -> Shift(Shift(Shift(Shift(address))))

Index(address, level) == Prefix(address, level) % PAGE_SIZE

\* One level of set_page_mapping: the next table, made when it is missing.
NextTable(address, s, level) ==
    LET i == Index(address, level)
        a == AllocZeroed(s.mm)
    IN IF s.mm.word[s.table][i] # 0 THEN [s EXCEPT !.table = s.mm.word[s.table][i]]
       ELSE [table |-> a.page, mm |-> [a.mm EXCEPT !.word[s.table][i] = a.page]]

set_page_mapping(mm, pml4, address, page) ==
    LET ptpd == NextTable(address, [table |-> pml4, mm |-> mm], 3)
        pd   == NextTable(address, ptpd, 2)
        pt   == NextTable(address, pd, 1)
    IN [pt.mm EXCEPT !.word[pt.table][Index(address, 0)] = page]

\* The page that an address is mapped to, 0 when it is not.
Walk(mm, pml4, address) ==
    LET Entry(table, level) == IF table = 0 THEN 0 ELSE mm.word[table][Index(address, level)]
    IN Entry(Entry(Entry(Entry(pml4, 3), 2), 1), 0)

Read(mm, pml4, address) == mm.word[Walk(mm, pml4, address)][address % PAGE_SIZE]

Write(mm, pml4, address, w) == [mm EXCEPT !.word[Walk(mm, pml4, address)][address % PAGE_SIZE] = w]

(***************************************************************************)
(* mm/userspace.c and kernel/scheduler.c.                                  *)
(***************************************************************************)
\* map_user_page; the mutation of the memory and the new page.
map_user_page(mm, pml4, address) ==
    LET a == AllocZeroed(mm)
    IN [page |-> a.page, mm |-> set_page_mapping(a.mm, pml4, address, a.page)]

\* The addresses from..to-1 in steps of a page.
PageAddresses(from, to) ==
    [i \in 1 .. (to - from + PAGE_SIZE - 1) \div PAGE_SIZE |-> from + (i - 1) * PAGE_SIZE]

PageStart(address) == address - (address % PAGE_SIZE)

MapPages(mm, pml4, addresses) ==
    FoldLeft(LAMBDA x, address : map_user_page(x, pml4, address).mm, mm, addresses)

setup_userspace_memory(mm, pml4, ranges) ==
    FoldLeft(LAMBDA x, r : MapPages(x, pml4, PageAddresses(PageStart(r.start), r.end)), mm, ranges)

\* The entries in use in the tables under a PML4, level by level, each as
\* the page it is in and its index.
InUse(mm, tables, I) == {e \in tables \X I : mm.word[e[1]][e[2]] # 0}

Below(mm, E) == InUse(mm, {mm.word[e[1]][e[2]] : e \in E}, Slots)

UserEntries(mm, pml4) ==
    LET E3 == InUse(mm, {pml4}, 0 .. PAGE_SIZE \div 2 - 1)
        E2 == Below(mm, E3)
        E1 == Below(mm, E2)
    IN E3 \cup E2 \cup E1 \cup Below(mm, E1)

\* Mutant of free_userspace_memory: the page tables are not freed.
free_userspace_memory_mutant(mm, p) ==
    LET E3 == InUse(mm, {p.pml4_page}, 0 .. PAGE_SIZE \div 2 - 1)
        user == {mm.word[e[1]][e[2]] : e \in Below(mm, Below(mm, Below(mm, E3)))}
    IN FoldLeft(LAMBDA x, r : slab_free(x, "range", r.object),
                [mm EXCEPT !.status = [i \in Pages |-> IF i \in user THEN "KPAGE_FREE" ELSE @[i]],
                           !.word[p.pml4_page] = [i \in Slots |-> IF i < PAGE_SIZE \div 2 THEN 0 ELSE @[i]],
                           !.kmem_used_pages = @ - Cardinality(user)],
                p.ranges)

\* free_userspace_memory: what every entry points to is freed and the entry
\* cleared; then the structs of the ranges.
free_userspace_memory(mm, p) ==
    LET E == UserEntries(mm, p.pml4_page)
        freed == {mm.word[e[1]][e[2]] : e \in E}
    IN FoldLeft(LAMBDA x, r : slab_free(x, "range", r.object),
                [mm EXCEPT !.status = [i \in Pages |-> IF i \in freed THEN "KPAGE_FREE" ELSE @[i]],
                           !.word = [i \in Pages |-> [j \in Slots |-> IF <<i, j>> \in E THEN 0 ELSE @[i][j]]],
                           !.kmem_used_pages = @ - Cardinality(E)],
                p.ranges)

\* A new task: its task_struct, its kernel stack and a PML4 whose upper half
\* is the kernel's (the pages it leads to are none of kmem's, -1 here).
NewTask(mm) ==
    LET t == slab_alloc(mm, "task_struct")
        k == kpage_alloc(t.mm, KERNEL_STACK_PAGES)
        a == AllocZeroed(k.mm)
    IN [mm |-> [a.mm EXCEPT !.word[a.page] = [i \in Slots |-> IF i < PAGE_SIZE \div 2 THEN 0 ELSE -1]],
        task |-> [state |-> "TS_RUNNING", task_struct |-> t.object, kernel_stack_pages |-> k.page,
                  pml4_page |-> a.page, ranges |-> <<>>, buffers |-> <<>>,
                  heap_bottom |-> 0, heap_top |-> 0, program_break |-> 0]]

\* Append a range to the task's list.
AddRange(s, type, start, end) ==
    LET r == slab_alloc(s.mm, "range")
    IN [mm |-> r.mm,
        task |-> [s.task EXCEPT !.ranges = Append(@, [start |-> start, end |-> end, type |-> type,
                                                      object |-> r.object])]]

\* load_elf64 into the task of s: the ranges, but for null segments, their
\* pages, the segments.
load_elf64(s, prog) ==
    LET null(seg) == seg.p_vaddr = 0 /\ seg.p_memsz = 0
        top  == Max({0} \cup {prog[i].p_vaddr + prog[i].p_memsz : i \in DOMAIN prog})
        heap == PageStart(top + PAGE_SIZE - 1)
        s1 == FoldLeft(LAMBDA x, seg : IF null(seg) THEN x
                                       ELSE AddRange(x, "NORMAL", seg.p_vaddr, seg.p_vaddr + seg.p_memsz), s, prog)
        s2 == AddRange(AddRange(s1, "HEAP", heap, heap + PAGE_SIZE), "STACK", STACK, UserEnd)
        m3 == setup_userspace_memory(s2.mm, s2.task.pml4_page, s2.task.ranges)
        Copy(mm, seg) == FoldLeft(LAMBDA x, i : Write(x, s.task.pml4_page, seg.p_vaddr + i - 1, seg.data[i]),
                                  mm, [i \in DOMAIN seg.data |-> i])
    IN [s2 EXCEPT !.mm = FoldLeft(Copy, m3, prog)]

(***************************************************************************)
(* Operations.                                                             *)
(***************************************************************************)
None == [state |-> "none"]

Alive(p) == proc[p].state # "none"

Running(p) == ~ m.panic /\ proc[p].state = "TS_RUNNING"

\* The step's outcome, unless the kernel panicked on the way.
Outcome(s, newProc) ==
    IF s.mm.panic THEN m' = [m EXCEPT !.panic = TRUE] /\ UNCHANGED proc
    ELSE m' = s.mm /\ proc' = newProc

\* libc_init: the heap starts at the break.
libc_init(p) ==
    LET heap == CHOOSE r \in Range(p.ranges) : r.type = "HEAP"
    IN [p EXCEPT !.heap_bottom = heap.end, !.heap_top = heap.end, !.program_break = heap.end]

\* kmain: the first process and the kernel thread.
Boot(p, prog) ==
    LET init == NewTask(m)
        load == load_elf64(init, prog)
        kt   == NewTask(load.mm)
    IN /\ ~ m.panic /\ \A t \in Tasks : ~ Alive(t)
       /\ Outcome(kt, [proc EXCEPT ![p] = libc_init(load.task), ![KT] = kt.task])
       /\ UNCHANGED calls

\* Mutant of ForkRange: the pages are mapped but not copied.
ForkRange_mutant(parent, s, r) ==
    LET s1 == AddRange(s, r.type, r.start, r.end)
    IN [s1 EXCEPT !.mm = setup_userspace_memory(s1.mm, s1.task.pml4_page, <<r>>)]

\* SYSCALL_FORK, one range: every page of it is mapped and copied.
ForkRange(parent, s, r) ==
    LET s1 == AddRange(s, r.type, r.start, r.end)
        CopyPage(mm, address) ==
           LET n == map_user_page(mm, s1.task.pml4_page, address)
           IN [n.mm EXCEPT !.word[n.page] = [i \in Slots |-> Read(n.mm, parent.pml4_page, address + i)]]
    IN [s1 EXCEPT !.mm = FoldLeft(CopyPage, s1.mm, PageAddresses(r.start, r.end))]

Fork(p, c) ==
    LET s == FoldLeft(LAMBDA x, r : ForkRange(proc[p], x, r), NewTask(m), proc[p].ranges)
    IN /\ Running(p) /\ ~ Alive(c) /\ calls < MaxCalls
       /\ calls' = calls + 1
       /\ Outcome(s, [proc EXCEPT ![c] = [s.task EXCEPT !.heap_bottom = proc[p].heap_bottom,
                                                        !.heap_top = proc[p].heap_top,
                                                        !.program_break = proc[p].program_break]])

\* SYSCALL_EXEC up to the resolution of the path, which may wait for the disk.
ExecBegin(p) ==
    LET path_buffer  == AllocZeroed(m)
        stack_buffer == AllocZeroed(path_buffer.mm)
    IN /\ Running(p) /\ calls < MaxCalls
       /\ calls' = calls + 1
       /\ Outcome(stack_buffer, [proc EXCEPT ![p].state = "in exec",
                                             ![p].buffers = <<path_buffer.page, stack_buffer.page>>])

FreeBuffers(mm, p) == kpage_free(kpage_free(mm, p.buffers[2], 1), p.buffers[1], 1)

ExecNotFound(p) ==
    /\ ~ m.panic /\ proc[p].state = "in exec"
    /\ m' = FreeBuffers(m, proc[p])
    /\ proc' = [proc EXCEPT ![p].state = "TS_RUNNING", ![p].buffers = <<>>]
    /\ UNCHANGED calls

\* The rest: the old memory is freed, the program loaded, and the arguments
\* (one word here) copied to the top of the stack.
ARGUMENTS == 9

ExecFound(p, prog) ==
    LET s == load_elf64([mm |-> free_userspace_memory(m, proc[p]),
                         task |-> [proc[p] EXCEPT !.ranges = <<>>]], prog)
        mm == FreeBuffers(Write(s.mm, proc[p].pml4_page, UserEnd - 1, ARGUMENTS), proc[p])
    IN /\ ~ m.panic /\ proc[p].state = "in exec"
       /\ Outcome(IF s.mm.panic THEN s ELSE [s EXCEPT !.mm = mm],
                  [proc EXCEPT ![p] = libc_init([s.task EXCEPT !.state = "TS_RUNNING", !.buffers = <<>>])])
       /\ UNCHANGED calls

\* Mutant of brk: one page at most.
brk_mutant(s, arg) ==
    LET h == CHOOSE i \in DOMAIN s.task.ranges : s.task.ranges[i].type = "HEAP"
        heap == s.task.ranges[h]
    IN IF heap.end >= arg THEN s
       ELSE [mm |-> map_user_page(s.mm, s.task.pml4_page, heap.end).mm,
             task |-> [s.task EXCEPT !.ranges[h].end = @ + PAGE_SIZE, !.program_break = arg]]

\* SYSCALL_BRK: pages are added until the heap reaches the argument.
brk(s, arg) ==
    LET h == CHOOSE i \in DOMAIN s.task.ranges : s.task.ranges[i].type = "HEAP"
        heap == s.task.ranges[h]
        new == PageAddresses(heap.end, arg)
        end == heap.end + Len(new) * PAGE_SIZE
    IN [mm |-> MapPages(s.mm, s.task.pml4_page, new),
        task |-> [s.task EXCEPT !.ranges[h].end = end, !.program_break = end]]

Malloc(p, size) ==
    LET top == proc[p].heap_top + size
        s == [mm |-> m, task |-> [proc[p] EXCEPT !.heap_top = top]]
        grown == IF top > proc[p].program_break THEN brk(s, top) ELSE s
    IN /\ Running(p) /\ p \in Procs
       /\ top <= HeapLimit
       /\ Outcome(grown, [proc EXCEPT ![p] = grown.task])
       /\ UNCHANGED calls

\* The process writes to its memory.
Store(p, address) ==
    /\ Running(p) /\ p \in Procs
    /\ Walk(m, proc[p].pml4_page, address) # 0
    /\ m' = Write(m, proc[p].pml4_page, address, 7)
    /\ UNCHANGED <<proc, calls>>

\* exit, kill or a fatal exception; the memory stays until the process is reaped.
Die(p) ==
    /\ ~ m.panic /\ p \in Procs
    /\ proc[p].state = "TS_RUNNING" \/ (KillDuringExec /\ proc[p].state = "in exec")
    /\ proc' = [proc EXCEPT ![p].state = "TS_ZOMBIE"]
    /\ UNCHANGED <<m, calls>>

\* Mutant of Reap: free_task is forgotten.
Reap_mutant(p) ==
    LET m1 == free_userspace_memory(m, proc[p])
    IN /\ ~ m.panic /\ proc[p].state = "TS_ZOMBIE"
       /\ \E q \in Procs : Running(q)
       /\ m' = kpage_free(kpage_free(m1, proc[p].pml4_page, 1), proc[p].kernel_stack_pages, KERNEL_STACK_PAGES)
       /\ proc' = [proc EXCEPT ![p] = None]
       /\ UNCHANGED calls

\* SYSCALL_WAITPID finds a zombie: free_userspace_memory,
\* free_kernelspace_memory and free_task.
Reap(p) ==
    LET m1 == free_userspace_memory(m, proc[p])
        m2 == kpage_free(kpage_free(m1, proc[p].pml4_page, 1), proc[p].kernel_stack_pages, KERNEL_STACK_PAGES)
    IN /\ ~ m.panic /\ proc[p].state = "TS_ZOMBIE"
       /\ \E q \in Procs : Running(q)
       /\ m' = slab_free(m2, "task_struct", proc[p].task_struct)
       /\ proc' = [proc EXCEPT ![p] = None]
       /\ UNCHANGED calls

Init ==
    /\ m = kmem_init
    /\ proc = [t \in Tasks |-> None]
    /\ calls = 0

Next ==
    \/ \E p \in Procs, prog \in Programs : Boot(p, prog)
    \/ \E p, c \in Procs : Fork(p, c)
    \/ \E p \in Procs : ExecBegin(p) \/ ExecNotFound(p) \/ Die(p) \/ Reap(p)
    \/ \E p \in Procs, prog \in Programs : ExecFound(p, prog)
    \/ \E p \in Procs, size \in Sizes : Malloc(p, size)
    \/ \E p \in Procs, address \in StoreAddresses : Store(p, address)

Spec == Init /\ [][Next]_vars

(***************************************************************************)
(* Properties.                                                             *)
(***************************************************************************)
\* The uses of pages: the task, slab or table entry a page is used by, and
\* the page.
PageUses ==
    LET OfTask(t) == {<<t, "stack", i, proc[t].kernel_stack_pages + i>> : i \in 0 .. KERNEL_STACK_PAGES - 1}
                     \cup {<<t, "pml4", 0, proc[t].pml4_page>>}
                     \cup {<<t, "buffer", i, proc[t].buffers[i]>> : i \in DOMAIN proc[t].buffers}
                     \cup {<<t, "entry", e, m.word[e[1]][e[2]]>> : e \in UserEntries(m, proc[t].pml4_page)}
        OfSlab(a) == {<<a, "slab", k, m.slab[a].pages[k]>> : k \in DOMAIN m.slab[a].pages}
    IN (UNION {OfTask(t) : t \in {t \in Tasks : Alive(t)}}) \cup (UNION {OfSlab(a) : a \in DOMAIN m.slab})

\* Every page the allocator holds as used has exactly one use, nothing uses
\* another page, and kmem_used_pages counts them: no page is lost by fork,
\* exec, brk, exit or a failed exec, and none is given to two.
PagesAccounted ==
    ~ m.panic =>
       LET used == {i \in Pages : m.status[i] = "KPAGE_USED"}
       IN /\ {u[4] : u \in PageUses} = used
          /\ Cardinality(PageUses) = Cardinality(used)
          /\ m.kmem_used_pages = Cardinality(used)

InUseObjects(allocator) ==
    (Range(m.slab[allocator].pages) \X (0 .. OBJECTS_PER_PAGE - 1)) \ m.slab[allocator].free

\* The slab objects in use are those of the living tasks, each of one task
\* and one range: no struct is lost and none is handed out twice.
ObjectsAccounted ==
    LET living == {t \in Tasks : Alive(t)}
        ranges == UNION {{t} \X DOMAIN proc[t].ranges : t \in living}
        tasks  == {proc[t].task_struct : t \in living}
        structs == {proc[r[1]].ranges[r[2]].object : r \in ranges}
    IN ~ m.panic =>
          /\ InUseObjects("task_struct") = tasks
          /\ Cardinality(tasks) = Cardinality(living)
          /\ InUseObjects("range") = structs
          /\ Cardinality(structs) = Cardinality(ranges)

\* What malloc has handed out is mapped: the heap the libc believes in is
\* inside the heap the kernel has.
MallocedIsMapped ==
    \A p \in Procs : proc[p].state = "TS_RUNNING" /\ ~ m.panic =>
       \A a \in proc[p].heap_bottom .. proc[p].heap_top - 1 : Walk(m, proc[p].pml4_page, a) # 0

\* The address space that the page tables of a process describe.
Space(p) ==
    IF ~ Alive(p) THEN [a \in {} |-> 0]
    ELSE [a \in {a \in 0 .. UserEnd - 1 : Walk(m, proc[p].pml4_page, a) # 0} |-> Read(m, proc[p].pml4_page, a)]

\* A program as it should be in memory after exec (argument # 0) or boot:
\* its segments, a page of heap and the stack, zero where nothing is given.
ImageOf(prog, argument) ==
    LET Covered(a) == \E i \in DOMAIN prog : a \in prog[i].p_vaddr .. prog[i].p_vaddr + prog[i].p_memsz - 1
        OnPage(a)  == \E b \in PageStart(a) .. PageStart(a) + PAGE_SIZE - 1 : Covered(b)
        text == {a \in 0 .. UserEnd - 1 : OnPage(a)}
        heap == Max(text \cup {-1}) + 1
        At(a) == {i \in DOMAIN prog : a \in prog[i].p_vaddr .. prog[i].p_vaddr + Len(prog[i].data) - 1}
    IN [a \in text \cup (heap .. heap + PAGE_SIZE - 1) \cup (STACK .. UserEnd - 1) |->
          IF a = UserEnd - 1 THEN argument
          ELSE IF At(a) # {} THEN LET i == Max(At(a)) IN prog[i].data[a - prog[i].p_vaddr + 1]
          ELSE 0]

Images == {ImageOf(prog, argument) : prog \in Programs, argument \in {0, ARGUMENTS}}

Abstract == INSTANCE AddressSpaces WITH Addresses <- 0 .. UserEnd - 1, Words <- {7},
                                        space <- [p \in Tasks |-> Space(p)]

\* The page tables implement one private address space per process: a fork
\* copies it, a store, brk or exec of one process changes no other, new
\* memory is zero, and whatever is freed and handed out again shows in none.
PrivateAddressSpaces == Abstract!Spec
=============================================================================
