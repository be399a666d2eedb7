----------------------------- MODULE Scheduler -----------------------------
(***************************************************************************)
(* The tasks of the kernel and the CPU that runs them: the task list and   *)
(* the yield loop of kernel/scheduler.c, the process-control syscalls of   *)
(* kernel/syscall.c, the fatal exceptions and the timer of arch/idt.c.     *)
(*                                                                         *)
(* There is one CPU and no preemption: a task keeps it until task_yield(). *)
(* A task_struct is a slot of the slab allocator; its bytes survive the    *)
(* free and are only overwritten when the slot is handed out again, so     *)
(* pid, process, wpid, ... are functions of ALL slots, allocated or not.  *)
(* The task list is the doubly linked list of lib/list.c, link by link.    *)
(***************************************************************************)
EXTENDS Integers, FiniteSets

CONSTANTS
    Slots,       \* task_struct slots the slab allocator can hand out
    Head,        \* the list head, task_struct_lh
    PidModulus,  \* pid_counter is a uint32_t: 2^32, scaled down
    MaxPid,      \* bound: no fork once pid_counter exceeds it
    ExitArgs,    \* arguments given to exit()
    KillPids,    \* arguments given to kill()
    SleepTicks,  \* lengths, in timer ticks, of the sleeps that are asked for
    OwnChildren  \* TRUE: programs wait only for pids their own fork returned

ASSUME SlotsAssumption ==
    /\ Head \notin Slots
    /\ \E i, h \in Slots : i # h

ASSUME NumbersAssumption ==
    /\ PidModulus \in Nat /\ PidModulus > 3
    /\ MaxPid \in Nat
    /\ ExitArgs \subseteq Nat
    /\ KillPids \subseteq 0 .. PidModulus - 1
    /\ SleepTicks \subseteq Nat \ {0}
    /\ OwnChildren \in BOOLEAN

VARIABLES
    pid,         \* the fields of the task_struct in each slot
    task_state,
    exit_code,
    allocated,   \* slots in use: the slab's bitmap
    next, prev,  \* task_struct_le of each slot, and of the list head
    pid_counter,
    cur,         \* current_task_ts
    cpu,         \* "run" the current task, "yield" loop, or "halt"
    t,           \* the variable t of task_yield
    irq,         \* EFLAGS.IF: may an interrupt be delivered?
    pc,          \* where each task's kernel stack will resume
    process,     \* the list cursor, then the task found, of waitpid and kill
    wpid,        \* the pid argument of waitpid and kill
    left,        \* ticks until end_ticks of a sleeping task
    children     \* pids fork has returned to the program in the slot

vars == <<pid, task_state, exit_code, allocated, next, prev, pid_counter, cur, cpu, t, irq, pc,
          process, wpid, left, children>>

taskVars  == <<pid, task_state, exit_code>>
listVars  == <<allocated, next, prev, pid_counter>>
frameVars == <<pc, process, wpid, left, children>>

RUNNING == "TS_RUNNING"
ZOMBIE  == "TS_ZOMBIE"
Nodes   == Slots \cup {Head}
Pids    == 0 .. PidModulus - 1
Garbage == 256  \* what a slot held before: no uint8_t that a death assigned
UserPCs == {"init", "user"}   \* user mode: the init program, any other one
PCs     == UserPCs \cup
           {"kthread", "waitpid_find", "waitpid", "kill_find", "sleep"}

TypeOK ==
    /\ pid \in [Slots -> Pids]
    /\ task_state \in [Slots -> {RUNNING, ZOMBIE}]
    /\ exit_code \in [Slots -> 0 .. Garbage]
    /\ allocated \subseteq Slots
    /\ next \in [Nodes -> Nodes] /\ prev \in [Nodes -> Nodes]
    /\ pid_counter \in Pids
    /\ cur \in Slots /\ t \in Slots
    /\ cpu \in {"run", "yield", "halt"}
    /\ irq \in BOOLEAN
    /\ pc \in [Slots -> PCs]
    /\ process \in [Slots -> Nodes]
    /\ wpid \in [Slots -> Pids]
    /\ left \in [Slots -> Nat]
    /\ children \in [Slots -> SUBSET Pids]

-----------------------------------------------------------------------------
(* kmain: init is pid 1 and runs first, kt-hw-init is pid 2.               *)
Init ==
    \E i, h \in Slots :
        /\ i # h
        /\ pid = [s \in Slots |-> IF s = i THEN 1 ELSE IF s = h THEN 2 ELSE 0]
        /\ task_state = [s \in Slots |-> RUNNING]
        /\ exit_code = [s \in Slots |-> 0]
        /\ allocated = {i, h}
        /\ next = [n \in Nodes |-> IF n = Head THEN i ELSE IF n = i THEN h ELSE Head]
        /\ prev = [n \in Nodes |-> IF n = Head THEN h ELSE IF n = h THEN i ELSE Head]
        /\ pid_counter = 3
        /\ cur = i /\ t = i /\ cpu = "run" /\ irq = TRUE
        /\ pc = [s \in Slots |-> IF s = h THEN "kthread"
                                 ELSE IF s = i THEN "init" ELSE "user"]
        /\ process = [s \in Slots |-> Head]
        /\ wpid = [s \in Slots |-> 0]
        /\ left = [s \in Slots |-> 0]
        /\ children = [s \in Slots |-> {}]

-----------------------------------------------------------------------------
(* task_yield, next_task_struct, switch_to_task, halt_until_any_interrupt  *)

\* Mutant of NextTask: the walk stays at the last task.
StayAtLast(s) == IF next[s] = Head THEN s ELSE next[s]

\* next_task_struct(): the successor on the list, skipping the head.
NextTask(s) == IF next[s] = Head THEN next[Head] ELSE next[s]

\* Mutant of Runnable: a switch to any task.
AnyTask(s) == TRUE

\* May the scheduler switch to the task?
Runnable(s) == task_state[s] = RUNNING

\* Mutant of SwitchIrq: the flag is not restored.
SwitchIrqKept(s) == irq

\* The interrupt flag after switch_to_task(): only a return to user mode sets it.
SwitchIrq(s) == irq \/ pc[s] \in UserPCs

\* A call of task_yield() by the current task.
EnterYield == cpu' = "yield" /\ t' = cur /\ UNCHANGED cur

\* One turn of the do-while loop of task_yield().  halt_until_any_interrupt
\* is "sti; hlt", and nothing clears the flag again before the next syscall;
\* see SwitchIrq for a switch.
YieldStep ==
    /\ cpu = "yield"
    /\ t' = NextTask(t)
    /\ \/ /\ t' = cur
          /\ cpu' = "halt" /\ irq' = TRUE /\ UNCHANGED cur
       \/ /\ t' # cur /\ Runnable(t')
          /\ cpu' = "run" /\ cur' = t'
          /\ irq' = SwitchIrq(t')
       \/ /\ t' # cur /\ ~Runnable(t')
          /\ UNCHANGED <<cpu, cur, irq>>
    /\ UNCHANGED <<taskVars, listVars, frameVars>>

\* What an interrupt does to a halted CPU: hlt ends and the loop condition
\* is evaluated with t = current_task_ts.
WakeCpu ==
    /\ cpu' = IF cpu # "halt" THEN cpu
              ELSE IF Runnable(cur) THEN "run" ELSE "yield"
    /\ UNCHANGED <<cur, t, irq>>

\* The timer interrupt: timer_ticks++.  It only adds one to a counter, so
\* what matters is how far each sleeper's end_ticks still is.
TimerInterrupt ==
    /\ irq
    /\ WakeCpu
    /\ left' = [s \in Slots |-> IF left[s] = 0 THEN 0 ELSE left[s] - 1]
    /\ UNCHANGED <<taskVars, listVars, pc, process, wpid, children>>

\* A keyboard or disk interrupt ends hlt as well.
OtherInterrupt ==
    /\ cpu = "halt"
    /\ WakeCpu
    /\ UNCHANGED <<taskVars, listVars, frameVars>>

-----------------------------------------------------------------------------
(* Process control.  A program makes a syscall when its task has the CPU   *)
(* and is in user mode.                                                    *)

InUser == cpu = "run" /\ pc[cur] = "user"

\* SYSCALL_SCHED_YIELD, and the endless loop of kt_hw_init_main.  The gate of
\* int 0x80 clears the interrupt flag.
SchedYield ==
    /\ cpu = "run" /\ pc[cur] \in UserPCs \cup {"kthread"}
    /\ EnterYield
    /\ irq' = (irq /\ pc[cur] = "kthread")
    /\ UNCHANGED <<taskVars, listVars, frameVars>>

\* Mutant of Uint8: a wider exit_code.
Uint16(n) == n % 65536

\* exit_code is a uint8_t.
Uint8(n) == n % 256

\* The current task becomes a zombie and yields.
Die(code) ==
    /\ InUser
    /\ task_state' = [task_state EXCEPT ![cur] = ZOMBIE]
    /\ exit_code' = [exit_code EXCEPT ![cur] = Uint8(code)]
    /\ EnterYield
    /\ UNCHANGED <<pid, listVars, frameVars>>

\* SYSCALL_EXIT.
Exit == irq' = FALSE /\ \E arg3 \in ExitArgs : Die(arg3)

\* cpu_exception_handler: division by zero, page fault; general protection.
\* Their gates leave the interrupt flag alone.
Fault == UNCHANGED irq /\ (Die(1) \/ Die(128 + 11))

\* Mutant of FreeSlots: the slot of a task that is dead but not reaped.
NotRunningSlots == {s \in Slots : ~(s \in allocated /\ Runnable(s))}

\* The slots the slab may hand out.
FreeSlots == Slots \ allocated

\* Mutant of AddTail: insertion at the front.
AddFront(n) ==
    /\ next' = [next EXCEPT ![Head] = n, ![n] = next[Head]]
    /\ prev' = [prev EXCEPT ![n] = Head, ![next[Head]] = n]

\* list_add_tail to task_struct_lh.
AddTail(n) ==
    /\ next' = [next EXCEPT ![prev[Head]] = n, ![n] = Head]
    /\ prev' = [prev EXCEPT ![n] = prev[Head], ![Head] = n]

\* SYSCALL_FORK: take a slot, number it, append it to the list.  The child
\* resumes in user mode; exit_code is left as the slot's last user left it.
Fork ==
    /\ cpu = "run" /\ pc[cur] \in UserPCs
    /\ pid_counter <= MaxPid
    /\ \E n \in FreeSlots :
         /\ pid' = [pid EXCEPT ![n] = pid_counter]
         /\ task_state' = [task_state EXCEPT ![n] = task_state[cur]]
         /\ exit_code' = [exit_code EXCEPT ![n] = Garbage]
         /\ allocated' = allocated \cup {n}
         /\ AddTail(n)
         /\ pc' = [pc EXCEPT ![n] = "user"]
         /\ process' = [process EXCEPT ![n] = Head]
         /\ wpid' = [wpid EXCEPT ![n] = 0]
         /\ left' = [left EXCEPT ![n] = 0]
         /\ children' = [children EXCEPT ![cur] = @ \cup {pid_counter}, ![n] = {}]
    /\ pid_counter' = (pid_counter + 1) % PidModulus
    /\ UNCHANGED <<cur, cpu, t, irq>>

\* The start of waitpid's and kill's walk along the task list.
StartFind(where, arg3) ==
    /\ pc' = [pc EXCEPT ![cur] = where]
    /\ wpid' = [wpid EXCEPT ![cur] = arg3]
    /\ process' = [process EXCEPT ![cur] = next[Head]]
    /\ irq' = FALSE
    /\ UNCHANGED <<taskVars, listVars, cur, cpu, t, left, children>>

\* SYSCALL_WAITPID, entry.
WaitPid ==
    /\ InUser
    /\ \E arg3 \in IF OwnChildren THEN children[cur] ELSE Pids :
          StartFind("waitpid_find", arg3)

\* SYSCALL_KILL, entry.  Any program may kill any pid.
Kill ==
    /\ InUser
    /\ \E arg3 \in KillPids : StartFind("kill_find", arg3)

\* One turn of the list walk that has not reached the wanted pid.
FindStep ==
    /\ cpu = "run" /\ pc[cur] \in {"waitpid_find", "kill_find"}
    /\ process[cur] # Head /\ pid[process[cur]] # wpid[cur]
    /\ process' = [process EXCEPT ![cur] = next[process[cur]]]
    /\ UNCHANGED <<taskVars, listVars, cur, cpu, t, irq, pc, wpid, left, children>>

\* The syscall ends and its locals are gone.
Return ==
    /\ pc' = [pc EXCEPT ![cur] = "user"]
    /\ process' = [process EXCEPT ![cur] = Head]
    /\ wpid' = [wpid EXCEPT ![cur] = 0]

\* The walk is back at the head: the syscall returns -1.
FindFails ==
    /\ cpu = "run" /\ pc[cur] \in {"waitpid_find", "kill_find"}
    /\ process[cur] = Head
    /\ Return /\ irq' = TRUE
    /\ UNCHANGED <<taskVars, listVars, cur, cpu, t, left, children>>

\* waitpid has found the task: from here on it only uses the pointer.
WaitPidFound ==
    /\ cpu = "run" /\ pc[cur] = "waitpid_find"
    /\ process[cur] # Head /\ pid[process[cur]] = wpid[cur]
    /\ pc' = [pc EXCEPT ![cur] = "waitpid"]
    /\ UNCHANGED <<taskVars, listVars, cur, cpu, t, irq, process, wpid, left, children>>

\* kill has found the task: it is a zombie with exit code (uint8_t)-1 at
\* once, wherever its kernel stack stands, and the killer yields.
KillFound ==
    /\ cpu = "run" /\ pc[cur] = "kill_find"
    /\ process[cur] # Head /\ pid[process[cur]] = wpid[cur]
    /\ task_state' = [task_state EXCEPT ![process[cur]] = ZOMBIE]
    /\ exit_code' = [exit_code EXCEPT ![process[cur]] = 255]
    /\ Return
    /\ EnterYield
    /\ UNCHANGED <<pid, listVars, irq, left, children>>

\* Mutants of IsZombie: waitpid does not wait; only a clean exit counts.
NoWait(s) == TRUE
ExitedCleanly(s) == task_state[s] = ZOMBIE /\ exit_code[s] = 0

\* The test of waitpid's loop.
IsZombie(s) == task_state[s] = ZOMBIE

\* Mutant of Del: the successor still points back at the task.
DelForward(p) == next' = [next EXCEPT ![prev[p]] = next[p]] /\ UNCHANGED prev

\* list_del.
Del(p) ==
    /\ next' = [next EXCEPT ![prev[p]] = next[p]]
    /\ prev' = [prev EXCEPT ![next[p]] = prev[p]]

\* waitpid: the task is not a zombie yet.
WaitPidYield ==
    /\ cpu = "run" /\ pc[cur] = "waitpid"
    /\ ~IsZombie(process[cur])
    /\ EnterYield
    /\ UNCHANGED <<taskVars, listVars, irq, frameVars>>

\* waitpid: free_userspace_memory, free_kernelspace_memory, free_task, which
\* unlinks the task_struct and gives its slot back to the slab.
Reap ==
    /\ cpu = "run" /\ pc[cur] = "waitpid"
    /\ IsZombie(process[cur])
    /\ Del(process[cur])
    /\ allocated' = allocated \ {process[cur]}
    /\ Return /\ irq' = TRUE
    /\ UNCHANGED <<taskVars, pid_counter, cur, cpu, t, left, children>>

\* SYSCALL_SLEEP, entry: end_ticks is computed from the argument.
Sleep ==
    /\ InUser
    /\ \E n \in SleepTicks : left' = [left EXCEPT ![cur] = n]
    /\ pc' = [pc EXCEPT ![cur] = "sleep"]
    /\ irq' = FALSE
    /\ UNCHANGED <<taskVars, listVars, cur, cpu, t, process, wpid, children>>

\* sleep: timer_ticks < end_ticks.
SleepYield ==
    /\ cpu = "run" /\ pc[cur] = "sleep" /\ left[cur] > 0
    /\ EnterYield
    /\ UNCHANGED <<taskVars, listVars, irq, frameVars>>

\* sleep: the time is up.
SleepReturn ==
    /\ cpu = "run" /\ pc[cur] = "sleep" /\ left[cur] = 0
    /\ Return /\ irq' = TRUE
    /\ UNCHANGED <<taskVars, listVars, cur, cpu, t, left, children>>

-----------------------------------------------------------------------------
\* The kernel's own steps: what runs without a choice of a program.
KernelStep ==
    YieldStep \/ FindStep \/ FindFails \/ WaitPidFound \/ KillFound
    \/ WaitPidYield \/ Reap \/ SleepYield \/ SleepReturn

Next ==
    KernelStep \/ TimerInterrupt \/ OtherInterrupt \/ SchedYield \/ Exit
    \/ Fault \/ Fork \/ WaitPid \/ Kill \/ Sleep

Spec == Init /\ [][Next]_vars

(* The kernel never stops by itself; the interrupt controller holds a tick *)
(* until the interrupt flag lets it in, however short that moment is; and  *)
(* every program gives up the CPU sooner or later.  Without the last       *)
(* assumption nothing can be promised, for the kernel does not preempt.    *)
Fairness ==
    /\ WF_vars(KernelStep)
    /\ SF_vars(TimerInterrupt)
    /\ SF_vars(SchedYield)

FairSpec == Spec /\ Fairness

-----------------------------------------------------------------------------
(* Properties.                                                             *)

Alive(s) == s \in allocated /\ task_state[s] = RUNNING

\* scheduler.c:10, "List of task_struct sorted by pid": pids grow along the
\* list, so two tasks never share a pid.
ListSortedByPid ==
    \A s \in allocated : next[s] # Head => pid[s] < pid[next[s]]

\* The links of the list are inverse to each other and the list leaves no
\* task out: from the head, and from every task, next leads to the task with
\* the next greater pid.  A task off the list would never run again and
\* could be neither killed nor waited for.
ListHoldsEveryTask ==
    /\ \A n \in allocated \cup {Head} :
          /\ next[n] \in allocated \cup {Head} /\ prev[next[n]] = n
          /\ prev[n] \in allocated \cup {Head} /\ next[prev[n]] = n
    /\ next[Head] = Head => allocated = {}
    /\ \A r \in allocated :
          /\ pid[next[Head]] <= pid[r]
          /\ \A s \in allocated :
                pid[s] < pid[r] =>
                    next[s] # Head /\ pid[next[s]] <= pid[r]

\* The CPU runs on the kernel stack of a task that still owns it, and never
\* executes a task that exited, faulted or was killed.
CpuRunsLiveTask ==
    /\ cur \in allocated
    /\ cpu = "run" => task_state[cur] = RUNNING

\* While waitpid holds a pointer across its yields, the slot still belongs to
\* the task with the pid that was asked for: nobody else has reaped it, and
\* fork has not handed the slot to another task.
WaiterHoldsItsTask ==
    \A s \in allocated :
        pc[s] = "waitpid" =>
            process[s] \in allocated /\ pid[process[s]] = wpid[s]

\* A step frees only the task_struct of a dead task, never the one whose
\* kernel stack the CPU is using, and at most one; by then its death has set
\* the exit code that waitpid passes on.
OnlyZombiesAreReaped ==
    [][\A s \in allocated \ allocated' :
          /\ task_state[s] = ZOMBIE /\ exit_code[s] # Garbage
          /\ s # cur /\ allocated \ allocated' = {s}]_vars

\* A dead task stays dead for as long as its slot is its own: no late wake-up,
\* sleep end or interrupt brings it back.
DeadStaysDead ==
    [][\A s \in allocated \cap allocated' :
          task_state[s] = ZOMBIE => task_state'[s] = ZOMBIE]_vars

\* Round robin: a live task gets the CPU again, unless it is killed first.
EveryLiveTaskRuns ==
    \A s \in Slots : Alive(s) ~> (~Alive(s) \/ (cur = s /\ cpu = "run"))

\* waitpid on a task that is dead returns, unless the waiter is killed.
WaiterReturns ==
    \A s \in Slots :
        (Alive(s) /\ pc[s] = "waitpid" /\ task_state[process[s]] = ZOMBIE)
            ~> (~Alive(s) \/ pc[s] = "user")

\* A sleep ends, unless the sleeper is killed: also when every other task is
\* dead and only the timer is left to wake the CPU.  A task that waits in the
\* kernel has interrupts off, so this rests on a task in user mode (the loop
\* of init) or a halted CPU letting the timer in.
SleeperWakes ==
    \A s \in Slots :
        (Alive(s) /\ pc[s] = "sleep") ~> (~Alive(s) \/ pc[s] = "user")
=============================================================================
