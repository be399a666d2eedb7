----------------------------- MODULE NvmeQueue -----------------------------
(***************************************************************************)
(* The I/O queue pair of one NVMe device (drivers/nvme.c): tasks submit    *)
(* page reads and writes with nvme_readpage and nvme_writepage, the device *)
(* executes them in any order and posts completions, the interrupt handler *)
(* consumes the completions and marks the commands finished.               *)
(*                                                                         *)
(* Three actors share the memory.  Tasks run one at a time and change over *)
(* only in task_yield(); the interrupt handler may run between any two of  *)
(* their steps (interrupts stay on in the kernel once the CPU has halted); *)
(* the device runs beside both.  A task may be killed while it waits.      *)
(***************************************************************************)
EXTENDS Integers, FiniteSets

CONSTANTS
    Tasks,       \* tasks that do I/O on the device
    Mortal,      \* the tasks that may be killed while they wait
    QUEUE_SIZE,  \* NVME_QUEUE_SIZE, 64
    MAX_COMMANDS,\* NVME_MAX_COMMANDS, 128
    Statuses     \* values of a completion's status field, its phase bit apart

ASSUME SizesAssumption ==
    /\ QUEUE_SIZE \in Nat /\ QUEUE_SIZE > 1
    /\ MAX_COMMANDS \in Nat \ {0}
    /\ Mortal \subseteq Tasks
    /\ "ok" \in Statuses /\ "none" \notin Statuses

Idx  == 0 .. QUEUE_SIZE - 1
Cids == 0 .. MAX_COMMANDS - 1

VARIABLES
    command_statuses,        \* FREE, IN_FLIGHT or COMPLETED, per command id
    iosq, iosq_tail, iosq_head,
    iocq, iocq_head, iocq_phase,
    pc,                      \* where each task is in nvme_readpage/nvme_writepage
    command_id, saved_head,  \* its locals command_id and iocq_head
    isr, bell_needed,        \* interrupt handler: "off", or in its loop over the iocq
    sq_doorbell, cq_doorbell,\* device registers
    fetch_head, executing,   \* device: next entry to fetch, commands being executed
    post_tail, post_phase,   \* device: where and with which phase it posts next
    answer                   \* history: the device's answer per command in use, or "none"

driver == <<command_statuses, iosq, iosq_tail, iosq_head, iocq_head, iocq_phase,
            pc, command_id, saved_head, isr, bell_needed>>
device == <<iocq, sq_doorbell, cq_doorbell, fetch_head, executing, post_tail,
            post_phase, answer>>
vars   == <<driver, device>>

\* Mutant of Succ: no wrap-around.
SuccNoWrap(i) == i + 1

\* The index after i in a queue.
Succ(i) == (i + 1) % QUEUE_SIZE

\* The indices from i up to, and without, j: a window of a ring.
Window(i, j) == {k \in Idx : (k - i) % QUEUE_SIZE < (j - i) % QUEUE_SIZE}

Entry == [phase : {0, 1}, cid : Cids, sq_head : Idx, status : Statuses]

TypeOK ==
    /\ command_statuses \in [Cids -> {"FREE", "IN_FLIGHT", "COMPLETED"}]
    /\ iosq \in [Idx -> Cids]
    /\ {iosq_tail, iosq_head, iocq_head, sq_doorbell, cq_doorbell, fetch_head,
        post_tail} \subseteq Idx
    /\ iocq \in [Idx -> Entry]
    /\ iocq_phase \in {0, 1} /\ post_phase \in {0, 1}
    /\ pc \in [Tasks -> {"idle", "full", "spin", "bell", "await", "dead"}]
    /\ command_id \in [Tasks -> Cids] /\ saved_head \in [Tasks -> Idx]
    /\ isr \in {"off", "loop"} /\ bell_needed \in BOOLEAN
    /\ executing \subseteq Cids
    /\ answer \in [Cids -> Statuses \cup {"none"}]

\* The tail of nvme_probe_2: queues zeroed, indices 0, all commands free.
Init ==
    /\ command_statuses = [c \in Cids |-> "FREE"]
    /\ iosq = [i \in Idx |-> 0] /\ iosq_tail = 0 /\ iosq_head = 0
    /\ iocq = [i \in Idx |-> [phase |-> 0, cid |-> 0, sq_head |-> 0, status |-> "ok"]]
    /\ iocq_head = 0 /\ iocq_phase = 0
    /\ pc = [p \in Tasks |-> "idle"]
    /\ command_id = [p \in Tasks |-> 0] /\ saved_head = [p \in Tasks |-> 0]
    /\ isr = "off" /\ bell_needed = FALSE
    /\ sq_doorbell = 0 /\ cq_doorbell = 0
    /\ fetch_head = 0 /\ executing = {}
    /\ post_tail = 0 /\ post_phase = 1
    /\ answer = [c \in Cids |-> "none"]

-----------------------------------------------------------------------------
(* Tasks.                                                                  *)

\* A task holds the CPU from the end of one task_yield to the next; the
\* interrupt handler borrows it.
HasCpu(p) ==
    /\ isr = "off"
    /\ \A q \in Tasks \ {p} : pc[q] \notin {"bell", "spin"}

\* Mutant of SqFull: no check.
NeverFull == FALSE

\* The test of the loop in front of every submission.
SqFull == Succ(iosq_tail) = iosq_head

\* Mutant of FreeCids: a finished command's id is taken before its task has seen it.
FinishedCids == {c \in Cids : command_statuses[c] # "IN_FLIGHT"}

\* The ids start_command may take.
FreeCids == {c \in Cids : command_statuses[c] = "FREE"}

\* start_command: the lowest free command id goes in flight.  The entry at
\* the tail of the queue is filled in and the tail moves on.
Enqueue(p) ==
    LET c == CHOOSE c \in FreeCids : \A d \in FreeCids : c <= d IN
    /\ command_statuses' = [command_statuses EXCEPT ![c] = "IN_FLIGHT"]
    /\ command_id' = [command_id EXCEPT ![p] = c]
    /\ iosq' = [iosq EXCEPT ![iosq_tail] = c]
    /\ iosq_tail' = Succ(iosq_tail)

\* nvme_readpage or nvme_writepage up to the doorbell; the task yields while
\* the submission queue is full, and start_command spins, without yielding,
\* while no command id is free.
Submit(p) ==
    /\ pc[p] \in {"idle", "full", "spin"} /\ HasCpu(p)
    /\ \/ /\ SqFull /\ pc[p] # "spin"
          /\ pc' = [pc EXCEPT ![p] = "full"]
          /\ UNCHANGED <<command_statuses, command_id, iosq, iosq_tail>>
       \/ /\ ~SqFull \/ pc[p] = "spin"
          /\ FreeCids = {}
          /\ pc' = [pc EXCEPT ![p] = "spin"]
          /\ UNCHANGED <<command_statuses, command_id, iosq, iosq_tail>>
       \/ /\ ~SqFull \/ pc[p] = "spin"
          /\ FreeCids # {}
          /\ Enqueue(p)
          /\ pc' = [pc EXCEPT ![p] = "bell"]
    /\ UNCHANGED <<iosq_head, iocq, iocq_head, iocq_phase, saved_head, isr, bell_needed,
                   sq_doorbell, cq_doorbell, fetch_head, executing, post_tail, post_phase,
                   answer>>

\* The head of the completion queue is noted, the tail doorbell written, and
\* await_command_finish entered.
RingDoorbell(p) ==
    /\ pc[p] = "bell" /\ HasCpu(p)
    /\ saved_head' = [saved_head EXCEPT ![p] = iocq_head]
    /\ sq_doorbell' = iosq_tail
    /\ pc' = [pc EXCEPT ![p] = "await"]
    /\ UNCHANGED <<command_statuses, iosq, iosq_tail, iosq_head, iocq, iocq_head, iocq_phase,
                   command_id, isr, bell_needed, cq_doorbell, fetch_head, executing,
                   post_tail, post_phase, answer>>

\* await_command_finish ends, free_command; the status is then read from the
\* completion entry at the index noted before the doorbell.
StatusRead(p) == iocq[saved_head[p]].status

Finish(p) ==
    /\ pc[p] = "await" /\ HasCpu(p)
    /\ command_statuses[command_id[p]] # "IN_FLIGHT"
    /\ command_statuses' = [command_statuses EXCEPT ![command_id[p]] = "FREE"]
    /\ pc' = [pc EXCEPT ![p] = "idle"]
    /\ command_id' = [command_id EXCEPT ![p] = 0]
    /\ saved_head' = [saved_head EXCEPT ![p] = 0]
    /\ answer' = [answer EXCEPT ![command_id[p]] = "none"]
    /\ UNCHANGED <<iosq, iosq_tail, iosq_head, iocq, iocq_head, iocq_phase, isr, bell_needed,
                   sq_doorbell, cq_doorbell, fetch_head, executing, post_tail, post_phase>>

\* SYSCALL_KILL of a task that is in task_yield: it never runs again.  Nothing
\* is undone: its command stays with the device, its command id stays taken.
KillTask(p) ==
    /\ p \in Mortal /\ pc[p] \in {"full", "await"}
    /\ isr = "off" /\ \A q \in Tasks : pc[q] \notin {"bell", "spin"}
    /\ pc' = [pc EXCEPT ![p] = "dead"]
    /\ UNCHANGED <<command_statuses, iosq, iosq_tail, iosq_head, iocq_head, iocq_phase,
                   command_id, saved_head, isr, bell_needed, device>>

-----------------------------------------------------------------------------
(* nvme_handle_interrupt.                                                  *)

\* The device holds its interrupt line while completions are unacknowledged.
LineAsserted == post_tail # cq_doorbell

EnterIsr ==
    /\ isr = "off" /\ LineAsserted
    /\ isr' = "loop" /\ bell_needed' = FALSE
    /\ UNCHANGED <<command_statuses, iosq, iosq_tail, iosq_head, iocq_head, iocq_phase, pc,
                   command_id, saved_head, device>>

\* Mutant of PhaseAfter: no flip at the wrap-around.
PhaseKept(i) == iocq_phase

\* The phase expected once entry i is consumed.
PhaseAfter(i) == IF i + 1 = QUEUE_SIZE THEN 1 - iocq_phase ELSE iocq_phase

\* The entry at the head is new: finish_command, advance, note the head of the
\* submission queue it reports, and flip the phase at the wrap-around.
ConsumeCompletion ==
    /\ isr = "loop" /\ iocq[iocq_head].phase # iocq_phase
    /\ command_statuses' = [command_statuses EXCEPT ![iocq[iocq_head].cid] = "COMPLETED"]
    /\ iosq_head' = iocq[iocq_head].sq_head
    /\ iocq_head' = Succ(iocq_head)
    /\ iocq_phase' = PhaseAfter(iocq_head)
    /\ bell_needed' = TRUE
    /\ UNCHANGED <<iosq, iosq_tail, pc, command_id, saved_head, isr, device>>

\* Mutant of HeadDoorbell: never written.
NoHeadDoorbell == cq_doorbell

\* The head doorbell after the loop: written if an entry was consumed.
HeadDoorbell == IF bell_needed THEN iocq_head ELSE cq_doorbell

\* The entry at the head is an old one: write the head doorbell and leave.
LeaveIsr ==
    /\ isr = "loop" /\ iocq[iocq_head].phase = iocq_phase
    /\ cq_doorbell' = HeadDoorbell
    /\ isr' = "off" /\ bell_needed' = FALSE
    /\ UNCHANGED <<command_statuses, iosq, iosq_tail, iosq_head, iocq_head, iocq_phase, pc,
                   command_id, saved_head, iocq, sq_doorbell, fetch_head, executing,
                   post_tail, post_phase, answer>>

-----------------------------------------------------------------------------
(* The device, as the driver relies on it.                                 *)

\* Fetch the next entry the tail doorbell covers.
DeviceFetch ==
    /\ fetch_head # sq_doorbell
    /\ executing' = executing \cup {iosq[fetch_head]}
    /\ fetch_head' = Succ(fetch_head)
    /\ UNCHANGED <<driver, iocq, sq_doorbell, cq_doorbell, post_tail, post_phase, answer>>

\* Complete any command being executed, if the completion queue has room.
DeviceComplete ==
    /\ Succ(post_tail) # cq_doorbell
    /\ \E c \in executing, st \in Statuses :
         /\ executing' = executing \ {c}
         /\ iocq' = [iocq EXCEPT ![post_tail] =
                [phase |-> post_phase, cid |-> c, sq_head |-> fetch_head, status |-> st]]
         /\ answer' = [answer EXCEPT ![c] = st]
    /\ post_tail' = Succ(post_tail)
    /\ post_phase' = IF post_tail + 1 = QUEUE_SIZE THEN 1 - post_phase ELSE post_phase
    /\ UNCHANGED <<driver, sq_doorbell, cq_doorbell, fetch_head>>

-----------------------------------------------------------------------------
IsrStep    == EnterIsr \/ ConsumeCompletion \/ LeaveIsr
DeviceStep == DeviceFetch \/ DeviceComplete

Next ==
    \/ \E p \in Tasks : Submit(p) \/ RingDoorbell(p) \/ Finish(p) \/ KillTask(p)
    \/ IsrStep
    \/ DeviceStep

Spec == Init /\ [][Next]_vars

(* The device works, its interrupt gets in, and every waiting task is      *)
(* scheduled again and again (Scheduler!EveryLiveTaskRuns).                *)
Fairness ==
    /\ WF_vars(DeviceFetch) /\ WF_vars(IsrStep)
    /\ \A c \in Cids : WF_vars(DeviceComplete /\ c \in executing /\ c \notin executing')
    /\ \A p \in Tasks : SF_vars((pc[p] # "idle" /\ Submit(p)) \/ RingDoorbell(p))
                        /\ SF_vars(Finish(p))

FairSpec == Spec /\ Fairness

-----------------------------------------------------------------------------
(* Properties.                                                             *)

\* Where the command of an id is: in the submission queue, with the device,
\* or in the completion queue.
InSubmission(c) == {i \in Window(fetch_head, iosq_tail) : iosq[i] = c}
InCompletion(c) == {i \in Window(iocq_head, post_tail) : iocq[i].cid = c}
Places(c) == Cardinality(InSubmission(c)) + Cardinality(InCompletion(c))
             + IF c \in executing THEN 1 ELSE 0

\* A command id in flight is in exactly one place, and an id that is not in
\* flight is nowhere: no command is overwritten in a full queue, lost at a
\* wrap-around, or completed twice.
EveryCommandInOnePlace ==
    \A c \in Cids : Places(c) = IF command_statuses[c] = "IN_FLIGHT" THEN 1 ELSE 0

\* Two tasks that have a command under way never share a command id.
CommandIdsUnshared ==
    \A p, q \in Tasks :
        /\ p # q /\ pc[p] \in {"bell", "await"} /\ pc[q] \in {"bell", "await"}
        => command_id[p] # command_id[q]

\* nvme_readpage returns only after the device has answered this very command:
\* the page that was asked for has been transferred.
ReturnsAfterItsOwnAnswer ==
    [][\A p \in Tasks :
          pc[p] = "await" /\ pc'[p] = "idle" => answer[command_id[p]] # "none"]_vars

\* nvme.c:532, "Verify the read command was successful": the status checked is
\* the status of the command just awaited.
ChecksItsOwnStatus ==
    [][\A p \in Tasks :
          pc[p] = "await" /\ pc'[p] = "idle" => StatusRead(p) = answer[command_id[p]]]_vars

\* A task that asks for a page gets it, unless it is killed: no command is
\* forgotten, no wait for a queue slot or a command id lasts forever.
EveryRequestReturns ==
    \A p \in Tasks : (pc[p] # "idle") ~> (pc[p] \in {"idle", "dead"})
=============================================================================
