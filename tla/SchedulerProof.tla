-------------------------- MODULE SchedulerProof --------------------------
(***************************************************************************)
(* The safety invariants of Scheduler for every number of task_structs,    *)
(* under two hypotheses: programs wait only for their own children, which  *)
(* is how every caller in userspace/ does it, and pid_counter does not     *)
(* wrap around.                                                            *)
(***************************************************************************)
EXTENDS Scheduler, TLAPS

Disciplined == OwnChildren = TRUE /\ MaxPid + 1 < PidModulus

Finding == {"waitpid_find", "kill_find"}

\* Pids are handed out in increasing order, and only once.
PidsBelowCounter ==
    /\ pid_counter > 0
    /\ \A s \in allocated : pid[s] < pid_counter
    /\ \A r, s \in allocated : pid[r] = pid[s] => r = s

\* Fork returns a pid to one program only.
ChildrenBelong ==
    \A s \in allocated :
        /\ \A p \in children[s] : p < pid_counter
        /\ \A r \in allocated : r # s => children[r] \cap children[s] = {}

\* Frames of the syscalls: a walk along the list belongs to the running task
\* and stands on the list; waitpid waits for a pid of its own.
FramesOK ==
    \A s \in allocated :
        /\ pc[s] \in Finding =>
              s = cur /\ cpu = "run" /\ process[s] \in allocated \cup {Head}
        /\ pc[s] \in {"waitpid_find", "waitpid"} => wpid[s] \in children[s]

\* The loop of task_yield stands on the list, also while it halts the CPU.
YieldOnList == cpu # "run" => t \in allocated

IInv ==
    /\ TypeOK
    /\ ListSortedByPid
    /\ ListHoldsEveryTask
    /\ PidsBelowCounter
    /\ CpuRunsLiveTask
    /\ ChildrenBelong
    /\ FramesOK
    /\ WaiterHoldsItsTask
    /\ YieldOnList

-----------------------------------------------------------------------------
\* The state kmain leaves behind satisfies the invariant.
LEMMA InitEstablishes == Init => IInv
<1> SUFFICES ASSUME Init PROVE IInv
    OBVIOUS
<1> PICK i \in Slots, h \in Slots :
        /\ i # h
        /\ pid = [s \in Slots |-> IF s = i THEN 1 ELSE IF s = h THEN 2 ELSE 0]
        /\ task_state = [s \in Slots |-> RUNNING]
        /\ exit_code = [s \in Slots |-> 0]
        /\ allocated = {i, h}
        /\ next = [n \in Nodes |-> IF n = Head THEN i ELSE IF n = i THEN h ELSE Head]
        /\ prev = [n \in Nodes |-> IF n = Head THEN h ELSE IF n = h THEN i ELSE Head]
        /\ pid_counter = 3
        /\ cur = i /\ t = i /\ cpu = "run" /\ irq = TRUE
        /\ pc = [s \in Slots |-> IF s = h THEN "kthread"
                                 ELSE IF s = i THEN "init" ELSE "user"]
        /\ process = [s \in Slots |-> Head]
        /\ wpid = [s \in Slots |-> 0]
        /\ left = [s \in Slots |-> 0]
        /\ children = [s \in Slots |-> {}]
    BY DEF Init
<1> USE SlotsAssumption, NumbersAssumption
<1>1. TypeOK
    BY DEF TypeOK, Nodes, Pids, PCs, UserPCs, RUNNING, ZOMBIE, Garbage
<1>2. ListSortedByPid /\ ListHoldsEveryTask
    BY DEF ListSortedByPid, ListHoldsEveryTask, Nodes
<1>3. PidsBelowCounter /\ CpuRunsLiveTask /\ ChildrenBelong
    BY DEF PidsBelowCounter, CpuRunsLiveTask, ChildrenBelong
<1>4. FramesOK /\ WaiterHoldsItsTask /\ YieldOnList
    BY DEF FramesOK, WaiterHoldsItsTask, YieldOnList, Finding
<1> QED
    BY <1>1, <1>2, <1>3, <1>4 DEF IInv

\* Every task has a successor on the list that task_yield can move to.
LEMMA NextTaskAllocated ==
    ASSUME IInv, NEW s \in allocated
    PROVE  NextTask(s) \in allocated
<1>1. next[s] \in allocated \cup {Head} /\ next[Head] \in allocated \cup {Head}
    BY DEF IInv, ListHoldsEveryTask
<1>2. next[Head] # Head
    BY DEF IInv, ListHoldsEveryTask
<1> QED
    BY <1>1, <1>2 DEF NextTask

\* Below its bound, the uint32_t pid_counter just counts.
LEMMA PidCounterCounts ==
    ASSUME Disciplined, TypeOK, pid_counter <= MaxPid,
           pid_counter' = (pid_counter + 1) % PidModulus
    PROVE  pid_counter \in Nat /\ pid_counter' = pid_counter + 1 /\ pid_counter + 1 \in Pids
<1>1. /\ PidModulus \in Nat /\ MaxPid \in Nat /\ pid_counter \in Nat
      /\ pid_counter + 1 < PidModulus
    BY NumbersAssumption DEF Disciplined, TypeOK, Pids
<1>2. (pid_counter + 1) % PidModulus = pid_counter + 1
    BY <1>1
<1> QED
    BY <1>1, <1>2 DEF Pids

\* fork: the new task takes a free slot and the greatest pid so far, at the
\* tail of the list.
LEMMA ForkPreserves ==
    ASSUME IInv, Disciplined, Fork
    PROVE  IInv'
<1> USE SlotsAssumption, NumbersAssumption
<1> PICK n \in Slots \ allocated :
         /\ pid' = [pid EXCEPT ![n] = pid_counter]
         /\ task_state' = [task_state EXCEPT ![n] = task_state[cur]]
         /\ exit_code' = [exit_code EXCEPT ![n] = Garbage]
         /\ allocated' = allocated \cup {n}
         /\ next' = [next EXCEPT ![prev[Head]] = n, ![n] = Head]
         /\ prev' = [prev EXCEPT ![n] = prev[Head], ![Head] = n]
         /\ pc' = [pc EXCEPT ![n] = "user"]
         /\ process' = [process EXCEPT ![n] = Head]
         /\ wpid' = [wpid EXCEPT ![n] = 0]
         /\ left' = [left EXCEPT ![n] = 0]
         /\ children' = [children EXCEPT ![cur] = @ \cup {pid_counter}, ![n] = {}]
    BY DEF Fork, FreeSlots, AddTail
<1>1. /\ cpu = "run" /\ cpu' = cpu /\ cur' = cur /\ t' = t /\ irq' = irq
      /\ pid_counter <= MaxPid /\ pid_counter' = (pid_counter + 1) % PidModulus
    BY DEF Fork, FreeSlots, AddTail
<1>2. TypeOK
    BY DEF IInv
<1>3. pid_counter \in Nat /\ pid_counter' = pid_counter + 1 /\ pid_counter + 1 \in Pids
    BY <1>1, <1>2, PidCounterCounts
<1>4. /\ pid'[n] = pid_counter
      /\ \A s \in Slots : s # n => pid'[s] = pid[s] /\ task_state'[s] = task_state[s]
    BY <1>2 DEF TypeOK
<1>5. TypeOK'
  <2>1. next' \in [Nodes -> Nodes] /\ prev' \in [Nodes -> Nodes]
    BY <1>2 DEF TypeOK, Nodes
  <2>2. pc' \in [Slots -> PCs] /\ process' \in [Slots -> Nodes] /\ left' \in [Slots -> Nat]
    BY <1>2 DEF TypeOK, Nodes, PCs, UserPCs
  <2>4. pid' \in [Slots -> Pids] /\ task_state' \in [Slots -> {RUNNING, ZOMBIE}]
    BY <1>2 DEF TypeOK
  <2>5. exit_code' \in [Slots -> 0 .. Garbage]
    BY <1>2 DEF TypeOK, Garbage
  <2>3. wpid' \in [Slots -> Pids] /\ children' \in [Slots -> SUBSET Pids]
    BY <1>2 DEF TypeOK, Pids
  <2> QED
    BY <1>1, <1>2, <1>3, <2>1, <2>2, <2>3, <2>4, <2>5 DEF TypeOK
<1>6. /\ prev[Head] \in allocated \cup {Head} /\ next[prev[Head]] = Head
      /\ cur \in allocated /\ prev[Head] # Head
    BY DEF IInv, ListHoldsEveryTask, CpuRunsLiveTask
<1>7. /\ \A s \in Nodes : s # n /\ s # prev[Head] => next'[s] = next[s]
      /\ \A s \in Nodes : s # n /\ s # Head => prev'[s] = prev[s]
      /\ next'[n] = Head /\ next'[prev[Head]] = n
      /\ prev'[n] = prev[Head] /\ prev'[Head] = n
    BY <1>2, <1>6 DEF TypeOK, Nodes
<1>8. \A s \in allocated : pid[s] \in Nat /\ pid[s] < pid_counter
    BY <1>2 DEF IInv, PidsBelowCounter, TypeOK, Pids
<1>9. ListSortedByPid'
  <2> SUFFICES ASSUME NEW s \in allocated', next'[s] # Head
               PROVE  pid'[s] < pid'[next'[s]]
    BY DEF ListSortedByPid
  <2>1. s \in allocated
    BY <1>7
  <2>2. CASE s = prev[Head]
    BY <2>1, <2>2, <1>2, <1>4, <1>7, <1>8 DEF TypeOK
  <2>3. CASE s # prev[Head]
    <3>1. next'[s] = next[s] /\ next[s] \in allocated
      BY <2>1, <2>3, <1>2, <1>7 DEF IInv, ListHoldsEveryTask, TypeOK, Nodes
    <3> QED
      BY <2>1, <3>1, <1>2, <1>4 DEF IInv, ListSortedByPid, TypeOK
  <2> QED
    BY <2>2, <2>3
<1>10. ListHoldsEveryTask'
  <2> DEFINE Linked(m) == /\ next'[m] \in allocated' \cup {Head} /\ prev'[next'[m]] = m
                          /\ prev'[m] \in allocated' \cup {Head} /\ next'[prev'[m]] = m
  <2>1. ASSUME NEW m \in allocated' \cup {Head} PROVE Linked(m)
    <3>1. CASE m = n
      BY <3>1, <1>2, <1>6, <1>7 DEF TypeOK, Nodes
    <3>2. CASE m = Head
      BY <3>2, <1>2, <1>6, <1>7 DEF IInv, ListHoldsEveryTask, TypeOK, Nodes
    <3>3. CASE m \in allocated
      BY <3>3, <1>2, <1>6, <1>7 DEF IInv, ListHoldsEveryTask, TypeOK, Nodes
    <3> QED
      BY <3>1, <3>2, <3>3
  <2>2. next'[Head] = next[Head] /\ next[Head] \in allocated
    BY <1>6, <1>7 DEF IInv, ListHoldsEveryTask, Nodes
  <2>3. ASSUME NEW r \in allocated'
        PROVE  pid'[next'[Head]] <= pid'[r]
    BY <2>2, <1>2, <1>4, <1>8, <1>3 DEF IInv, ListHoldsEveryTask, TypeOK
  <2>4. ASSUME NEW r \in allocated', NEW s \in allocated', pid'[s] < pid'[r]
        PROVE  next'[s] # Head /\ pid'[next'[s]] <= pid'[r]
    <3>1. s # n /\ s \in allocated
      BY <2>4, <1>4, <1>8, <1>3, <1>2 DEF TypeOK
    <3>2. CASE s = prev[Head]
      <4>1. r = n
        BY <3>1, <3>2, <2>4, <1>2, <1>4, <1>6 DEF IInv, ListHoldsEveryTask, TypeOK
      <4> QED
        BY <4>1, <3>2, <1>7, <1>4, <1>3 DEF Nodes
    <3>3. CASE s # prev[Head]
      <4>1. next'[s] = next[s] /\ next[s] \in allocated \cup {Head}
        BY <3>1, <3>3, <1>7, <1>2 DEF IInv, ListHoldsEveryTask, Nodes, TypeOK
      <4>2. next[s] # Head
        BY <3>1, <3>3 DEF IInv, ListHoldsEveryTask
      <4>3. CASE r = n
        BY <4>1, <4>2, <4>3, <1>4, <1>8, <1>3, <1>2 DEF TypeOK
      <4>4. CASE r # n
        BY <4>1, <4>2, <4>4, <3>1, <2>4, <1>4, <1>2 DEF IInv, ListHoldsEveryTask, TypeOK
      <4> QED
        BY <4>3, <4>4
    <3> QED
      BY <3>2, <3>3
  <2>5. next'[Head] = Head => allocated' = {}
    BY <2>2, <1>2 DEF TypeOK
  <2> QED
    BY <2>1, <2>3, <2>4, <2>5 DEF ListHoldsEveryTask
<1>11. PidsBelowCounter' /\ CpuRunsLiveTask'
  <2>1. pid_counter' > 0 /\ \A s \in allocated' : pid'[s] < pid_counter'
    BY <1>2, <1>3, <1>4, <1>8 DEF TypeOK
  <2>3. \A r, s \in allocated' : pid'[r] = pid'[s] => r = s
    BY <1>2, <1>4, <1>8 DEF TypeOK, IInv, PidsBelowCounter
  <2>2. task_state'[cur] = RUNNING /\ cur \in allocated'
    BY <1>1, <1>2, <1>4, <1>6 DEF IInv, CpuRunsLiveTask, TypeOK
  <2> QED
    BY <1>1, <2>1, <2>2, <2>3 DEF PidsBelowCounter, CpuRunsLiveTask
<1>12. /\ children'[n] = {} /\ children'[cur] = children[cur] \cup {pid_counter}
       /\ \A s \in Slots : s # n /\ s # cur => children'[s] = children[s]
    BY <1>2, <1>6 DEF TypeOK
<1>13. ChildrenBelong'
  <2>1. \A s \in allocated : \A p \in children[s] : p \in Nat /\ p < pid_counter
    BY <1>2 DEF IInv, ChildrenBelong, TypeOK, Pids
  <2>2. \A s, r \in allocated : r # s => children[r] \cap children[s] = {}
    BY DEF IInv, ChildrenBelong
  <2>3. ASSUME NEW s \in allocated' PROVE \A p \in children'[s] : p < pid_counter'
    BY <1>2, <1>3, <1>6, <1>12, <2>1 DEF TypeOK
  <2>4. ASSUME NEW s \in allocated', NEW r \in allocated', r # s
        PROVE  children'[r] \cap children'[s] = {}
    BY <1>2, <1>3, <1>6, <1>12, <2>1, <2>2, <2>4 DEF TypeOK
  <2> QED
    BY <2>3, <2>4 DEF ChildrenBelong
<1>14. /\ pc'[n] = "user" /\ process'[n] = Head
       /\ \A s \in Slots : s # n => pc'[s] = pc[s] /\ process'[s] = process[s]
                                     /\ wpid'[s] = wpid[s]
    BY <1>2 DEF TypeOK
<1>15. FramesOK'
    BY <1>1, <1>2, <1>6, <1>12, <1>14 DEF IInv, FramesOK, Finding, TypeOK
<1>16. WaiterHoldsItsTask'
    BY <1>2, <1>4, <1>14 DEF IInv, WaiterHoldsItsTask, TypeOK
<1>17. YieldOnList'
    BY <1>1 DEF IInv, YieldOnList
<1> QED
    BY <1>5, <1>9, <1>10, <1>11, <1>13, <1>15, <1>16, <1>17 DEF IInv

\* waitpid's reap: exactly the dead child leaves the list, its neighbours are
\* linked to each other, and no other waiter held a pointer to it.
LEMMA ReapPreserves ==
    ASSUME IInv, Reap
    PROVE  IInv'
<1> DEFINE p == process[cur]
<1>1. /\ cpu = "run" /\ pc[cur] = "waitpid" /\ task_state[p] = ZOMBIE
      /\ next' = [next EXCEPT ![prev[p]] = next[p]]
      /\ prev' = [prev EXCEPT ![next[p]] = prev[p]]
      /\ allocated' = allocated \ {p}
      /\ pc' = [pc EXCEPT ![cur] = "user"]
      /\ process' = [process EXCEPT ![cur] = Head]
      /\ wpid' = [wpid EXCEPT ![cur] = 0]
      /\ UNCHANGED <<pid, task_state, exit_code, pid_counter, cur, cpu, t, left, children>>
      /\ irq' = TRUE
    BY DEF Reap, Return, taskVars, IsZombie, Del
<1>2. TypeOK
    BY DEF IInv
<1>3. /\ cur \in allocated /\ task_state[cur] = RUNNING
      /\ p \in allocated /\ pid[p] = wpid[cur]
    BY <1>1 DEF IInv, CpuRunsLiveTask, WaiterHoldsItsTask
<1>4. p # cur /\ p # Head /\ p \in Slots
    BY <1>1, <1>2, <1>3, SlotsAssumption DEF TypeOK, RUNNING, ZOMBIE
<1>5. TypeOK'
  <2>1. 0 \in Pids
    BY NumbersAssumption DEF Pids
  <2>2. next' \in [Nodes -> Nodes] /\ prev' \in [Nodes -> Nodes] /\ allocated' \subseteq Slots
    BY <1>1, <1>2, <1>4 DEF TypeOK, Nodes
  <2>3. pc' \in [Slots -> PCs] /\ process' \in [Slots -> Nodes] /\ wpid' \in [Slots -> Pids]
    BY <1>1, <1>2, <2>1 DEF TypeOK, Nodes, PCs, UserPCs
  <2> QED
    BY <1>1, <1>2, <2>2, <2>3 DEF TypeOK
<1>6. \A n \in allocated \cup {Head} :
          /\ next[n] \in allocated \cup {Head} /\ prev[next[n]] = n
          /\ prev[n] \in allocated \cup {Head} /\ next[prev[n]] = n
    BY DEF IInv, ListHoldsEveryTask
<1>7. /\ \A n \in Nodes : n # prev[p] => next'[n] = next[n]
      /\ \A n \in Nodes : n # next[p] => prev'[n] = prev[n]
      /\ next'[prev[p]] = next[p] /\ prev'[next[p]] = prev[p]
    BY <1>1, <1>2, <1>3, <1>6 DEF TypeOK, Nodes
<1>8. \A s \in allocated : pid[s] \in Int /\ s \in Nodes /\ s # Head
    BY <1>2, SlotsAssumption DEF TypeOK, Pids, Nodes
<1>9. \A s \in allocated : next[s] # Head => pid[s] < pid[next[s]]
    BY DEF IInv, ListSortedByPid
<1>10. \A r, s \in allocated :
          pid[s] < pid[r] => next[s] # Head /\ pid[next[s]] <= pid[r]
    BY DEF IInv, ListHoldsEveryTask
<1>11. /\ next[p] # p /\ prev[p] # p
       /\ next[p] \in allocated' \cup {Head} /\ prev[p] \in allocated' \cup {Head}
    BY <1>1, <1>3, <1>4, <1>6, <1>8, <1>9
<1>12. ASSUME NEW n \in allocated' \cup {Head}
       PROVE  /\ next'[n] \in allocated' \cup {Head} /\ prev'[next'[n]] = n
              /\ prev'[n] \in allocated' \cup {Head} /\ next'[prev'[n]] = n
  <2>1. n \in allocated \cup {Head} /\ n # p /\ n \in Nodes
    BY <1>1, <1>4, <1>8 DEF Nodes
  <2>2. next'[n] \in allocated' \cup {Head} /\ prev'[next'[n]] = n
    <3>1. CASE n = prev[p]
      BY <3>1, <1>7, <1>11
    <3>2. CASE n # prev[p]
      <4>1. next'[n] = next[n] /\ next[n] # p /\ next[n] # next[p] /\ next[n] \in Nodes
        BY <3>2, <2>1, <1>3, <1>6, <1>7, <1>8 DEF Nodes
      <4> QED
        BY <4>1, <2>1, <1>1, <1>6, <1>7
    <3> QED
      BY <3>1, <3>2
  <2>3. prev'[n] \in allocated' \cup {Head} /\ next'[prev'[n]] = n
    <3>1. CASE n = next[p]
      BY <3>1, <1>7, <1>11
    <3>2. CASE n # next[p]
      <4>1. prev'[n] = prev[n] /\ prev[n] # p /\ prev[n] # prev[p] /\ prev[n] \in Nodes
        BY <3>2, <2>1, <1>3, <1>6, <1>7, <1>8 DEF Nodes
      <4> QED
        BY <4>1, <2>1, <1>1, <1>6, <1>7
    <3> QED
      BY <3>1, <3>2
  <2> QED
    BY <2>2, <2>3
<1>13. ASSUME NEW s \in allocated', next'[s] # Head
       PROVE  pid[s] < pid[next'[s]]
  <2>1. CASE s = prev[p]
    <3>1. next'[s] = next[p] /\ next[s] = p /\ next[p] \in allocated
      BY <2>1, <1>1, <1>3, <1>6, <1>7, <1>13
    <3> QED
      BY <3>1, <1>1, <1>3, <1>4, <1>8, <1>9, <1>13
  <2>2. CASE s # prev[p]
    BY <2>2, <1>1, <1>7, <1>8, <1>9, <1>13
  <2> QED
    BY <2>1, <2>2
<1>14. ASSUME NEW r \in allocated', NEW s \in allocated', pid[s] < pid[r]
       PROVE  next'[s] # Head /\ pid[next'[s]] <= pid[r]
  <2>1. r \in allocated /\ s \in allocated /\ r # p /\ s # p
    BY <1>1
  <2>2. next[s] # Head /\ pid[next[s]] <= pid[r]
    BY <2>1, <1>10, <1>14
  <2>3. CASE s = prev[p]
    <3>1. next[s] = p /\ next'[s] = next[p]
      BY <2>3, <1>3, <1>6, <1>7
    <3>2. pid[p] # pid[r]
      BY <2>1, <1>3 DEF IInv, PidsBelowCounter
    <3>3. pid[p] < pid[r]
      BY <3>1, <3>2, <2>2, <2>1, <1>3, <1>8
    <3> QED
      BY <3>1, <3>3, <2>1, <1>3, <1>10
  <2>4. CASE s # prev[p]
    BY <2>4, <2>2, <2>1, <1>7, <1>8
  <2> QED
    BY <2>3, <2>4
<1>15. next'[Head] \in allocated' /\ \A r \in allocated' : pid[next'[Head]] <= pid[r]
  <2>1. next[Head] \in allocated /\ \A r \in allocated : pid[next[Head]] <= pid[r]
    BY <1>3, <1>6 DEF IInv, ListHoldsEveryTask
  <2>2. CASE prev[p] = Head
    <3>1. next[Head] = p /\ next'[Head] = next[p]
      BY <2>2, <1>3, <1>6, <1>7
    <3>2. \A r \in allocated' : pid[p] < pid[r]
      BY <3>1, <2>1, <1>1, <1>3, <1>8 DEF IInv, PidsBelowCounter
    <3>3. next[p] # Head
      BY <3>2, <1>1, <1>3, <1>4, <1>10
    <3>4. \A r \in allocated' : pid[next[p]] <= pid[r]
      BY <3>2, <1>1, <1>3, <1>10
    <3> QED
      BY <3>1, <3>3, <3>4, <1>11
  <2>3. CASE prev[p] # Head
    <3>1. next'[Head] = next[Head] /\ next[Head] # p
      BY <2>3, <1>3, <1>6, <1>7 DEF Nodes
    <3> QED
      BY <3>1, <2>1, <1>1
  <2> QED
    BY <2>2, <2>3
<1>16. ListSortedByPid' /\ ListHoldsEveryTask'
  <2>1. next'[Head] # Head
    BY <1>15, <1>1, <1>8
  <2>2. pid' = pid
    BY <1>1
  <2> QED
    BY <1>12, <1>13, <1>14, <1>15, <2>1, <2>2 DEF ListSortedByPid, ListHoldsEveryTask
<1>17. PidsBelowCounter' /\ CpuRunsLiveTask' /\ ChildrenBelong' /\ YieldOnList'
  <2>1. PidsBelowCounter'
    BY <1>1 DEF IInv, PidsBelowCounter
  <2>2. CpuRunsLiveTask' /\ YieldOnList'
    BY <1>1, <1>3, <1>4 DEF CpuRunsLiveTask, YieldOnList
  <2>3. ChildrenBelong'
    BY <1>1 DEF IInv, ChildrenBelong
  <2> QED
    BY <2>1, <2>2, <2>3
<1>18. \A s \in Slots :
          /\ s = cur => pc'[s] = "user"
          /\ s # cur => pc'[s] = pc[s] /\ process'[s] = process[s] /\ wpid'[s] = wpid[s]
    BY <1>1, <1>2 DEF TypeOK
<1>19. FramesOK'
    BY <1>1, <1>2, <1>18 DEF IInv, FramesOK, Finding, TypeOK
<1>20. WaiterHoldsItsTask'
  <2> SUFFICES ASSUME NEW s \in allocated', pc'[s] = "waitpid"
               PROVE  process'[s] \in allocated' /\ pid'[process'[s]] = wpid'[s]
    BY DEF WaiterHoldsItsTask
  <2>1. s \in allocated /\ s # cur /\ s \in Slots /\ pc[s] = "waitpid"
    BY <1>1, <1>2, <1>18 DEF TypeOK
  <2>2. process[s] \in allocated /\ pid[process[s]] = wpid[s]
    BY <2>1 DEF IInv, WaiterHoldsItsTask
  <2>3. wpid[s] \in children[s] /\ wpid[cur] \in children[cur]
    BY <2>1, <1>1, <1>3 DEF IInv, FramesOK
  <2>4. process[s] # p
    BY <2>1, <2>2, <2>3, <1>3 DEF IInv, ChildrenBelong
  <2> QED
    BY <2>1, <2>2, <2>4, <1>1, <1>18
<1> QED
    BY <1>5, <1>16, <1>17, <1>19, <1>20 DEF IInv

\* A step that leaves the list, the pids and the children alone preserves the
\* parts of the invariant that speak only about them.
LEMMA ListUntouched ==
    ASSUME IInv, UNCHANGED <<pid, listVars, children>>
    PROVE  (ListSortedByPid /\ ListHoldsEveryTask /\ PidsBelowCounter /\ ChildrenBelong)'
BY DEF IInv, ListSortedByPid, ListHoldsEveryTask, PidsBelowCounter, ChildrenBelong, listVars

\* The interrupts and task_yield: only the CPU moves.
LEMMA CpuStepPreserves ==
    ASSUME IInv, YieldStep \/ TimerInterrupt \/ OtherInterrupt \/ SchedYield
                 \/ WaitPidYield \/ SleepYield
    PROVE  IInv'
<1>1. TypeOK /\ cur \in allocated /\ cur \in Slots /\ allocated \subseteq Slots
    BY DEF IInv, TypeOK, CpuRunsLiveTask
<1>2. /\ UNCHANGED <<taskVars, listVars, pc, process, wpid, children>>
      /\ left' \in [Slots -> Nat]
  <2>1. CASE TimerInterrupt
    BY <1>1, <2>1 DEF TimerInterrupt, TypeOK
  <2>2. CASE ~TimerInterrupt
    BY <1>1, <2>2 DEF YieldStep, OtherInterrupt, SchedYield, WaitPidYield, SleepYield,
                      frameVars, TypeOK
  <2> QED
    BY <2>1, <2>2
<1>3. /\ cpu' \in {"run", "yield", "halt"} /\ irq' \in BOOLEAN
      /\ cur' \in allocated /\ (cpu' = "run" => task_state[cur'] = RUNNING)
      /\ t' \in Slots /\ (cpu' # "run" => t' \in allocated)
      /\ \A s \in allocated : pc[s] \in Finding => s = cur' /\ cpu' = "run"
  <2>0. \A s \in allocated : pc[s] \in Finding => s = cur /\ cpu = "run"
    BY DEF IInv, FramesOK
  <2>1. CASE YieldStep
    <3>1. t' = NextTask(t) /\ t' \in allocated /\ cpu = "yield"
      BY <2>1, NextTaskAllocated DEF YieldStep, IInv, YieldOnList
    <3>2. irq' \in BOOLEAN
      BY <2>1, <1>1 DEF YieldStep, TypeOK, SwitchIrq
    <3> QED
      BY <2>0, <2>1, <3>1, <3>2, <1>1 DEF YieldStep, TypeOK, Runnable
  <2>2. CASE TimerInterrupt \/ OtherInterrupt
    <3>1. WakeCpu
      BY <2>2 DEF TimerInterrupt, OtherInterrupt
    <3> QED
      BY <2>0, <3>1, <1>1 DEF WakeCpu, Runnable, TypeOK, IInv, CpuRunsLiveTask, YieldOnList
  <2>3. CASE SchedYield \/ WaitPidYield \/ SleepYield
    <3>1. /\ EnterYield /\ pc[cur] \notin Finding /\ irq' \in BOOLEAN
      BY <2>3, <1>1 DEF SchedYield, WaitPidYield, SleepYield, UserPCs, Finding, TypeOK
    <3> QED
      BY <2>0, <3>1, <1>1 DEF EnterYield
  <2> QED
    BY <2>1, <2>2, <2>3
<1>4. TypeOK'
    BY <1>1, <1>2, <1>3 DEF TypeOK, taskVars, listVars
<1>5. (ListSortedByPid /\ ListHoldsEveryTask /\ PidsBelowCounter /\ ChildrenBelong)'
    BY <1>2, ListUntouched DEF taskVars
<1>6. (CpuRunsLiveTask /\ FramesOK /\ WaiterHoldsItsTask /\ YieldOnList)'
    BY <1>2, <1>3 DEF IInv, CpuRunsLiveTask, FramesOK, WaiterHoldsItsTask, YieldOnList,
                      taskVars, listVars
<1> QED
    BY <1>4, <1>5, <1>6 DEF IInv

\* exit and the fatal exceptions: the running task dies and leaves the CPU.
LEMMA DiePreserves ==
    ASSUME IInv, Exit \/ Fault
    PROVE  IInv'
<1>1. TypeOK /\ cur \in allocated /\ cur \in Slots
    BY DEF IInv, TypeOK, CpuRunsLiveTask
<1>0. irq' \in BOOLEAN
  <2>1. irq \in BOOLEAN
    BY <1>1 DEF TypeOK
  <2> QED
    BY <2>1 DEF Exit, Fault
<1>2. PICK code \in Nat : Die(code)
  <2>1. CASE Exit
    BY <2>1, NumbersAssumption DEF Exit
  <2>2. CASE Fault
    <3>1. Die(1) \/ Die(128 + 11)
      BY <2>2 DEF Fault
    <3>2. 1 \in Nat /\ 128 + 11 \in Nat
      OBVIOUS
    <3> QED
      BY <3>1, <3>2
  <2> QED
    BY <2>1, <2>2
<1>3. /\ InUser /\ EnterYield
      /\ task_state' = [task_state EXCEPT ![cur] = ZOMBIE]
      /\ exit_code' = [exit_code EXCEPT ![cur] = code % 256]
      /\ UNCHANGED <<pid, listVars, frameVars>>
    BY <1>2 DEF Die, Uint8
<1>4. code % 256 \in 0 .. Garbage
    BY DEF Garbage
<1>5. TypeOK'
    BY <1>0, <1>1, <1>3, <1>4 DEF TypeOK, EnterYield, listVars, frameVars
<1>6. (ListSortedByPid /\ ListHoldsEveryTask /\ PidsBelowCounter /\ ChildrenBelong)'
    BY <1>3, ListUntouched DEF frameVars
<1>7. (CpuRunsLiveTask /\ FramesOK /\ WaiterHoldsItsTask /\ YieldOnList)'
    BY <1>1, <1>3 DEF IInv, CpuRunsLiveTask, FramesOK, WaiterHoldsItsTask, YieldOnList,
                      EnterYield, InUser, Finding, listVars, frameVars
<1> QED
    BY <1>5, <1>6, <1>7 DEF IInv

\* The walks along the list, and the sleeps: only the frame of the running
\* task changes, and kill changes the state of the task it found.
LEMMA FrameStepPreserves ==
    ASSUME IInv, Disciplined,
           WaitPid \/ Kill \/ FindStep \/ FindFails \/ WaitPidFound \/ KillFound
           \/ Sleep \/ SleepReturn
    PROVE  IInv'
<1>1. /\ TypeOK /\ cur \in allocated /\ cur \in Slots /\ allocated \subseteq Slots
      /\ Head \notin Slots /\ 0 \in Pids
    BY SlotsAssumption, NumbersAssumption DEF IInv, TypeOK, CpuRunsLiveTask, Pids
<1>2. UNCHANGED <<pid, listVars, children, cur>> /\ cpu = "run"
    BY DEF WaitPid, Kill, StartFind, FindStep, FindFails, WaitPidFound, KillFound, Sleep,
           SleepReturn, InUser, taskVars, EnterYield
<1>3. (ListSortedByPid /\ ListHoldsEveryTask /\ PidsBelowCounter /\ ChildrenBelong)'
    BY <1>2, ListUntouched
<1>4. next[Head] \in allocated \cup {Head}
    BY DEF IInv, ListHoldsEveryTask
<1>5. \A s \in allocated : s # cur => pc[s] \notin Finding
    BY DEF IInv, FramesOK
<1>6. ASSUME TypeOK', UNCHANGED taskVars, cpu' = "run",
             \A s \in Slots : s # cur =>
                 pc'[s] = pc[s] /\ process'[s] = process[s] /\ wpid'[s] = wpid[s],
             pc'[cur] \in Finding => process'[cur] \in allocated \cup {Head},
             pc'[cur] \in {"waitpid_find", "waitpid"} => wpid'[cur] \in children[cur],
             pc'[cur] = "waitpid" => process'[cur] \in allocated /\ pid[process'[cur]] = wpid'[cur]
      PROVE  IInv'
  <2>1. CpuRunsLiveTask' /\ YieldOnList'
    BY <1>1, <1>2, <1>6 DEF IInv, CpuRunsLiveTask, YieldOnList, taskVars, listVars
  <2>2. FramesOK'
    BY <1>1, <1>2, <1>5, <1>6 DEF IInv, FramesOK, listVars
  <2>3. WaiterHoldsItsTask'
    BY <1>1, <1>2, <1>6 DEF IInv, WaiterHoldsItsTask, listVars
  <2> QED
    BY <1>3, <1>6, <2>1, <2>2, <2>3 DEF IInv
<1>7. CASE WaitPid
  <2>1. PICK arg3 \in children[cur] : StartFind("waitpid_find", arg3)
    BY <1>7 DEF WaitPid, Disciplined
  <2>2. arg3 \in Pids
    BY <1>1 DEF TypeOK
  <2>3. TypeOK'
    BY <1>1, <1>2, <2>1, <2>2 DEF StartFind, TypeOK, Nodes, PCs, taskVars, listVars
  <2> QED
    BY <1>1, <1>2, <1>4, <1>6, <2>1, <2>3 DEF StartFind, TypeOK, Finding
<1>8. CASE Kill
  <2>1. PICK arg3 \in KillPids : StartFind("kill_find", arg3)
    BY <1>8 DEF Kill
  <2>2. arg3 \in Pids
    BY NumbersAssumption DEF Pids
  <2>3. TypeOK'
    BY <1>1, <1>2, <2>1, <2>2 DEF StartFind, TypeOK, Nodes, PCs, taskVars, listVars
  <2> QED
    BY <1>1, <1>2, <1>4, <1>6, <2>1, <2>3 DEF StartFind, TypeOK, Finding
<1>9. CASE FindStep
  <2>1. process[cur] \in allocated /\ next[process[cur]] \in allocated \cup {Head}
    BY <1>1, <1>9 DEF FindStep, IInv, FramesOK, Finding, ListHoldsEveryTask
  <2>2. TypeOK'
    BY <1>1, <1>2, <1>9, <2>1 DEF FindStep, TypeOK, Nodes, taskVars, listVars
  <2> QED
    BY <1>1, <1>2, <1>6, <1>9, <2>1, <2>2 DEF FindStep, TypeOK, Finding, IInv, FramesOK
<1>10. CASE WaitPidFound
  <2>1. process[cur] \in allocated /\ wpid[cur] \in children[cur]
    BY <1>1, <1>10 DEF WaitPidFound, IInv, FramesOK, Finding
  <2>2. TypeOK'
    BY <1>1, <1>2, <1>10 DEF WaitPidFound, TypeOK, PCs, taskVars, listVars
  <2> QED
    BY <1>1, <1>2, <1>6, <1>10, <2>1, <2>2 DEF WaitPidFound, TypeOK, Finding
<1>11. CASE FindFails \/ SleepReturn
  <2>0. Return /\ irq' = TRUE /\ UNCHANGED <<taskVars, listVars, cur, cpu, t, left, children>>
    BY <1>11 DEF FindFails, SleepReturn
  <2>2. irq' \in BOOLEAN
    BY <2>0
  <2>1. TypeOK'
    BY <1>1, <2>0, <2>2 DEF Return, TypeOK, Nodes, PCs, UserPCs, taskVars, listVars
  <2> QED
    BY <1>1, <1>2, <1>6, <1>11, <2>1 DEF FindFails, SleepReturn, Return, TypeOK, Finding
<1>12. CASE Sleep
  <2>1. TypeOK'
    BY <1>1, <1>2, <1>12, NumbersAssumption DEF Sleep, TypeOK, PCs, taskVars, listVars
  <2> QED
    BY <1>1, <1>2, <1>6, <1>12, <2>1 DEF Sleep, TypeOK, Finding
<1>13. CASE KillFound
  <2>1. process[cur] \in allocated
    BY <1>1, <1>13 DEF KillFound, IInv, FramesOK, Finding
  <2>2. TypeOK'
    BY <1>1, <1>2, <1>13, <2>1 DEF KillFound, Return, EnterYield, TypeOK, Nodes, PCs, UserPCs,
                                   Garbage, listVars
  <2>3. /\ cpu' = "yield" /\ t' = cur /\ pc'[cur] = "user"
        /\ \A s \in Slots : s # cur =>
              pc'[s] = pc[s] /\ process'[s] = process[s] /\ wpid'[s] = wpid[s]
    BY <1>1, <1>13 DEF KillFound, Return, EnterYield, TypeOK
  <2>4. CpuRunsLiveTask' /\ YieldOnList'
    BY <1>1, <1>2, <2>3 DEF CpuRunsLiveTask, YieldOnList, listVars
  <2>5. FramesOK'
    BY <1>1, <1>2, <1>5, <2>3 DEF IInv, FramesOK, Finding, listVars
  <2>6. WaiterHoldsItsTask'
    BY <1>1, <1>2, <2>3 DEF IInv, WaiterHoldsItsTask, listVars
  <2> QED
    BY <1>3, <2>2, <2>4, <2>5, <2>6 DEF IInv
<1> QED
    BY <1>7, <1>8, <1>9, <1>10, <1>11, <1>12, <1>13

-----------------------------------------------------------------------------
\* Every step preserves the invariant.
LEMMA StepPreserves ==
    ASSUME IInv, Disciplined, [Next]_vars
    PROVE  IInv'
<1>1. CASE UNCHANGED vars
  <2>1. UNCHANGED <<pid, task_state, exit_code, allocated, next, prev, pid_counter, cur, cpu,
                    t, irq, pc, process, wpid, left, children>>
    BY <1>1 DEF vars
  <2>2. TypeOK'
    BY <2>1 DEF IInv, TypeOK
  <2>3. (ListSortedByPid /\ ListHoldsEveryTask /\ PidsBelowCounter /\ ChildrenBelong)'
    BY <2>1, ListUntouched DEF listVars
  <2>4. (CpuRunsLiveTask /\ FramesOK /\ WaiterHoldsItsTask /\ YieldOnList)'
    BY <2>1 DEF IInv, CpuRunsLiveTask, FramesOK, WaiterHoldsItsTask, YieldOnList
  <2> QED
    BY <2>2, <2>3, <2>4 DEF IInv
<1>2. CASE Fork
    BY <1>2, ForkPreserves
<1>3. CASE Reap
    BY <1>3, ReapPreserves
<1>4. CASE Next /\ ~Fork /\ ~Reap
    BY <1>4, CpuStepPreserves, DiePreserves, FrameStepPreserves DEF Next, KernelStep
<1> QED
    BY <1>1, <1>2, <1>3, <1>4

\* The invariant holds in every reachable state.
THEOREM Invariance == Disciplined => (Spec => []IInv)
<1> SUFFICES ASSUME Disciplined PROVE Spec => []IInv
    OBVIOUS
<1>1. Init => IInv
    BY InitEstablishes
<1>2. IInv /\ [Next]_vars => IInv'
    BY StepPreserves
<1> QED
    BY <1>1, <1>2, PTL DEF Spec

\* The variables keep their types, whatever the number of tasks.
THEOREM TypeCorrect == Disciplined => (Spec => []TypeOK)
<1>1. IInv => TypeOK
    BY DEF IInv
<1> QED
    BY <1>1, Invariance, PTL

\* scheduler.c:10: the task list is sorted by pid, as long as pid_counter does
\* not wrap around.
THEOREM ListStaysSorted == Disciplined => (Spec => []ListSortedByPid)
<1>1. IInv => ListSortedByPid
    BY DEF IInv
<1> QED
    BY <1>1, Invariance, PTL

\* The list holds every allocated task, with consistent links.
THEOREM ListStaysComplete == Disciplined => (Spec => []ListHoldsEveryTask)
<1>1. IInv => ListHoldsEveryTask
    BY DEF IInv
<1> QED
    BY <1>1, Invariance, PTL

\* The CPU never executes a dead task, nor uses a freed kernel stack.
THEOREM CpuStaysOnLiveTask == Disciplined => (Spec => []CpuRunsLiveTask)
<1>1. IInv => CpuRunsLiveTask
    BY DEF IInv
<1> QED
    BY <1>1, Invariance, PTL

\* No use after free in waitpid: the pointer it keeps across task_yield stays
\* the task it asked for.
THEOREM WaitpidPointerStaysValid == Disciplined => (Spec => []WaiterHoldsItsTask)
<1>1. IInv => WaiterHoldsItsTask
    BY DEF IInv
<1> QED
    BY <1>1, Invariance, PTL
-----------------------------------------------------------------------------
\* Every death sets the exit code of the task it ends.
DeadHaveCode == \A s \in allocated : task_state[s] = ZOMBIE => exit_code[s] # Garbage

\* No step leaves a dead task with what fork found in the slot.
LEMMA DeadHaveCodePreserved ==
    ASSUME IInv, DeadHaveCode, [Next]_vars
    PROVE  DeadHaveCode'
<1>1. TypeOK /\ cur \in allocated /\ (cpu = "run" => task_state[cur] = RUNNING)
    BY DEF IInv, CpuRunsLiveTask
<1>2. CASE Fork
  <2>1. cpu = "run" /\ \E n \in Slots \ allocated :
            /\ task_state' = [task_state EXCEPT ![n] = task_state[cur]]
            /\ exit_code' = [exit_code EXCEPT ![n] = Garbage]
            /\ allocated' = allocated \cup {n}
    BY <1>2 DEF Fork, FreeSlots
  <2> QED
    BY <1>1, <2>1 DEF DeadHaveCode, TypeOK, RUNNING, ZOMBIE
<1>3. CASE Reap
    BY <1>3 DEF Reap, DeadHaveCode, taskVars
<1>4. CASE Exit \/ Fault
  <2>1. \E code \in Nat : Die(code)
    BY <1>4, NumbersAssumption DEF Exit, Fault
  <2>2. \A code \in Nat : Uint8(code) < 256
    BY DEF Uint8
  <2> QED
    BY <1>1, <2>1, <2>2 DEF Die, DeadHaveCode, TypeOK, Garbage, listVars
<1>5. CASE KillFound
    BY <1>1, <1>5 DEF KillFound, DeadHaveCode, TypeOK, Garbage, listVars
<1>6. CASE UNCHANGED <<taskVars, allocated>>
    BY <1>6 DEF DeadHaveCode, taskVars
<1>7. UNCHANGED vars => UNCHANGED <<taskVars, allocated>>
    BY DEF vars, taskVars
<1>8. /\ YieldStep \/ TimerInterrupt \/ OtherInterrupt \/ SchedYield => UNCHANGED <<taskVars, allocated>>
      /\ FindStep \/ FindFails \/ WaitPidFound \/ WaitPidYield => UNCHANGED <<taskVars, allocated>>
      /\ WaitPid \/ Kill \/ Sleep \/ SleepYield \/ SleepReturn => UNCHANGED <<taskVars, allocated>>
    BY DEF YieldStep, TimerInterrupt, OtherInterrupt, SchedYield, FindStep, FindFails,
           WaitPidFound, WaitPidYield, WaitPid, Kill, StartFind, Sleep, SleepYield, SleepReturn,
           listVars
<1> QED
    BY <1>2, <1>3, <1>4, <1>5, <1>6, <1>7, <1>8 DEF Next, KernelStep

\* In every reachable state, a dead task has the exit code of its death.
THEOREM DeathsSetExitCode == Disciplined => (Spec => []DeadHaveCode)
<1> SUFFICES ASSUME Disciplined PROVE Spec => []DeadHaveCode
    OBVIOUS
<1>1. Init => DeadHaveCode
    BY DEF Init, DeadHaveCode, RUNNING, ZOMBIE
<1>2. IInv /\ DeadHaveCode /\ [Next]_vars => DeadHaveCode'
    BY DeadHaveCodePreserved
<1> QED
    BY <1>1, <1>2, Invariance, PTL DEF Spec

\* Only waitpid's reaping takes a task_struct out of use.
LEMMA OnlyReapFrees ==
    ASSUME [Next]_vars, ~Reap
    PROVE  allocated \subseteq allocated'
<1>1. Fork => allocated \subseteq allocated'
    BY DEF Fork
<1>2. Next /\ ~Fork => allocated' = allocated
  <2>1. YieldStep \/ TimerInterrupt \/ OtherInterrupt \/ SchedYield \/ FindStep \/ FindFails
            => allocated' = allocated
    BY DEF YieldStep, TimerInterrupt, OtherInterrupt, SchedYield, FindStep, FindFails, listVars
  <2>2. WaitPidFound \/ WaitPidYield \/ WaitPid \/ Kill \/ KillFound => allocated' = allocated
    BY DEF WaitPidFound, WaitPidYield, WaitPid, Kill, KillFound, StartFind, listVars
  <2>3. Sleep \/ SleepYield \/ SleepReturn \/ Exit \/ Fault => allocated' = allocated
    BY DEF Sleep, SleepYield, SleepReturn, Exit, Fault, Die, listVars
  <2> QED
    BY <2>1, <2>2, <2>3 DEF Next, KernelStep
<1>3. UNCHANGED vars => allocated' = allocated
    BY DEF vars
<1> QED
    BY <1>1, <1>2, <1>3

\* scheduler.c, free_task: waitpid frees one task_struct, of a task that is
\* dead and has its exit code, and never the one the CPU runs on.
THEOREM ReapingIsSafe == Disciplined => (Spec => OnlyZombiesAreReaped)
<1> DEFINE Step ==
      \A s \in allocated \ allocated' :
          /\ task_state[s] = ZOMBIE /\ exit_code[s] # Garbage
          /\ s # cur /\ allocated \ allocated' = {s}
<1>1. ASSUME IInv, DeadHaveCode, [Next]_vars
      PROVE  Step
  <2>1. CASE Reap
    <3>1. /\ allocated' = allocated \ {process[cur]} /\ cpu = "run" /\ pc[cur] = "waitpid"
          /\ task_state[process[cur]] = ZOMBIE
      BY <2>1 DEF Reap, IsZombie
    <3>2. cur \in allocated /\ task_state[cur] = RUNNING
      BY <1>1, <3>1 DEF IInv, CpuRunsLiveTask
    <3>3. process[cur] \in allocated
      BY <1>1, <3>1, <3>2 DEF IInv, WaiterHoldsItsTask
    <3> QED
      BY <1>1, <3>1, <3>2, <3>3 DEF DeadHaveCode, RUNNING, ZOMBIE
  <2>2. CASE ~Reap
    BY <1>1, <2>2, OnlyReapFrees
  <2> QED
    BY <2>1, <2>2
<1>2. IInv /\ DeadHaveCode /\ [Next]_vars => [Step]_vars
    BY <1>1
<1> QED
    BY <1>2, Invariance, DeathsSetExitCode, PTL DEF Spec, OnlyZombiesAreReaped

\* No late wake-up, sleep end, interrupt or second kill revives a dead task.
THEOREM DeathIsFinal == Disciplined => (Spec => DeadStaysDead)
<1> DEFINE Step ==
      \A s \in allocated \cap allocated' :
          task_state[s] = ZOMBIE => task_state'[s] = ZOMBIE
<1>1. ASSUME IInv, [Next]_vars
      PROVE  Step
  <2>1. TypeOK
    BY <1>1 DEF IInv
  <2>2. CASE Fork
    <3>1. \E n \in Slots \ allocated : task_state' = [task_state EXCEPT ![n] = task_state[cur]]
      BY <2>2 DEF Fork, FreeSlots
    <3> QED
      BY <2>1, <3>1 DEF TypeOK
  <2>3. CASE Exit \/ Fault
    BY <2>1, <2>3 DEF Exit, Fault, Die, TypeOK
  <2>4. CASE KillFound
    BY <2>1, <2>4 DEF KillFound, TypeOK
  <2>5. CASE task_state' = task_state
    BY <2>5
  <2>6. /\ YieldStep \/ TimerInterrupt \/ OtherInterrupt \/ SchedYield => task_state' = task_state
        /\ FindStep \/ FindFails \/ WaitPidFound \/ WaitPidYield => task_state' = task_state
        /\ WaitPid \/ Kill \/ Sleep \/ SleepYield \/ SleepReturn => task_state' = task_state
        /\ Reap \/ UNCHANGED vars => task_state' = task_state
    BY DEF YieldStep, TimerInterrupt, OtherInterrupt, SchedYield, FindStep, FindFails, vars,
           WaitPidFound, WaitPidYield, WaitPid, Kill, StartFind, Sleep, SleepYield, SleepReturn,
           Reap, taskVars
  <2> QED
    BY <1>1, <2>2, <2>3, <2>4, <2>5, <2>6 DEF Next, KernelStep
<1>2. IInv /\ [Next]_vars => [Step]_vars
    BY <1>1
<1> QED
    BY <1>2, Invariance, PTL DEF Spec, DeadStaysDead
=============================================================================
