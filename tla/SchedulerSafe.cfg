\* Five task_struct slots and pids 1 to 6; a slot is reused after a reap.
SPECIFICATION Spec
CONSTANTS
    Slots = {s1, s2, s3, s4, s5}
    Head = Head
    PidModulus = 8
    MaxPid = 6
    ExitArgs = {257}
    KillPids = {1, 2, 3, 4}
    SleepTicks = {1, 2}
    OwnChildren = TRUE
SYMMETRY SlotSymmetry
INVARIANTS TypeOK ListSortedByPid ListHoldsEveryTask CpuRunsLiveTask WaiterHoldsItsTask
PROPERTIES OnlyZombiesAreReaped DeadStaysDead
