\* Every live task runs, waiters return, sleepers wake; no symmetry.
SPECIFICATION FairSpec
CONSTANTS
    Slots = {s1, s2, s3, s4}
    Head = Head
    PidModulus = 8
    MaxPid = 4
    ExitArgs = {257}
    KillPids = {2, 3}
    SleepTicks = {2}
    OwnChildren = TRUE
PROPERTIES EveryLiveTaskRuns WaiterReturns SleeperWakes
