\* Two tasks, four struct files, descriptors 0 to 3.
SPECIFICATION Spec
CONSTANTS
    Tasks = {t1, t2}
    InitTask = t1
    Files = {f1, f2, f3, f4}
    Inodes = {i1, i2}
    NoInode = NoInode
    FdModulus = 4
    MaxFd = 2
    MaxOffset = 1
SYMMETRY FileSymmetry
VIEW LiveView
INVARIANTS TypeOK FilesSortedByFd FilesOwnedOnce
PROPERTIES Dup2Copies TasksIsolated
CHECK_DEADLOCK FALSE
