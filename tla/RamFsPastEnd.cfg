\* ramfs.c:100 when a program reads at an offset beyond the size.
SPECIFICATION Spec
CONSTANTS
    Handles = {h1, h2}
    Bytes = {0, 1}
    Lengths = {1}
    MaxSize = 3
    CAPACITY = 3
    PastEnd = TRUE
INVARIANTS NoWildCopy
CHECK_DEADLOCK FALSE
