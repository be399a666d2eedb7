SPECIFICATION Spec
CONSTANTS
    Tasks = {"t1", "t2"}
    PAGE = 2
    UINT64 = 1024
    DiskSize = 10
    LBA_BYTES = 8
    PartStart <- SmallStart
    PartEnd <- SmallEnd
    ExfatPart = "p1"
    Clusters <- SmallClusters
    file_length = 3
    ByteOf <- SmallBytes
    Lengths = {1, 4}
    Offsets = {0, 1, 3}
    MaxCalls = 2
    Careful = TRUE
INVARIANTS PartitionsAfterQueues
PROPERTIES CallsReturn ActsLikeTransfers
CHECK_DEADLOCK FALSE
