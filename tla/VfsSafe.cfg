SPECIFICATION Spec
CONSTANTS
    Tasks = {t1, t2}
    Calls <- SmallCalls
    MaxCalls = 3
    SLASH = SLASH
    TarEntries <- SmallTar
    GptEntries <- SmallGpt
    GptFits = 5
    DiskPages <- SmallPages
    FAT <- SmallFat
    EOC = EOC
    RootCluster = 2
    DiskTree <- SmallTree
INVARIANTS ListingsRight LoadedFilesMatchDisk
PROPERTIES ActsLikeNamespace
SYMMETRY Symmetry
CHECK_DEADLOCK FALSE
