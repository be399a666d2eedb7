SPECIFICATION Spec
CONSTANTS
    kmem_total_pages = 37
    page_array_pages = 1
    KERNEL_STACK_PAGES = 2
    PAGE_SIZE = 2
    OBJECTS_PER_PAGE = 3
    Procs = {p1, p2}
    KT = KT
    Programs <- SmallPrograms
    Sizes = {1, 3}
    HeapLimit = 9
    StoreAddresses = {2}
    MaxCalls = 2
    KillDuringExec = FALSE
INVARIANTS PagesAccounted ObjectsAccounted MallocedIsMapped
PROPERTIES PrivateAddressSpaces
SYMMETRY Symmetry
CHECK_DEADLOCK FALSE
