SPECIFICATION Spec
CONSTANTS
    NULL = NULL
    CAPABILITIES_PER_NODE = 8
    PAGE_SIZE = 2
    USIZE = 4096
    FramesBase = 12
    MemoryMap <- MCMemoryMap
    MaxLength = 2
    UserReserve = 15
INVARIANT FullSlabsIntact
CHECK_DEADLOCK FALSE
