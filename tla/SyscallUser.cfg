SPECIFICATION UserSpec
CONSTANTS
    NULL = NULL
    CAPABILITIES_PER_NODE = 8
    PAGE_SIZE = 2
    USIZE = 256
    FramesBase = 4
    MemoryMap <- MCMemoryMap
    MaxLength = 1
    UserReserve = 5
    Care = {"MemoryOnly", "ReusesSlot", "WholeObjects", "LeavesRest", "FitsWord", "OnceOnly", "UntypedOnly"}
    Addresses = {3, 40}
    DeviceAddresses = {40}
    RetypeKinds = {"FRAME_MEMORY", "CAPABILITY_NODE", "VIRTUAL_MEMORY_PAGING_STRUCTURE"}
    SplitSizes = {2}
    SplitOffsets = {0, 2}
    Counts = {1, 2}
    Indices = {0, 2}
    Targets = {2}
    UserFlags <- MCUserFlags
    ENTRIES = 2
    Root = Root
    MaxBoot = 1
INVARIANTS KernelUndamaged AddressableUntypedIsExclusive RepliesAreAddressable TablesAreNotMapped
PROPERTY UserMapsOnlyGrow
CHECK_DEADLOCK FALSE
