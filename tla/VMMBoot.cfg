SPECIFICATION Spec
CONSTANTS
    NULL = NULL
    ENTRIES = 2
    Spaces = {kernel, user}
    KernelSpace = kernel
    Ranges <- MCRanges
    KernelFlags <- MCKernelFlags
    Targets = {3, 6}
    MaxPages = 2
    FlagSets <- MCFlagSets
    MaxFrames = 12
INVARIANTS NoTableSharedOrLost AccessAsAsked
PROPERTIES ImplementsMaps CallsReturn
CHECK_DEADLOCK FALSE
