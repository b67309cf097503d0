SPECIFICATION Spec
CONSTANTS
    NULL = NULL
    CAPABILITIES_PER_NODE = 3
    Pages = {n1, n2, n3}
    RootNode = n1
INVARIANTS Accounting OnMatchingList AllocateReturns AllocateFailsOnlyWhenFull
PROPERTY ImplementsPool
