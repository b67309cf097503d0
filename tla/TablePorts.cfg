SPECIFICATION Spec
CONSTANTS
    NULL = NULL
    ENTRIES = 2
    Targets = {1, 9}
    Frames = {f1, f2}
    MapFlags <- MCMapFlags
    NewFlags <- MCNewFlags
INVARIANT PortsAgree
PROPERTY ImplementsPageMap
