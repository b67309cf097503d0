SPECIFICATION Spec
CONSTANTS
    NULL = NULL
    Keys = {1, 2, 3, 4, 5, 6, 7}
    Types = {"UNTYPED_FRAMES", "FRAME_MEMORY"}
INVARIANTS SearchTree SearchesAgree
PROPERTY ImplementsIndex
