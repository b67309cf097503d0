SPECIFICATION ListSpec
CONSTANTS
    NULL = NULL
    Elements = {e1, e2, e3}
    Lists = {free, used, full}
INVARIANTS WellFormed UnlinkedIsClean
PROPERTY ImplementsSequences
