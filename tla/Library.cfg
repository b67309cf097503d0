SPECIFICATION Spec
CONSTANTS
    NULL = NULL
    WIDTH = 6
    BITS = 64
    INT = 32
    Size = 5
    Chars = {0, 44, 97}
    Delimiters <- MCDelimiters
    Messages <- MCMessages
INVARIANT AnswersAreTrue
PROPERTY ImplementsBuffers
