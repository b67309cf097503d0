SPECIFICATION Spec
CONSTANTS
  Vectors <- MCVectors
  NMI = {2}
  Tops = {62, 61}
  MaxDepth = 2
  Contexts <- MCContexts
  B = 16
INVARIANT ContextIsTrue
PROPERTY Transparent
CHECK_DEADLOCK FALSE
