\* A program with a CWAI, handlers that leave the masks alone.
SPECIFICATION Spec
CONSTANTS
  Sources = {0}
  Code <- MCCode
  CwaiAt <- MCCwaiAt
  Vector <- MCVector
  HandlersMayUnmask = FALSE
  MaxDepth = 2
  MaxUpset = 1
INVARIANTS
  NoUnmaskedPending
