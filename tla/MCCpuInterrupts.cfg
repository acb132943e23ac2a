\* Nested interrupts and CWAI, with handlers that may unmask.
SPECIFICATION Spec
CONSTANTS
  Sources = {0}
  Code <- MCCode
  CwaiAt <- MCCwaiAt
  Vector <- MCVector
  HandlersMayUnmask = TRUE
  MaxDepth = 2
  MaxUpset = 1
INVARIANTS
  StackDiscipline
  CwaiFrameSaved
