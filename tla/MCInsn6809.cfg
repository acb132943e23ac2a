SPECIFICATION Spec
CONSTANTS
  Loads <- AllLoads
  MaxInsns = 3
INVARIANTS
  TypeOK
  Undone
  MultiPrecision
PROPERTIES
  FlagsExact
  CompareThenBranch
  NextLandsAfter
  ClockAdvances
CHECK_DEADLOCK FALSE
