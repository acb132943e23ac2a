\* One entry with every option, steps and runfor.
SPECIFICATION FairSpec
CONSTANTS
  Addr = {0, 1}
  Byte = {0, 1}
  MaxBreaks = 1
  BreakOptions = {"if", "ignore"}
  WatchOptions = {"print", "mask", "if"}
  Counts <- MCCounts
  Times = {0, 150}
CHECK_DEADLOCK FALSE
INVARIANTS
  StepExact

  
