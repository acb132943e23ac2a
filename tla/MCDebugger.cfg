\* Breakpoints and print-only and other watchpoints, steps, SIGINT.
SPECIFICATION Spec
CONSTANTS
  Addr = {0, 1}
  Byte = {0}
  MaxBreaks = 2
  BreakOptions = {"ignore"}
  WatchOptions = {"print"}
  Counts = {2}
  Times = {}
CHECK_DEADLOCK FALSE
INVARIANTS
  CountAgrees
  NoTempAtPrompt
PROPERTIES
  NoStopLost
  BreakpointStops
