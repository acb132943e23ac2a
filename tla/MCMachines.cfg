\* Guest stores and reads, updates, ticks and pulses interleaved.
SPECIFICATION MachineSpec
CONSTANTS
  Sources = {0, 1}
  Code = {0, 4}
  CwaiAt = {}
  Vector <- MCVector
  HandlersMayUnmask = FALSE
  MaxDepth = 2
  MaxUpset = 1
  Lines = {0, 1}
  Reload = 4
  MaxSlice = 3
  MaxCycles = 9
  CharFIFO_SIZE = 2
  Chars = {10, 65}
  NoChar = NoChar
  BatchFile = {TRUE, FALSE}
INVARIANTS
  NoUnmaskedPending
  NoReentry
  NoPulseMissed
  DevicesDriveLines
PROPERTIES
  UartImplementsFifo
  ArrivalInterrupts
