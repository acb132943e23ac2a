\* One part of the program at a time.
SPECIFICATION PartsSpec
CONSTANTS
  PartsInUse = {"disk", "sdcard", "mapper", "wpc", "hostmon", "expressions", "loader"}
  LastBlock = 2
  Absent = Absent
  Zero <- MCZero
  Erased <- MCErased
  BYTE_VALUES = 2
  SECTOR_SIZE = 2
  Slots = {0, 1}
  Data <- MCDiskData
  ImageSizes = {0, 2}
  MaxOffset = 8
  SdRegisters = {0, 1}
  SdByteValues = 2
  SdLba2Values = 2
  Seekable = 3
  BlockSize = 2
  INIT_POLLS = 2
  BYTE_POLLS = 2
  SdData <- MCSdData
  SdCommands = {0, 1, 2}
  SdImages <- MCImages
  TopBlock = 1
  FRT_BLOCK = 1
  Physical = {0, 1}
  Keys = {4, 5}
  BUTTON_DURATION = 200
  PERIOD = 100
  Pages = {0, 1}
  REPEAT = 3
  Profiles = {"VOLATCO-A", "VOLATCO-B", "board"}
  DefaultProfile = "VOLATCO-A"
  Port <- MCPort
  Fds = {3, 4}
  ReadLens = {2}
  MaxShells = 2
  MaxRx = 1
  HashOfName <- MCHashOfName
  MAX_SYMBOL_HASH = 2
  Word = 8
  Uint = 15
  Byte = 4
  MAX_HISTORY = 2
  Prints <- MCPrints
  Assignments <- MCAssignments
  Variables <- MCVariables
  MapFiles <- MCMapFiles
  MaxSymbols = 3
  MaxPrints = 3
  ByteValues = 16
  UintValues = 32
  Cells = 4
  ImageFiles <- MCImageFiles
CHECK_DEADLOCK FALSE
INVARIANTS
  FixedTopStays
  SwitchesFollowKeys
  ViewerIsCurrent
  SlotsAreConnections
  NoDescriptorLeak
  ExchangeExact
  AnswersExact
  AddressNames
  DamageConfined
PROPERTIES
  DiskImplementsStore
  SdImplementsStore
  SdCompletes
  ExchangeReturns
