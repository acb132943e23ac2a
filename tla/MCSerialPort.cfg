\* stdin and stdout behind the port.
SPECIFICATION FairSpec
CONSTANTS
  Byte = {1, 2}
  NoByte = NoByte
  Size = 3
  FinSelected = TRUE
  MaxHost = 2
  MaxArgs = 2
INVARIANTS
  NoPhantomByte
PROPERTIES
  ImplementsFifo
  HostBytesArrive
