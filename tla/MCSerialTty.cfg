\* A host terminal behind the port: descriptors above 1.
SPECIFICATION FairSpec
CONSTANTS
  Byte = {1, 2}
  NoByte = NoByte
  Size = 3
  FinSelected = FALSE
  MaxHost = 1
  MaxArgs = 2
PROPERTIES
  HostBytesArrive
