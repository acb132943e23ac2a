SPECIFICATION Spec
CONSTANTS
  BUS_MAP_SIZE = 32
  MMU_PAGESIZE = 256
  MMU_PAGECOUNT = 4
  MMU_ADDR = 512
  CONSOLE_ADDR = 576
  DISK_ADDR = 640
  BOOT_ROM_ADDR = 704
  IO_ADDR = 992
  ROM2_ADDR = 960
  Machines = {"eon2"}
  Addrs <- MCAddrs
  Vals = {1, 7}
INVARIANT WordIsTwoBytes
