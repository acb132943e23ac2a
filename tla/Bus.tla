-------------------------------- MODULE Bus ---------------------------------
(***************************************************************************)
(* The bus of src/src/machine.c: 128-byte bus maps that say which part of  *)
(* which device answers at an address, the accesses of the CPU, the loader *)
(* and the debugger that go through them, and the two memory management    *)
(* units whose registers are themselves behind them: that of the eon       *)
(* machine (machine.c), and the "small" one of eon2 (src/src/mmu.c) behind *)
(* an I/O expander (src/src/ioexpand.c).                                   *)
(*                                                                         *)
(* An access is modelled by where it goes, not by the byte it moves: an    *)
(* absolute address is the pair of a device number and an offset, which    *)
(* absolute_from_reladdr packs into one number.  Only stores to a memory   *)
(* management unit have an effect on the bus; what other devices do with a *)
(* byte is theirs.                                                         *)
(***************************************************************************)
EXTENDS Integers, Sequences

CONSTANTS
  BUS_MAP_SIZE, MMU_PAGESIZE, MMU_PAGECOUNT,
  MMU_ADDR, CONSOLE_ADDR, DISK_ADDR, BOOT_ROM_ADDR,   \* eon.h
  IO_ADDR,    \* 0xFF00: the console of simple and eon, the I/O of eon2
  ROM2_ADDR,  \* 0xF800: the ROM of eon2
  Machines,   \* names of machines to start
  Addrs,      \* addresses accessed, for each machine
  Vals        \* bytes stored

Unit == 0..(MMU_PAGECOUNT * MMU_PAGESIZE) \div BUS_MAP_SIZE - 1
Page == 0..MMU_PAGECOUNT - 1
MAX_CPU_ADDR == MMU_PAGECOUNT * MMU_PAGESIZE
Address == 0..MAX_CPU_ADDR - 1

\* The maps of one page.
PageUnits == MMU_PAGESIZE \div BUS_MAP_SIZE

ASSUME SizesAssumption ==
  /\ BUS_MAP_SIZE \in Nat \ {0}
  /\ MMU_PAGECOUNT \in 1..256   \* a page's number is a byte
  /\ MMU_PAGESIZE \in Nat \ {0} /\ MMU_PAGESIZE = PageUnits * BUS_MAP_SIZE
  /\ PageUnits > 4   \* mmu_reset_complete looks at map 4 of every page
ASSUME LayoutAssumption ==
  /\ \A a \in {MMU_ADDR, CONSOLE_ADDR, DISK_ADDR, BOOT_ROM_ADDR, IO_ADDR, ROM2_ADDR} :
       \E u \in Unit : a = u * BUS_MAP_SIZE
  /\ \A a \in {CONSOLE_ADDR, DISK_ADDR, BOOT_ROM_ADDR, IO_ADDR} : MMU_ADDR <= a
  /\ ROM2_ADDR <= IO_ADDR
ASSUME InputsAssumption ==
  /\ Machines \subseteq {"simple", "eon", "eon2"}
  /\ \A m \in Machines : Addrs[m] \subseteq Address
  /\ Vals \subseteq 0..255

MAP_READABLE  == 1
MAP_WRITABLE  == 2
MAP_READWRITE == 3
MAP_FIXED     == 4
MAP_IGNOREWRITE == 8
Has(flags, bit) == (flags \div bit) % 2 = 1

INVALID_DEVID == 255

VARIABLES
  machine,  \* the machine that was started
  bus,      \* maps, registers of the MMUs, cpu_running, the history "strayed"
  touched,  \* history: pages whose mapping the guest has programmed
  last      \* history: the last access

vars == <<machine, bus, touched, last>>

-----------------------------------------------------------------------------
(* Devices, in the order in which the machines attach them. *)

device_table(m) ==
  CASE m = "simple" -> <<"null", "ram", "console">>
    [] m = "eon"    -> <<"null", "mmu", "ram", "rom", "console", "disk">>
    [] m = "eon2"   -> <<"null", "ram", "small_mmu", "rom", "ioexpand", "serial", "disk",
                         "imux", "hostfile", "oscillator">>

device_count(m) == CASE m = "simple" -> 3 [] m = "eon" -> 6 [] m = "eon2" -> 10

class(m, devid) == device_table(m)[devid + 1]

-----------------------------------------------------------------------------
(* Bus maps. *)

Map(devid, offset, flags) == [devid |-> devid, offset |-> offset, flags |-> flags]

\* Addresses and lengths are rounded up to whole maps.
Units(n) == (n + BUS_MAP_SIZE - 1) \div BUS_MAP_SIZE

bus_map(maps, addr, devid, offset, len, flags) ==
  [u \in Unit |->
     IF u \in Units(addr)..(Units(addr) + Units(len) - 1) /\ ~Has(maps[u].flags, MAP_FIXED)
     THEN Map(devid, (Units(offset) + u - Units(addr)) * BUS_MAP_SIZE, flags)
     ELSE maps[u]]

find_map(b, addr) == b.maps[addr \div BUS_MAP_SIZE]

\* The device that answers: one that does not exist is the null device.
find_device(m, devid) == IF devid < device_count(m) THEN devid ELSE 0

phy_addr(b, addr) == find_map(b, addr).offset + (addr % BUS_MAP_SIZE)

to_absolute(b, addr) == <<find_map(b, addr).devid, phy_addr(b, addr)>>

-----------------------------------------------------------------------------
(* The MMU of eon: for each page a device, the 4 KB block of it that is    *)
(* mapped there, and the permissions, in four bytes of register space.     *)

MMU_PAGEREGS == 4

\* Mutant: the maps are made from the registers as they were.
mmu_write_stale(b, addr, val) ==
  LET page == (addr \div MMU_PAGEREGS) % MMU_PAGECOUNT
      r    == b.mmu_regs[page]
  IN  [b EXCEPT !.mmu_regs[page][addr % MMU_PAGEREGS] = val,
                !.maps = bus_map(@, page * MMU_PAGESIZE, r[0], r[1] * MMU_PAGESIZE,
                                 MMU_PAGESIZE, r[2] % 4)]

mmu_write(b, addr, val) ==
  LET page == (addr \div MMU_PAGEREGS) % MMU_PAGECOUNT
      r    == [b.mmu_regs[page] EXCEPT ![addr % MMU_PAGEREGS] = val]
  IN  [b EXCEPT !.mmu_regs[page] = r,
                !.maps = bus_map(@, page * MMU_PAGESIZE, r[0], r[1] * MMU_PAGESIZE,
                                 MMU_PAGESIZE, r[2] % 4)]

\* What the loop of mmu_reset leaves: every page is block 0 of device 0.
mmu_reset(b) ==
  [b EXCEPT !.mmu_regs = [p \in Page |-> [r \in 0..3 |-> IF r = 2 THEN MAP_READWRITE ELSE 0]],
            !.maps = [u \in Unit |-> Map(0, (u % PageUnits) * BUS_MAP_SIZE, MAP_READWRITE)]]

\* The registers are set from the fifth map of each page.
mmu_reset_complete(b) ==
  [b EXCEPT !.mmu_regs =
     [p \in Page |->
        LET map == b.maps[4 + p * PageUnits]
        IN  [r \in 0..3 |-> CASE r = 0 -> map.devid
                              [] r = 1 -> (map.offset \div MMU_PAGESIZE) % 256
                              [] r = 2 -> map.flags % 4
                              [] r = 3 -> b.mmu_regs[p][3]]]]

-----------------------------------------------------------------------------
(* The MMU of eon2 maps blocks of the RAM only: a slot is selected, then   *)
(* its block and its permissions are set.  Any byte selects: with a slot it *)
(* does not have, small_mmu_write stores outside slot_regs and bus_map      *)
(* outside busmaps.  C leaves that undefined; what the build does is that   *)
(* the maps land in the variables next to busmaps (default_busmaps, which   *)
(* only bus_unmap reads, or null_device and device_table), so that the      *)
(* machine goes on as it was or the simulator dies.  The first is modelled, *)
(* the second is a behaviour that ends there; "strayed" remembers it.       *)

SMR_SLOT  == 0
SMR_PAGE  == 6
SMR_FLAGS == 7
SmallRam  == 1   \* realdev->devid

\* The other global registers are stored and nothing reads them.
small_mmu_write(b, addr, val) ==
  LET slot == b.slot
      r    == [b.slot_regs[slot] EXCEPT !.page  = IF addr = SMR_PAGE THEN val ELSE @,
                                        !.flags = IF addr = SMR_FLAGS THEN val ELSE @]
  IN  CASE addr = SMR_SLOT -> [b EXCEPT !.slot = val]
        [] addr \in {SMR_PAGE, SMR_FLAGS} /\ slot \notin Page -> [b EXCEPT !.strayed = TRUE]
        [] addr \in {SMR_PAGE, SMR_FLAGS} /\ slot \in Page ->
             [b EXCEPT !.slot_regs[slot] = r,
                       !.maps = bus_map(@, slot * MMU_PAGESIZE, SmallRam,
                                        r.page * MMU_PAGESIZE, MMU_PAGESIZE, r.flags % 4)]
        [] OTHER -> b

\* What the loop of small_mmu_reset leaves: slot s shows block s.
small_mmu_reset(b) ==
  [b EXCEPT !.slot = MMU_PAGECOUNT - 1,
            !.slot_regs = [s \in Page |-> [page |-> s, flags |-> MAP_READWRITE]],
            !.maps = [u \in Unit |-> Map(SmallRam, u * BUS_MAP_SIZE, MAP_READWRITE)]]

-----------------------------------------------------------------------------
(* Accesses. *)

IO_WINDOW == 8

\* What the device does to the bus when val is stored at offset.
DeviceWrite(m, b, devid, offset, val) ==
  CASE class(m, devid) = "mmu" -> mmu_write(b, offset, val)
    [] class(m, devid) = "ioexpand" /\ offset \div IO_WINDOW = 2 ->
         small_mmu_write(b, offset % IO_WINDOW, val)
    [] OTHER -> b

\* "went" are the device bytes that were accessed, "told" the absolute address
\* the debugger's hook was given, "fault" that one was reported.
Access(op, addr, went, told, fault) ==
  [op |-> op, addr |-> addr, went |-> went, told |-> told, fault |-> fault]

Missing(m, b, addr) == b.cpu_running /\ find_map(b, addr).devid >= device_count(m)

\* Mutant: the hook is given the CPU's address.
cpu_write8_cpu_address(m, b, addr, val) ==
  LET map == find_map(b, addr)
      dev == find_device(m, map.devid)
      to  == phy_addr(b, addr)
      ok  == ~b.cpu_running \/ Has(map.flags, MAP_WRITABLE)
      c   == IF ok THEN DeviceWrite(m, b, dev, to, val) ELSE b
  IN  [bus |-> c,
       last |-> Access("store", addr, IF ok THEN <<dev, to>> ELSE <<>>,
                       <<find_map(c, addr).devid, addr>>, FALSE)]

\* The device is written first, and then the hook is given the device of the
\* map as it is by then.
cpu_write8(m, b, addr, val) ==
  LET map == find_map(b, addr)
      dev == find_device(m, map.devid)
      to  == phy_addr(b, addr)
      ok  == ~b.cpu_running \/ Has(map.flags, MAP_WRITABLE)
      c   == IF ok THEN DeviceWrite(m, b, dev, to, val) ELSE b
  IN  [bus |-> c,
       last |-> Access("store", addr, IF ok THEN <<dev, to>> ELSE <<>>,
                       <<find_map(c, addr).devid, to>>,
                       Missing(m, b, addr) \/ (~ok /\ ~Has(map.flags, MAP_IGNOREWRITE)))]

cpu_read8(m, b, addr) ==
  Access("byte", addr, <<find_device(m, find_map(b, addr).devid), phy_addr(b, addr)>>,
         to_absolute(b, addr),
         Missing(m, b, addr) \/ (b.cpu_running /\ ~Has(find_map(b, addr).flags, MAP_READABLE)))

\* Both bytes come from the map of the first, and the hook hears of one.
cpu_read16(m, b, addr) ==
  LET dev == find_device(m, find_map(b, addr).devid)
      from == phy_addr(b, addr)
  IN  [cpu_read8(m, b, addr) EXCEPT !.op = "word", !.went = <<dev, from, dev, from + 1>>]

-----------------------------------------------------------------------------
(* Machines. *)

Powered == [maps |-> [u \in Unit |-> Map(INVALID_DEVID, 0, 0)],
            mmu_regs |-> [p \in Page |-> [r \in 0..3 |-> 0]],
            slot |-> 0, slot_regs |-> [s \in Page |-> [page |-> 0, flags |-> 0]],
            cpu_running |-> FALSE, strayed |-> FALSE]

device_define(b, devid, addr, len, flags) ==
  [b EXCEPT !.maps = bus_map(@, addr, devid, 0, len, flags)]

simple_init(b) ==
  device_define(device_define(b, 1, 0, MAX_CPU_ADDR, MAP_READWRITE),
                2, IO_ADDR, BUS_MAP_SIZE, MAP_READWRITE)

\* Mutant: the MMU is mapped last, as an ordinary device.
eon_init_unfixed(b) ==
  LET ram  == device_define(mmu_reset(b), 2, 0, MAX_CPU_ADDR, MAP_READWRITE)
      rom  == device_define(ram, 3, BOOT_ROM_ADDR, MAX_CPU_ADDR - BOOT_ROM_ADDR, MAP_READABLE)
  IN  device_define(rom, 1, MMU_ADDR, BUS_MAP_SIZE, MAP_READWRITE)

eon_init(b) ==
  LET mmu  == device_define(mmu_reset(b), 1, MMU_ADDR, BUS_MAP_SIZE,
                            MAP_READWRITE + MAP_FIXED)
      ram  == device_define(mmu, 2, 0, MAX_CPU_ADDR, MAP_READWRITE)
      rom  == device_define(ram, 3, BOOT_ROM_ADDR, MAX_CPU_ADDR - BOOT_ROM_ADDR, MAP_READABLE)
      con  == device_define(rom, 4, CONSOLE_ADDR, BUS_MAP_SIZE, MAP_READWRITE)
      con2 == device_define(con, 4, IO_ADDR, BUS_MAP_SIZE, MAP_READWRITE)
  IN  device_define(con2, 5, DISK_ADDR, BUS_MAP_SIZE, MAP_READWRITE)

eon2_init(b) ==
  LET rom == device_define(small_mmu_reset(b), 3, ROM2_ADDR, MAX_CPU_ADDR - ROM2_ADDR,
                           MAP_READABLE)
  IN  device_define(rom, 4, IO_ADDR, BUS_MAP_SIZE, MAP_READWRITE)

machine_init(m) ==
  CASE m = "simple" -> simple_init(Powered)
    [] m = "eon"    -> mmu_reset_complete(eon_init(Powered))
    [] m = "eon2"   -> eon2_init(Powered)

Init ==
  /\ machine \in Machines
  /\ bus = machine_init(machine)
  /\ touched = {}
  /\ last = Access("none", 0, <<>>, <<>>, FALSE)

\* Pages whose registers a store changed or wrote again.
Programs(b, went) ==
  CASE went # <<>> /\ class(machine, went[1]) = "mmu" ->
         {(went[2] \div MMU_PAGEREGS) % MMU_PAGECOUNT}
    [] went # <<>> /\ class(machine, went[1]) = "ioexpand"
       /\ went[2] \in {2 * IO_WINDOW + SMR_PAGE, 2 * IO_WINDOW + SMR_FLAGS} -> {b.slot} \cap Page
    [] OTHER -> {}

\* A store of the guest or, before it runs, of the loader.
Store(addr, val) ==
  LET w == cpu_write8(machine, bus, addr, val)
  IN  /\ bus' = w.bus
      /\ last' = w.last
      /\ touched' = touched \cup Programs(bus, w.last.went)
      /\ UNCHANGED machine

ReadByte(addr) ==
  /\ last' = cpu_read8(machine, bus, addr)
  /\ UNCHANGED <<machine, bus, touched>>

\* imm_word and extended fetch the two bytes at PC.
ReadWord(addr) ==
  /\ last' = cpu_read16(machine, bus, addr)
  /\ UNCHANGED <<machine, bus, touched>>

\* An assignment at the debugger's prompt: abs_write8, for a device there is.
DebuggerStore(addr, val) ==
  LET to == to_absolute(bus, addr)
  IN  /\ to[1] < device_count(machine)
      /\ bus' = DeviceWrite(machine, bus, to[1], to[2], val)
      /\ last' = Access("debugger", addr, to, <<>>, FALSE)
      /\ touched' = touched \cup Programs(bus, to)
      /\ UNCHANGED machine

\* cpu_reset ends with cpu_is_running.
cpu_reset ==
  /\ last' = cpu_read16(machine, bus, MAX_CPU_ADDR - 2)
  /\ bus' = [bus EXCEPT !.cpu_running = TRUE]
  /\ UNCHANGED <<machine, touched>>

Next ==
  \/ \E addr \in Addrs[machine] :
       \/ ReadByte(addr)
       \/ ReadWord(addr)
       \/ \E val \in Vals : Store(addr, val) \/ DebuggerStore(addr, val)
  \/ cpu_reset

Spec == Init /\ [][Next]_vars

-----------------------------------------------------------------------------
(* Properties. *)

MapType == [devid : 0..255, offset : Nat, flags : 0..7]
BusType == [maps : [Unit -> MapType], mmu_regs : [Page -> [0..3 -> 0..255]],
            slot : 0..255, slot_regs : [Page -> [page : 0..255, flags : 0..255]],
            cpu_running : BOOLEAN, strayed : BOOLEAN]

\* The maps and the registers keep their ranges.
TypeOK ==
  /\ machine \in Machines
  /\ bus \in BusType
  /\ touched \subseteq Page

\* On eon no sequence of stores, not even to the registers of the page the MMU
\* is in, takes the MMU out of the guest's reach: bus_map leaves a fixed map.
MmuStaysMapped ==
  machine = "eon" =>
    LET map == bus.maps[MMU_ADDR \div BUS_MAP_SIZE]
    IN  map.devid = 1 /\ map.offset = 0 /\ map.flags % 4 = MAP_READWRITE

\* What an MMU's registers say of map u of page p.
Programmed(p, u) ==
  LET at == (u - p * PageUnits) * BUS_MAP_SIZE
  IN  IF machine = "eon"
      THEN Map(bus.mmu_regs[p][0], bus.mmu_regs[p][1] * MMU_PAGESIZE + at,
               bus.mmu_regs[p][2] % 4)
      ELSE Map(SmallRam, bus.slot_regs[p].page * MMU_PAGESIZE + at,
               bus.slot_regs[p].flags % 4)

\* The registers and the maps tell the same story, whatever sequence of
\* partial updates of the registers led there: every map of a page the guest
\* has programmed is what its registers say, but for fixed ones, and so is,
\* from the start, every page without a ROM or I/O in it.
MapsFollowRegs ==
  \A p \in Page, u \in Unit :
    (/\ machine \in {"eon", "eon2"}
     /\ u \div PageUnits = p /\ ~Has(bus.maps[u].flags, MAP_FIXED)
     /\ \/ p \in touched
        \/ (p + 1) * MMU_PAGESIZE <= (IF machine = "eon" THEN MMU_ADDR ELSE ROM2_ADDR))
    => bus.maps[u] = Programmed(p, u)

\* The store came through a map that it made another one of: on eon a map of the
\* MMU the guest made in the page it was programming, on eon2 the I/O's own.
RemappedItself ==
  LET p == last.addr \div MMU_PAGESIZE
  IN  p \in Programs(bus, last.went) /\ ~Has(find_map(bus, last.addr).flags, MAP_FIXED)

\* A watchpoint fires on the byte that was stored.  The hook is called after the
\* device and looks at the map again: it is given the address the store went to
\* unless the store remapped itself, which the fixed map of eon's MMU never
\* does.  (Device 0 also stands in for devices that are not there.)
HookNamesTarget ==
  last.op = "store" /\ last.went # <<>> =>
    last.told = last.went \/ last.went[1] = 0 \/ RemappedItself

\* Where the byte at addr is.
Reach(addr) == LET a == addr % MAX_CPU_ADDR
               IN  <<find_device(machine, find_map(bus, a).devid), phy_addr(bus, a)>>

\* A 16-bit fetch delivers the two bytes that two 8-bit reads would.
WordIsTwoBytes ==
  last.op = "word" => last.went = Reach(last.addr) \o Reach(last.addr + 1)
=============================================================================
