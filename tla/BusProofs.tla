----------------------------- MODULE BusProofs ------------------------------
(***************************************************************************)
(* Proofs about Bus for every size of maps and pages, every layout of the  *)
(* machines that is aligned to maps, and every store.                      *)
(***************************************************************************)
EXTENDS Bus, TLAPS

\* A whole number of maps is that number of maps.
LEMMA RoundExact ==
  ASSUME NEW m \in Nat \ {0}, NEW k \in Nat
  PROVE  (k * m + m - 1) \div m = k
  <1> DEFINE x == k * m + m - 1
             q == x \div m
  <1>0. k * m \in Nat /\ x \in Nat
    OBVIOUS
  <1>1. q \in Nat /\ m * q <= x /\ x < m * q + m
    <2> HIDE DEF x
    <2>1. x \in Nat
      BY <1>0
    <2>2. x = m * (x \div m) + (x % m) /\ x % m \in 0..(m - 1) /\ x \div m \in Nat
      BY <2>1
    <2> QED BY <2>1, <2>2
  <1> HIDE DEF q
  <1>2. CASE q < k
    <2>1. m * (q + 1) <= m * k
      BY <1>1, <1>2
    <2> QED BY <1>0, <1>1, <2>1
  <1>3. CASE q > k
    <2>1. m * q >= m * (k + 1)
      BY <1>1, <1>3
    <2> QED BY <1>0, <1>1, <2>1
  <1> QED BY <1>1, <1>2, <1>3 DEF q

\* An address below k * m is in one of the first k blocks of m.
LEMMA DivBelow ==
  ASSUME NEW m \in Nat \ {0}, NEW k \in Nat, NEW x \in Nat, x < k * m
  PROVE  x \div m \in Nat /\ x \div m < k
  <1> DEFINE q == x \div m
  <1>1. x = m * q + (x % m) /\ x % m \in 0..(m - 1) /\ q \in Nat
    OBVIOUS
  <1> HIDE DEF q
  <1>2. ASSUME q >= k PROVE FALSE
    <2>1. m * q >= m * k
      BY <1>1, <1>2
    <2> QED BY <1>1, <2>1
  <1> QED BY <1>1, <1>2 DEF q

LEMMA DivExact ==
  ASSUME NEW m \in Nat \ {0}, NEW k \in Nat
  PROVE  (k * m) \div m = k
  <1> DEFINE x == k * m
             q == x \div m
  <1>0. x \in Nat
    OBVIOUS
  <1>1. x = m * q + (x % m) /\ x % m \in 0..(m - 1) /\ q \in Nat
    <2> HIDE DEF x
    <2> QED BY <1>0
  <1> HIDE DEF q
  <1>2. CASE q < k
    <2>1. m * (q + 1) <= m * k
      BY <1>1, <1>2
    <2> QED BY <1>0, <1>1, <2>1
  <1>3. CASE q > k
    <2>1. m * q >= m * (k + 1)
      BY <1>1, <1>3
    <2> QED BY <1>0, <1>1, <2>1
  <1> QED BY <1>1, <1>2, <1>3 DEF q

-----------------------------------------------------------------------------
(* Sizes. *)

LEMMA UnitCount ==
  /\ PageUnits \in Nat \ {0}
  /\ MAX_CPU_ADDR = (MMU_PAGECOUNT * PageUnits) * BUS_MAP_SIZE
  /\ MAX_CPU_ADDR \in Nat
  /\ Unit = 0..(MMU_PAGECOUNT * PageUnits - 1)
  <1>1. PageUnits \in Nat \ {0}
    BY SizesAssumption DEF PageUnits
  <1> DEFINE k == MMU_PAGECOUNT * PageUnits
  <1>2. k \in Nat
    BY <1>1, SizesAssumption
  <1>3. MMU_PAGECOUNT * MMU_PAGESIZE = k * BUS_MAP_SIZE
    <2>1. MMU_PAGESIZE = PageUnits * BUS_MAP_SIZE
      BY SizesAssumption
    <2> HIDE DEF PageUnits
    <2> QED BY <1>1, <2>1, SizesAssumption
  <1>4. (k * BUS_MAP_SIZE) \div BUS_MAP_SIZE = k
    <2> HIDE DEF k
    <2> QED BY <1>2, DivExact, SizesAssumption
  <1>5. k * BUS_MAP_SIZE \in Nat
    <2> HIDE DEF k
    <2> QED BY <1>2, SizesAssumption
  <1> QED BY <1>1, <1>3, <1>4, <1>5 DEF Unit, MAX_CPU_ADDR

\* find_map stays within the table.
LEMMA AddressUnit ==
  ASSUME NEW a \in Address
  PROVE  a \div BUS_MAP_SIZE \in Unit
  <1> DEFINE k == MMU_PAGECOUNT * PageUnits
  <1>1. k \in Nat /\ a \in Nat /\ a < k * BUS_MAP_SIZE
    BY UnitCount, SizesAssumption DEF Address
  <1>2. a \div BUS_MAP_SIZE \in Nat /\ a \div BUS_MAP_SIZE < k
    <2> HIDE DEF k
    <2> QED BY <1>1, DivBelow, SizesAssumption
  <1> QED BY <1>1, <1>2, UnitCount

LEMMA UnitsNat ==
  ASSUME NEW n \in Nat
  PROVE  Units(n) \in Nat
  BY SizesAssumption DEF Units

\* An aligned address is the map it says.
LEMMA UnitsExact ==
  ASSUME NEW k \in Nat
  PROVE  Units(k * BUS_MAP_SIZE) = k
  BY RoundExact, SizesAssumption DEF Units

-----------------------------------------------------------------------------
(* Bus maps. *)

LEMMA BusMapTyped ==
  ASSUME NEW maps \in [Unit -> MapType], NEW addr \in Nat, NEW devid \in 0..255,
         NEW offset \in Nat, NEW len \in Nat, NEW flags \in 0..7
  PROVE  bus_map(maps, addr, devid, offset, len, flags) \in [Unit -> MapType]
  <1> DEFINE a == Units(addr)  o == Units(offset)  n == Units(len)
  <1>1. a \in Nat /\ o \in Nat /\ n \in Nat
    BY UnitsNat
  <1>2. Unit \subseteq Nat
    BY UnitCount, SizesAssumption
  <1> HIDE DEF a, o, n
  <1>3. ASSUME NEW u \in Unit, u \in a..(a + n - 1)
        PROVE  Map(devid, (o + u - a) * BUS_MAP_SIZE, flags) \in MapType
    <2>1. o + u - a \in Nat
      BY <1>1, <1>2, <1>3
    <2>2. (o + u - a) * BUS_MAP_SIZE \in Nat
      <3> DEFINE d == o + u - a
      <3> HIDE DEF d
      <3>1. d \in Nat
        BY <2>1 DEF d
      <3>2. d * BUS_MAP_SIZE \in Nat
        BY <3>1, SizesAssumption
      <3> QED BY <3>2 DEF d
    <2> QED BY <2>2 DEF Map, MapType
  <1>4. bus_map(maps, addr, devid, offset, len, flags) =
          [u \in Unit |-> IF u \in a..(a + n - 1) /\ ~Has(maps[u].flags, MAP_FIXED)
                          THEN Map(devid, (o + u - a) * BUS_MAP_SIZE, flags) ELSE maps[u]]
    BY DEF bus_map, a, o, n
  <1> QED BY <1>3, <1>4

\* "A fixed map cannot be reprogrammed."
LEMMA BusMapKeepsFixed ==
  ASSUME NEW maps, NEW addr, NEW devid, NEW offset, NEW len, NEW flags, NEW u \in Unit,
         Has(maps[u].flags, MAP_FIXED)
  PROVE  bus_map(maps, addr, devid, offset, len, flags)[u] = maps[u]
  BY DEF bus_map

MmuUnit == MMU_ADDR \div BUS_MAP_SIZE

\* What every operation keeps: the types, and on eon the fixed map of the MMU.
Good(m, b) ==
  /\ b \in BusType
  /\ m = "eon" => b.maps[MmuUnit] = Map(1, 0, 7)

LEMMA MmuUnitAligned ==
  MmuUnit \in Unit /\ MMU_ADDR = MmuUnit * BUS_MAP_SIZE
  <1> PICK k \in Unit : MMU_ADDR = k * BUS_MAP_SIZE
    BY LayoutAssumption
  <1>1. k \in Nat
    BY UnitCount, SizesAssumption
  <1>2. (k * BUS_MAP_SIZE) \div BUS_MAP_SIZE = k
    BY <1>1, DivExact, SizesAssumption
  <1> QED BY <1>2 DEF MmuUnit

LEMMA FixedMap == Has(Map(1, 0, 7).flags, MAP_FIXED)
  BY DEF Has, Map, MAP_FIXED

\* Reprogramming keeps the MMU's map.
LEMMA RemapKeepsMmu ==
  ASSUME NEW m, NEW b, Good(m, b), m = "eon",
         NEW addr, NEW devid, NEW offset, NEW len, NEW flags
  PROVE  bus_map(b.maps, addr, devid, offset, len, flags)[MmuUnit] = Map(1, 0, 7)
  <1>1. b.maps[MmuUnit] = Map(1, 0, 7)
    BY DEF Good
  <1>2. Has(b.maps[MmuUnit].flags, MAP_FIXED)
    BY <1>1, FixedMap
  <1> QED BY <1>1, <1>2, MmuUnitAligned, BusMapKeepsFixed

-----------------------------------------------------------------------------
(* Stores to the two MMUs. *)

LEMMA MmuWriteGood ==
  ASSUME NEW m, NEW b, Good(m, b), NEW addr \in Nat, NEW val \in 0..255
  PROVE  Good(m, mmu_write(b, addr, val))
  <1> DEFINE page == (addr \div MMU_PAGEREGS) % MMU_PAGECOUNT
             reg  == addr % MMU_PAGEREGS
             r    == [b.mmu_regs[page] EXCEPT ![reg] = val]
             maps == bus_map(b.maps, page * MMU_PAGESIZE, r[0], r[1] * MMU_PAGESIZE,
                             MMU_PAGESIZE, r[2] % 4)
  <1>1. page \in Page /\ page \in Nat /\ reg \in 0..3
    BY SizesAssumption DEF Page, MMU_PAGEREGS
  <1>2. b \in BusType
    BY DEF Good
  <1>3. r \in [0..3 -> 0..255]
    <2>1. b.mmu_regs[page] \in [0..3 -> 0..255]
      BY <1>1, <1>2 DEF BusType
    <2> HIDE DEF page, reg
    <2> QED BY <1>1, <2>1, SMTT(60)
  <1> HIDE DEF page, reg, r
  <1>4. /\ r[0] \in 0..255 /\ r[1] * MMU_PAGESIZE \in Nat /\ r[2] % 4 \in 0..7
        /\ page * MMU_PAGESIZE \in Nat /\ MMU_PAGESIZE \in Nat
    <2>1. r[0] \in 0..255 /\ r[1] \in Nat /\ r[2] \in Nat
      BY <1>3
    <2> QED BY <1>1, <2>1, SizesAssumption
  <1>5. maps \in [Unit -> MapType] /\ (m = "eon" => maps[MmuUnit] = Map(1, 0, 7))
    <2> DEFINE at == page * MMU_PAGESIZE  dev == r[0]  off == r[1] * MMU_PAGESIZE
               flg == r[2] % 4
    <2>1. at \in Nat /\ dev \in 0..255 /\ off \in Nat /\ flg \in 0..7 /\ MMU_PAGESIZE \in Nat
      BY <1>4
    <2> HIDE DEF at, dev, off, flg
    <2>2. b.maps \in [Unit -> MapType]
      BY <1>2 DEF BusType
    <2>3. bus_map(b.maps, at, dev, off, MMU_PAGESIZE, flg) \in [Unit -> MapType]
      BY <2>1, <2>2, BusMapTyped
    <2>4. m = "eon" => bus_map(b.maps, at, dev, off, MMU_PAGESIZE, flg)[MmuUnit] = Map(1, 0, 7)
      BY RemapKeepsMmu
    <2> QED BY <2>3, <2>4 DEF at, dev, off, flg
  <1>6. mmu_write(b, addr, val) = [b EXCEPT !.mmu_regs[page] = r, !.maps = maps]
    BY <1>2 DEF mmu_write, page, reg, r, BusType
  <1> HIDE DEF maps
  <1>7. [b EXCEPT !.mmu_regs[page] = r, !.maps = maps] \in BusType
    BY <1>1, <1>2, <1>3, <1>5, ZenonT(60) DEF BusType
  <1>8. [b EXCEPT !.mmu_regs[page] = r, !.maps = maps].maps = maps
    BY <1>2 DEF BusType
  <1> QED BY <1>5, <1>6, <1>7, <1>8 DEF Good

LEMMA SmallMmuWriteGood ==
  ASSUME NEW m, NEW b, Good(m, b), NEW addr \in Nat, NEW val \in 0..255
  PROVE  Good(m, small_mmu_write(b, addr, val))
  <1>0. b \in BusType
    BY DEF Good
  <1>1. CASE addr = SMR_SLOT
    <2>1. small_mmu_write(b, addr, val) = [b EXCEPT !.slot = val]
      BY <1>1 DEF small_mmu_write, SMR_SLOT, SMR_PAGE, SMR_FLAGS
    <2> QED BY <1>0, <1>1, <2>1 DEF Good, BusType
  <1>4. CASE addr \in {SMR_PAGE, SMR_FLAGS} /\ b.slot \notin Page
    <2>1. small_mmu_write(b, addr, val) = [b EXCEPT !.strayed = TRUE]
      BY <1>4 DEF small_mmu_write, SMR_SLOT, SMR_PAGE, SMR_FLAGS
    <2>2. [b EXCEPT !.strayed = TRUE] \in BusType
      BY <1>0, ZenonT(60) DEF BusType
    <2>3. [b EXCEPT !.strayed = TRUE].maps = b.maps
      BY <1>0 DEF BusType
    <2> QED BY <2>1, <2>2, <2>3 DEF Good
  <1>2. CASE addr \in {SMR_PAGE, SMR_FLAGS} /\ b.slot \in Page
    <2> DEFINE slot == b.slot
               r == [b.slot_regs[slot] EXCEPT !.page  = IF addr = SMR_PAGE THEN val ELSE @,
                                              !.flags = IF addr = SMR_FLAGS THEN val ELSE @]
               maps == bus_map(b.maps, slot * MMU_PAGESIZE, SmallRam,
                               r.page * MMU_PAGESIZE, MMU_PAGESIZE, r.flags % 4)
    <2>1. slot \in Page /\ slot \in Nat
      BY <1>2, SizesAssumption DEF Page
    <2>2. r \in [page : 0..255, flags : 0..255]
      <3>1. b.slot_regs[slot] \in [page : 0..255, flags : 0..255]
        BY <1>0, <2>1 DEF BusType
      <3> HIDE DEF slot
      <3> QED BY <3>1
    <2>3. small_mmu_write(b, addr, val) = [b EXCEPT !.slot_regs[slot] = r, !.maps = maps]
      BY <1>0, <1>2 DEF small_mmu_write, SMR_SLOT, SMR_PAGE, SMR_FLAGS, BusType
    <2> HIDE DEF slot, r
    <2>4. /\ SmallRam \in 0..255 /\ r.page * MMU_PAGESIZE \in Nat /\ r.flags % 4 \in 0..7
          /\ slot * MMU_PAGESIZE \in Nat /\ MMU_PAGESIZE \in Nat
      <3>1. r.page \in Nat /\ r.flags \in Nat
        BY <2>2
      <3> QED BY <2>1, <3>1, SizesAssumption DEF SmallRam
    <2>5. maps \in [Unit -> MapType] /\ (m = "eon" => maps[MmuUnit] = Map(1, 0, 7))
      <3> DEFINE at == slot * MMU_PAGESIZE  off == r.page * MMU_PAGESIZE  flg == r.flags % 4
      <3>1. /\ at \in Nat /\ SmallRam \in 0..255 /\ off \in Nat /\ flg \in 0..7
            /\ MMU_PAGESIZE \in Nat
        BY <2>4
      <3> HIDE DEF at, off, flg
      <3>2. b.maps \in [Unit -> MapType]
        BY <1>0 DEF BusType
      <3>3. bus_map(b.maps, at, SmallRam, off, MMU_PAGESIZE, flg) \in [Unit -> MapType]
        BY <3>1, <3>2, BusMapTyped
      <3>4. m = "eon" => bus_map(b.maps, at, SmallRam, off, MMU_PAGESIZE, flg)[MmuUnit]
                          = Map(1, 0, 7)
        BY RemapKeepsMmu
      <3> QED BY <3>3, <3>4 DEF at, off, flg
    <2> HIDE DEF maps
    <2>6. [b EXCEPT !.slot_regs[slot] = r, !.maps = maps] \in BusType
      BY <1>0, <2>1, <2>2, <2>5, ZenonT(60) DEF BusType
    <2>7. [b EXCEPT !.slot_regs[slot] = r, !.maps = maps].maps = maps
      BY <1>0 DEF BusType
    <2> QED BY <2>3, <2>5, <2>6, <2>7 DEF Good
  <1>3. CASE addr # SMR_SLOT /\ addr \notin {SMR_PAGE, SMR_FLAGS}
    <2>1. small_mmu_write(b, addr, val) = b
      BY <1>3 DEF small_mmu_write
    <2> QED BY <2>1
  <1> QED BY <1>1, <1>2, <1>3, <1>4

LEMMA DeviceWriteGood ==
  ASSUME NEW m, NEW b, Good(m, b), NEW devid, NEW offset \in Nat, NEW val \in 0..255
  PROVE  Good(m, DeviceWrite(m, b, devid, offset, val))
  <1> DEFINE c == class(m, devid)
  <1>1. CASE c = "mmu"
    <2>1. DeviceWrite(m, b, devid, offset, val) = mmu_write(b, offset, val)
      BY <1>1 DEF DeviceWrite
    <2> QED BY <2>1, MmuWriteGood
  <1>2. CASE c = "ioexpand" /\ offset \div IO_WINDOW = 2
    <2>1. DeviceWrite(m, b, devid, offset, val) = small_mmu_write(b, offset % IO_WINDOW, val)
      BY <1>2 DEF DeviceWrite
    <2>2. offset % IO_WINDOW \in Nat
      BY DEF IO_WINDOW
    <2> QED BY <2>1, <2>2, SmallMmuWriteGood
  <1>3. CASE c # "mmu" /\ ~(c = "ioexpand" /\ offset \div IO_WINDOW = 2)
    <2>1. DeviceWrite(m, b, devid, offset, val) = b
      BY <1>3 DEF DeviceWrite
    <2> QED BY <2>1
  <1> QED BY <1>1, <1>2, <1>3

-----------------------------------------------------------------------------
(* The machines as they start. *)

\* Every address of the layout is one, and what is above it has a length.
LEMMA Layout ==
  ASSUME NEW a \in {MMU_ADDR, CONSOLE_ADDR, DISK_ADDR, BOOT_ROM_ADDR, IO_ADDR, ROM2_ADDR}
  PROVE  a \in Nat /\ MAX_CPU_ADDR - a \in Nat
  <1> PICK u \in Unit : a = u * BUS_MAP_SIZE
    BY LayoutAssumption
  <1> DEFINE k == MMU_PAGECOUNT * PageUnits
  <1>1. k \in Nat /\ u \in Nat /\ u < k /\ MAX_CPU_ADDR = k * BUS_MAP_SIZE
    BY UnitCount, SizesAssumption
  <1> HIDE DEF k
  <1>2. u * BUS_MAP_SIZE \in Nat /\ k * BUS_MAP_SIZE \in Nat
    BY <1>1, SizesAssumption
  <1>3. u * BUS_MAP_SIZE <= k * BUS_MAP_SIZE
    BY <1>1, SizesAssumption
  <1> QED BY <1>1, <1>2, <1>3

LEMMA DefineTyped ==
  ASSUME NEW b \in BusType, NEW devid \in 0..255, NEW addr \in Nat, NEW len \in Nat,
         NEW flags \in 0..7
  PROVE  device_define(b, devid, addr, len, flags) \in BusType
  <1> DEFINE maps == bus_map(b.maps, addr, devid, 0, len, flags)
  <1>1. maps \in [Unit -> MapType]
    BY BusMapTyped DEF BusType
  <1>2. device_define(b, devid, addr, len, flags) = [b EXCEPT !.maps = maps]
    BY DEF device_define
  <1> HIDE DEF maps
  <1> QED BY <1>1, <1>2 DEF BusType

\* Attaching another device keeps what is good.
LEMMA DefineGood ==
  ASSUME NEW m, NEW b, Good(m, b), NEW devid \in 0..255, NEW addr \in Nat, NEW len \in Nat,
         NEW flags \in 0..7
  PROVE  Good(m, device_define(b, devid, addr, len, flags))
  <1>1. b \in BusType
    BY DEF Good
  <1>2. device_define(b, devid, addr, len, flags) \in BusType
    BY <1>1, DefineTyped
  <1>3. device_define(b, devid, addr, len, flags).maps = bus_map(b.maps, addr, devid, 0, len, flags)
    BY <1>1 DEF device_define, BusType
  <1>4. m = "eon" => bus_map(b.maps, addr, devid, 0, len, flags)[MmuUnit] = Map(1, 0, 7)
    BY RemapKeepsMmu
  <1> QED BY <1>2, <1>3, <1>4 DEF Good

\* Maps made from one function of their number.
LEMMA MapsTyped ==
  ASSUME NEW d \in 0..255, NEW f \in [Unit -> Nat]
  PROVE  [u \in Unit |-> Map(d, f[u] * BUS_MAP_SIZE, MAP_READWRITE)] \in [Unit -> MapType]
  <1>1. ASSUME NEW u \in Unit
        PROVE  Map(d, f[u] * BUS_MAP_SIZE, MAP_READWRITE) \in MapType
    <2>1. f[u] * BUS_MAP_SIZE \in Nat
      BY SizesAssumption
    <2> QED BY <2>1 DEF Map, MapType, MAP_READWRITE
  <1> QED BY <1>1

LEMMA PoweredTyped == Powered \in BusType
  BY SizesAssumption DEF Powered, BusType, MapType, Map, INVALID_DEVID, Page

LEMMA MmuResetTyped ==
  /\ mmu_reset(Powered) \in BusType
  /\ \A u \in Unit : ~Has(mmu_reset(Powered).maps[u].flags, MAP_FIXED)
  <1> DEFINE f == [u \in Unit |-> u % PageUnits]
             maps == [u \in Unit |-> Map(0, f[u] * BUS_MAP_SIZE, MAP_READWRITE)]
             regs == [p \in Page |-> [r \in 0..3 |-> IF r = 2 THEN MAP_READWRITE ELSE 0]]
  <1>1. f \in [Unit -> Nat]
    <2>1. Unit \subseteq Nat /\ PageUnits \in Nat \ {0}
      BY UnitCount, SizesAssumption
    <2> QED BY <2>1
  <1>2. maps \in [Unit -> MapType]
    <2> HIDE DEF f
    <2> QED BY <1>1, MapsTyped
  <1>3. regs \in [Page -> [0..3 -> 0..255]]
    BY DEF MAP_READWRITE
  <1>4. mmu_reset(Powered) = [Powered EXCEPT !.mmu_regs = regs, !.maps = maps]
    BY DEF mmu_reset
  <1>5. \A u \in Unit : ~Has(maps[u].flags, MAP_FIXED)
    BY DEF Map, MAP_READWRITE, MAP_FIXED, Has
  <1> HIDE DEF f, maps, regs
  <1> DEFINE b == Powered  c == [b EXCEPT !.mmu_regs = regs, !.maps = maps]
  <1> HIDE DEF b
  <1>6. b \in BusType
    BY PoweredTyped DEF b
  <1>7. c \in BusType /\ c.maps = maps
    BY <1>2, <1>3, <1>6 DEF BusType
  <1> QED BY <1>4, <1>5, <1>7 DEF b

LEMMA SmallMmuResetTyped == small_mmu_reset(Powered) \in BusType
  <1> DEFINE f == [u \in Unit |-> u]
             maps == [u \in Unit |-> Map(SmallRam, f[u] * BUS_MAP_SIZE, MAP_READWRITE)]
             regs == [s \in Page |-> [page |-> s, flags |-> MAP_READWRITE]]
  <1>1. f \in [Unit -> Nat]
    BY UnitCount, SizesAssumption
  <1>2. maps \in [Unit -> MapType]
    <2> HIDE DEF f
    <2> QED BY <1>1, MapsTyped DEF SmallRam
  <1>3. regs \in [Page -> [page : 0..255, flags : 0..255]]
    BY SizesAssumption DEF MAP_READWRITE, Page
  <1>4. small_mmu_reset(Powered) =
          [Powered EXCEPT !.slot = MMU_PAGECOUNT - 1, !.slot_regs = regs, !.maps = maps]
    BY DEF small_mmu_reset
  <1>5. MMU_PAGECOUNT - 1 \in 0..255
    BY SizesAssumption
  <1> HIDE DEF f, maps, regs
  <1> DEFINE b == Powered
             c == [b EXCEPT !.slot = MMU_PAGECOUNT - 1, !.slot_regs = regs, !.maps = maps]
  <1> HIDE DEF b
  <1>6. b \in BusType
    BY PoweredTyped DEF b
  <1>7. c \in BusType
    BY <1>2, <1>3, <1>5, <1>6, ZenonT(60) DEF BusType
  <1> QED BY <1>4, <1>7 DEF b

\* The MMU is the first device eon maps, where no map is fixed.
LEMMA MmuMapped ==
  Good("eon", device_define(mmu_reset(Powered), 1, MMU_ADDR, BUS_MAP_SIZE,
                            MAP_READWRITE + MAP_FIXED))
  <1> DEFINE b == mmu_reset(Powered)
             maps == bus_map(b.maps, MMU_ADDR, 1, 0, BUS_MAP_SIZE, MAP_READWRITE + MAP_FIXED)
  <1>1. b \in BusType /\ \A u \in Unit : ~Has(b.maps[u].flags, MAP_FIXED)
    BY MmuResetTyped
  <1> HIDE DEF b
  <1>2. MMU_ADDR \in Nat /\ BUS_MAP_SIZE \in Nat /\ MAP_READWRITE + MAP_FIXED = 7
    BY Layout, SizesAssumption DEF MAP_READWRITE, MAP_FIXED
  <1>3. device_define(b, 1, MMU_ADDR, BUS_MAP_SIZE, MAP_READWRITE + MAP_FIXED) \in BusType
    BY <1>1, <1>2, DefineTyped
  <1>4. device_define(b, 1, MMU_ADDR, BUS_MAP_SIZE, MAP_READWRITE + MAP_FIXED).maps = maps
    BY <1>1 DEF device_define, BusType
  <1>5. Units(MMU_ADDR) = MmuUnit /\ Units(BUS_MAP_SIZE) = 1 /\ Units(0) = 0 /\ MmuUnit \in Nat
    <2>1. MmuUnit \in Nat
      BY MmuUnitAligned, UnitCount, SizesAssumption
    <2>2. Units(MmuUnit * BUS_MAP_SIZE) = MmuUnit
      BY <2>1, UnitsExact
    <2>3. Units(1 * BUS_MAP_SIZE) = 1 /\ Units(0 * BUS_MAP_SIZE) = 0
      BY UnitsExact
    <2>4. 1 * BUS_MAP_SIZE = BUS_MAP_SIZE /\ 0 * BUS_MAP_SIZE = 0
      BY SizesAssumption
    <2> QED BY <2>1, <2>2, <2>3, <2>4, MmuUnitAligned
  <1>6. maps[MmuUnit] = Map(1, (0 + MmuUnit - MmuUnit) * BUS_MAP_SIZE, 7)
    BY <1>1, <1>2, <1>5, MmuUnitAligned DEF bus_map
  <1>7. (0 + MmuUnit - MmuUnit) * BUS_MAP_SIZE = 0
    <2>1. 0 + MmuUnit - MmuUnit = 0
      BY <1>5
    <2> QED BY <2>1, SizesAssumption
  <1> QED BY <1>3, <1>4, <1>6, <1>7 DEF Good, b

LEMMA MmuResetCompleteGood ==
  ASSUME NEW m, NEW b, Good(m, b)
  PROVE  Good(m, mmu_reset_complete(b))
  <1> DEFINE R(p) == LET map == b.maps[4 + p * PageUnits]
                     IN  [r \in 0..3 |-> CASE r = 0 -> map.devid
                                           [] r = 1 -> (map.offset \div MMU_PAGESIZE) % 256
                                           [] r = 2 -> map.flags % 4
                                           [] r = 3 -> b.mmu_regs[p][3]]
             regs == [p \in Page |-> R(p)]
  <1>1. b \in BusType
    BY DEF Good
  <1>2. ASSUME NEW p \in Page
        PROVE  R(p) \in [0..3 -> 0..255]
    <2> DEFINE u == 4 + p * PageUnits
    <2>1. u \in Unit
      <3> DEFINE n == MMU_PAGECOUNT  k == PageUnits
      <3>1. n \in Nat /\ k \in Nat /\ k > 4 /\ p \in Nat /\ p + 1 <= n /\ Unit = 0..(n * k - 1)
        BY UnitCount, SizesAssumption DEF Page
      <3> HIDE DEF n, k
      <3>2. (p + 1) * k <= n * k /\ (p + 1) * k = p * k + k /\ p * k \in Nat /\ n * k \in Nat
        BY <3>1
      <3>3. 4 + p * k \in Unit
        BY <3>1, <3>2
      <3> QED BY <3>3 DEF k
    <2> HIDE DEF u
    <2> DEFINE map == b.maps[u]
    <2>2. map \in MapType
      BY <1>1, <2>1 DEF BusType
    <2> HIDE DEF map
    <2>3. /\ map.devid \in 0..255 /\ map.flags % 4 \in 0..255
          /\ (map.offset \div MMU_PAGESIZE) % 256 \in 0..255
      <3>1. map.offset \in Nat /\ map.flags \in 0..7 /\ map.devid \in 0..255
        BY <2>2 DEF MapType
      <3>2. map.offset \div MMU_PAGESIZE \in Nat
        BY <3>1, SizesAssumption
      <3> QED BY <3>1, <3>2
    <2>4. b.mmu_regs[p][3] \in 0..255
      BY <1>1 DEF BusType
    <2>5. [r \in 0..3 |-> CASE r = 0 -> map.devid
                            [] r = 1 -> (map.offset \div MMU_PAGESIZE) % 256
                            [] r = 2 -> map.flags % 4
                            [] r = 3 -> b.mmu_regs[p][3]] \in [0..3 -> 0..255]
      <3>1. ASSUME NEW r \in 0..3
            PROVE  (CASE r = 0 -> map.devid
                      [] r = 1 -> (map.offset \div MMU_PAGESIZE) % 256
                      [] r = 2 -> map.flags % 4
                      [] r = 3 -> b.mmu_regs[p][3]) \in 0..255
        <4>1. r = 0 \/ r = 1 \/ r = 2 \/ r = 3
          OBVIOUS
        <4>2. CASE r = 0
          BY <2>3, <4>2
        <4>3. CASE r = 1
          BY <2>3, <4>3
        <4>4. CASE r = 2
          BY <2>3, <4>4
        <4>5. CASE r = 3
          BY <2>4, <4>5
        <4> QED BY <4>1, <4>2, <4>3, <4>4, <4>5
      <3> QED BY <3>1, ZenonT(60)
    <2> QED BY <2>5 DEF map, u
  <1>3. mmu_reset_complete(b) = [b EXCEPT !.mmu_regs = regs]
    BY DEF mmu_reset_complete
  <1>4. regs \in [Page -> [0..3 -> 0..255]]
    BY <1>2
  <1> HIDE DEF regs
  <1>5. [b EXCEPT !.mmu_regs = regs] \in BusType /\ [b EXCEPT !.mmu_regs = regs].maps = b.maps
    BY <1>1, <1>4, ZenonT(60) DEF BusType
  <1> QED BY <1>3, <1>5 DEF Good

LEMMA InitGood ==
  ASSUME NEW m \in {"simple", "eon", "eon2"}
  PROVE  Good(m, machine_init(m))
  <1>0. /\ MAX_CPU_ADDR \in Nat /\ BUS_MAP_SIZE \in Nat
        /\ CONSOLE_ADDR \in Nat /\ DISK_ADDR \in Nat /\ IO_ADDR \in Nat
        /\ BOOT_ROM_ADDR \in Nat /\ MAX_CPU_ADDR - BOOT_ROM_ADDR \in Nat
        /\ ROM2_ADDR \in Nat /\ MAX_CPU_ADDR - ROM2_ADDR \in Nat
        /\ MAP_READWRITE \in 0..7 /\ MAP_READABLE \in 0..7
        /\ 0 \in Nat /\ 1 \in 0..255 /\ 2 \in 0..255 /\ 3 \in 0..255 /\ 4 \in 0..255
        /\ 5 \in 0..255
    BY Layout, UnitCount, SizesAssumption DEF MAP_READWRITE, MAP_READABLE
  <1>1. CASE m = "simple"
    <2> DEFINE ram == device_define(Powered, 1, 0, MAX_CPU_ADDR, MAP_READWRITE)
               con == device_define(ram, 2, IO_ADDR, BUS_MAP_SIZE, MAP_READWRITE)
    <2>1. Good(m, Powered)
      BY <1>1, PoweredTyped DEF Good
    <2>2. Good(m, ram)
      BY <1>0, <2>1, DefineGood
    <2> HIDE DEF ram
    <2>3. Good(m, con)
      BY <1>0, <2>2, DefineGood
    <2>4. machine_init(m) = con
      BY <1>1 DEF machine_init, simple_init, ram
    <2> QED BY <2>3, <2>4
  <1>2. CASE m = "eon"
    <2> DEFINE mmu  == device_define(mmu_reset(Powered), 1, MMU_ADDR, BUS_MAP_SIZE,
                                     MAP_READWRITE + MAP_FIXED)
               ram  == device_define(mmu, 2, 0, MAX_CPU_ADDR, MAP_READWRITE)
               rom  == device_define(ram, 3, BOOT_ROM_ADDR, MAX_CPU_ADDR - BOOT_ROM_ADDR,
                                     MAP_READABLE)
               con  == device_define(rom, 4, CONSOLE_ADDR, BUS_MAP_SIZE, MAP_READWRITE)
               con2 == device_define(con, 4, IO_ADDR, BUS_MAP_SIZE, MAP_READWRITE)
               disk == device_define(con2, 5, DISK_ADDR, BUS_MAP_SIZE, MAP_READWRITE)
    <2>1. Good(m, mmu)
      BY <1>2, MmuMapped
    <2>2. machine_init(m) = mmu_reset_complete(disk)
      BY <1>2 DEF machine_init, eon_init
    <2> HIDE DEF mmu
    <2>3. Good(m, ram)
      BY <1>0, <2>1, DefineGood
    <2> HIDE DEF ram
    <2>4. Good(m, rom)
      BY <1>0, <2>3, DefineGood
    <2> HIDE DEF rom
    <2>5. Good(m, con)
      BY <1>0, <2>4, DefineGood
    <2> HIDE DEF con
    <2>6. Good(m, con2)
      BY <1>0, <2>5, DefineGood
    <2> HIDE DEF con2
    <2>7. Good(m, disk)
      BY <1>0, <2>6, DefineGood
    <2> HIDE DEF disk
    <2> QED BY <2>2, <2>7, MmuResetCompleteGood
  <1>3. CASE m = "eon2"
    <2> DEFINE ram == small_mmu_reset(Powered)
               rom == device_define(ram, 3, ROM2_ADDR, MAX_CPU_ADDR - ROM2_ADDR, MAP_READABLE)
               io  == device_define(rom, 4, IO_ADDR, BUS_MAP_SIZE, MAP_READWRITE)
    <2>1. Good(m, ram)
      BY <1>3, SmallMmuResetTyped DEF Good
    <2>2. machine_init(m) = io
      BY <1>3 DEF machine_init, eon2_init
    <2> HIDE DEF ram
    <2>3. Good(m, rom)
      BY <1>0, <2>1, DefineGood
    <2> HIDE DEF rom
    <2>4. Good(m, io)
      BY <1>0, <2>3, DefineGood
    <2> QED BY <2>2, <2>4
  <1> QED BY <1>1, <1>2, <1>3

-----------------------------------------------------------------------------
(* The inductive invariant, and the theorems. *)

Inv ==
  /\ machine \in Machines
  /\ Good(machine, bus)
  /\ touched \subseteq Page

\* Where an access of the CPU ends up.
LEMMA PhysicalNat ==
  ASSUME Inv, NEW addr \in Address
  PROVE  phy_addr(bus, addr) \in Nat
  <1>1. addr \div BUS_MAP_SIZE \in Unit
    BY AddressUnit
  <1>2. find_map(bus, addr).offset \in Nat
    BY <1>1 DEF Inv, Good, BusType, MapType, find_map
  <1>3. addr % BUS_MAP_SIZE \in Nat
    BY UnitCount, SizesAssumption DEF Address
  <1> QED BY <1>2, <1>3 DEF phy_addr

\* The pages a store programs are pages.
LEMMA ProgramsPages ==
  ASSUME Inv, NEW went, went # <<>> => went[2] \in Nat
  PROVE  Programs(bus, went) \subseteq Page
  <1>2. ASSUME NEW x \in Nat
        PROVE  (x \div MMU_PAGEREGS) % MMU_PAGECOUNT \in Page
    <2>1. x \div MMU_PAGEREGS \in Nat
      BY DEF MMU_PAGEREGS
    <2> QED BY <2>1, SizesAssumption DEF Page
  <1> QED BY <1>2 DEF Programs

LEMMA StoreInv ==
  ASSUME Inv, NEW addr \in Address, NEW val \in 0..255, Store(addr, val)
  PROVE  Inv'
  <1> DEFINE map == find_map(bus, addr)
             dev == find_device(machine, map.devid)
             to  == phy_addr(bus, addr)
             ok  == ~bus.cpu_running \/ Has(map.flags, MAP_WRITABLE)
             c   == DeviceWrite(machine, bus, dev, to, val)
             went == IF ok THEN <<dev, to>> ELSE <<>>
  <1>1. to \in Nat
    BY PhysicalNat
  <1>2. /\ bus' = IF ok THEN c ELSE bus
        /\ touched' = touched \cup Programs(bus, went)
        /\ machine' = machine
    BY DEF Store, cpu_write8, Access
  <1> HIDE DEF dev, to
  <1>3. Programs(bus, went) \subseteq Page
    BY <1>1, ProgramsPages
  <1>4. ASSUME ok
        PROVE  Good(machine, c)
    <2>1. Good(machine, bus)
      BY DEF Inv
    <2> QED BY <1>1, <2>1, DeviceWriteGood
  <1> HIDE DEF ok, c, went
  <1>5. Good(machine, bus')
    BY <1>2, <1>4 DEF Inv
  <1> QED BY <1>2, <1>3, <1>5 DEF Inv, Good, BusType, MapType

LEMMA DebuggerStoreInv ==
  ASSUME Inv, NEW addr \in Address, NEW val \in 0..255, DebuggerStore(addr, val)
  PROVE  Inv'
  <1> DEFINE dev == find_map(bus, addr).devid
             to  == phy_addr(bus, addr)
             c   == DeviceWrite(machine, bus, dev, to, val)
  <1>1. to \in Nat
    BY PhysicalNat
  <1>2. /\ bus' = c /\ machine' = machine
        /\ touched' = touched \cup Programs(bus, <<dev, to>>)
    BY DEF DebuggerStore, to_absolute
  <1> HIDE DEF dev, to
  <1>3. Programs(bus, <<dev, to>>) \subseteq Page
    BY <1>1, ProgramsPages
  <1>5. Good(machine, bus) /\ machine \in Machines /\ touched \subseteq Page
    BY DEF Inv
  <1>6. Good(machine, c)
    BY <1>1, <1>5, DeviceWriteGood
  <1> HIDE DEF c
  <1> QED BY <1>2, <1>3, <1>5, <1>6 DEF Inv, Good, BusType, MapType

LEMMA CpuResetInv ==
  ASSUME Inv, cpu_reset
  PROVE  Inv'
  <1>1. bus' = [bus EXCEPT !.cpu_running = TRUE] /\ UNCHANGED <<machine, touched>>
    BY DEF cpu_reset
  <1>2. bus \in BusType
    BY DEF Inv, Good
  <1>3. bus' \in BusType /\ bus'.maps = bus.maps
    BY <1>1, <1>2, ZenonT(60) DEF BusType
  <1> QED BY <1>1, <1>3 DEF Inv, Good, BusType, MapType

LEMMA NextInv == Inv /\ [Next]_vars => Inv'
  <1> SUFFICES ASSUME Inv, [Next]_vars
               PROVE  Inv'
    OBVIOUS
  <1>1. Addrs[machine] \subseteq Address /\ Vals \subseteq 0..255
    BY InputsAssumption DEF Inv
  <1>2. ASSUME NEW addr \in Addrs[machine], ReadByte(addr) \/ ReadWord(addr)
        PROVE  Inv'
    BY <1>2 DEF ReadByte, ReadWord, Inv, Good
  <1>3. ASSUME NEW addr \in Addrs[machine], NEW val \in Vals, Store(addr, val)
        PROVE  Inv'
    BY <1>1, <1>3, StoreInv
  <1>4. ASSUME NEW addr \in Addrs[machine], NEW val \in Vals, DebuggerStore(addr, val)
        PROVE  Inv'
    BY <1>1, <1>4, DebuggerStoreInv
  <1>5. CASE cpu_reset
    BY <1>5, CpuResetInv
  <1>6. CASE UNCHANGED vars
    BY <1>6 DEF vars, Inv, Good
  <1> QED BY <1>2, <1>3, <1>4, <1>5, <1>6 DEF Next

LEMMA InitInv == Init => Inv
  BY InitGood, InputsAssumption DEF Init, Inv

LEMMA SpecInv == Spec => []Inv
  BY InitInv, NextInv, PTL DEF Spec

\* The maps and the registers of both MMUs keep their ranges, whatever the guest
\* and the debugger store, those stores included that select a slot there is
\* not.
THEOREM TypeCorrect == Spec => []TypeOK
  <1>1. Inv => TypeOK
    BY DEF Inv, Good, TypeOK
  <1> QED BY <1>1, SpecInv, PTL

\* On eon the MMU stays where it is, readable and writable, for every sequence
\* of stores: bus_map leaves the fixed map device_define made of it.
THEOREM MmuReachable == Spec => []MmuStaysMapped
  <1>1. Inv => MmuStaysMapped
    BY DEF Inv, Good, MmuStaysMapped, MmuUnit, Map, MAP_READWRITE
  <1> QED BY <1>1, SpecInv, PTL

-----------------------------------------------------------------------------
(* The maps follow the registers. *)

\* The maps of page p are p * PageUnits and those after it.
LEMMA DivMeans ==
  ASSUME NEW k \in Nat \ {0}, NEW x \in Nat, NEW q \in Nat
  PROVE  x \div k = q <=> (q * k <= x /\ x < q * k + k)
  <1> DEFINE d == x \div k
  <1>1. x = k * d + (x % k) /\ x % k \in 0..(k - 1) /\ d \in Nat
    OBVIOUS
  <1> HIDE DEF d
  <1>2. d * k <= x /\ x < d * k + k /\ d * k \in Nat /\ q * k \in Nat
    BY <1>1
  <1>3. CASE d < q
    <2>1. (d + 1) * k <= q * k /\ (d + 1) * k = d * k + k
      BY <1>1, <1>3
    <2> QED BY <1>2, <1>3, <2>1 DEF d
  <1>4. CASE d > q
    <2>1. (q + 1) * k <= d * k /\ (q + 1) * k = q * k + k
      BY <1>1, <1>4
    <2> QED BY <1>2, <1>4, <2>1 DEF d
  <1> QED BY <1>1, <1>2, <1>3, <1>4 DEF d

\* What MMU_PAGESIZE is in maps.
LEMMA PageSize ==
  ASSUME NEW n \in Nat
  PROVE  /\ n * MMU_PAGESIZE = (n * PageUnits) * BUS_MAP_SIZE
         /\ n * PageUnits \in Nat
         /\ Units(n * MMU_PAGESIZE) = n * PageUnits
         /\ Units(MMU_PAGESIZE) = PageUnits
  <1> DEFINE k == PageUnits
  <1>1. k \in Nat \ {0} /\ MMU_PAGESIZE = k * BUS_MAP_SIZE /\ BUS_MAP_SIZE \in Nat \ {0}
    BY UnitCount, SizesAssumption
  <1> HIDE DEF k
  <1>2. n * k \in Nat /\ n * MMU_PAGESIZE = (n * k) * BUS_MAP_SIZE
    BY <1>1
  <1>3. Units((n * k) * BUS_MAP_SIZE) = n * k /\ Units(k * BUS_MAP_SIZE) = k
    BY <1>1, <1>2, UnitsExact
  <1> QED BY <1>1, <1>2, <1>3 DEF k

Fixed(b, u) == Has(b.maps[u].flags, MAP_FIXED)

\* What the registers say of map u of page p: Programmed, for any bus.
Says(m, b, p, u) ==
  LET at == (u - p * PageUnits) * BUS_MAP_SIZE
  IN  IF m = "eon"
      THEN Map(b.mmu_regs[p][0], b.mmu_regs[p][1] * MMU_PAGESIZE + at, b.mmu_regs[p][2] % 4)
      ELSE Map(SmallRam, b.slot_regs[p].page * MMU_PAGESIZE + at, b.slot_regs[p].flags % 4)

\* Page p has nothing but RAM in it when the machine starts.
Plain(m, p) == (p + 1) * MMU_PAGESIZE <= (IF m = "eon" THEN MMU_ADDR ELSE ROM2_ADDR)

Follows(m, b, t) ==
  m \in {"eon", "eon2"} =>
    \A p \in Page, u \in Unit :
      (u \div PageUnits = p /\ ~Fixed(b, u) /\ (p \in t \/ Plain(m, p)))
      => b.maps[u] = Says(m, b, p, u)

\* What bus_map does to the map of one page, and to the others.
LEMMA PageMapped ==
  ASSUME NEW maps, NEW q \in Page, NEW devid, NEW blk \in Nat, NEW flags,
         NEW u \in Unit
  PROVE  bus_map(maps, q * MMU_PAGESIZE, devid, blk * MMU_PAGESIZE, MMU_PAGESIZE, flags)[u] =
           IF u \div PageUnits = q /\ ~Has(maps[u].flags, MAP_FIXED)
           THEN Map(devid, blk * MMU_PAGESIZE + (u - q * PageUnits) * BUS_MAP_SIZE, flags)
           ELSE maps[u]
  <1> DEFINE k == PageUnits
  <1>0. u \in Nat /\ q \in Nat /\ k \in Nat \ {0} /\ BUS_MAP_SIZE \in Nat
    BY UnitCount, SizesAssumption DEF Page
  <1>1. /\ Units(q * MMU_PAGESIZE) = q * k /\ Units(blk * MMU_PAGESIZE) = blk * k
        /\ Units(MMU_PAGESIZE) = k /\ q * k \in Nat /\ blk * k \in Nat
        /\ blk * MMU_PAGESIZE = (blk * k) * BUS_MAP_SIZE
    BY <1>0, PageSize
  <1>2. u \div k = q <=> (q * k <= u /\ u < q * k + k)
    <2> HIDE DEF k
    <2> QED BY <1>0, DivMeans
  <1>3. bus_map(maps, q * MMU_PAGESIZE, devid, blk * MMU_PAGESIZE, MMU_PAGESIZE, flags)[u] =
          IF u \in (q * k)..(q * k + k - 1) /\ ~Has(maps[u].flags, MAP_FIXED)
          THEN Map(devid, (blk * k + u - q * k) * BUS_MAP_SIZE, flags)
          ELSE maps[u]
    BY <1>1 DEF bus_map
  <1> HIDE DEF k
  <1> DEFINE x == q * k  y == blk * k
  <1>4. u \in x..(x + k - 1) <=> (x <= u /\ u < x + k)
    <2> HIDE DEF x
    <2>1. x \in Nat
      BY <1>1 DEF x
    <2> QED BY <1>0, <2>1
  <1>5. (y + u - x) * BUS_MAP_SIZE = y * BUS_MAP_SIZE + (u - x) * BUS_MAP_SIZE
    <2> HIDE DEF x, y
    <2>1. x \in Nat /\ y \in Nat
      BY <1>1 DEF x, y
    <2> QED BY <1>0, <2>1
  <1>6. (y + u - x) * BUS_MAP_SIZE = blk * MMU_PAGESIZE + (u - x) * BUS_MAP_SIZE
    BY <1>1, <1>5
  <1> QED BY <1>2, <1>3, <1>4, <1>6 DEF k

LEMMA NotFixed ==
  ASSUME NEW n \in Nat
  PROVE  n % 4 \in 0..3 /\ ~Has(n % 4, MAP_FIXED)
  <1> DEFINE f == n % 4
  <1>1. f \in 0..3
    OBVIOUS
  <1> HIDE DEF f
  <1>2. ~Has(f, MAP_FIXED)
    BY <1>1 DEF Has, MAP_FIXED
  <1> QED BY <1>1, <1>2 DEF f

\* A map after one page of it was programmed: what a store to either MMU does.
Reprogrammed(b, c, q, devid, blk, flags) ==
  \A u \in Unit : c.maps[u] =
    IF u \div PageUnits = q /\ ~Fixed(b, u)
    THEN Map(devid, blk * MMU_PAGESIZE + (u - q * PageUnits) * BUS_MAP_SIZE, flags)
    ELSE b.maps[u]

\* A store to a register of eon's MMU, in terms of the page it is of.
LEMMA MmuWriteMeans ==
  ASSUME NEW b \in BusType, NEW addr \in Nat, NEW val \in 0..255
  PROVE  LET q == (addr \div MMU_PAGEREGS) % MMU_PAGECOUNT
             c == mmu_write(b, addr, val)
         IN  /\ q \in Page
             /\ Reprogrammed(b, c, q, c.mmu_regs[q][0], c.mmu_regs[q][1], c.mmu_regs[q][2] % 4)
             /\ c.mmu_regs[q][0] \in Nat /\ c.mmu_regs[q][1] \in Nat /\ c.mmu_regs[q][2] \in Nat
             /\ \A p \in Page : p # q => c.mmu_regs[p] = b.mmu_regs[p]
             /\ c.slot = b.slot
  <1> DEFINE page == (addr \div MMU_PAGEREGS) % MMU_PAGECOUNT
             reg  == addr % MMU_PAGEREGS
             r    == [b.mmu_regs[page] EXCEPT ![reg] = val]
             maps == bus_map(b.maps, page * MMU_PAGESIZE, r[0], r[1] * MMU_PAGESIZE,
                             MMU_PAGESIZE, r[2] % 4)
             c    == mmu_write(b, addr, val)
  <1>1. page \in Page /\ reg \in 0..3
    BY SizesAssumption DEF Page, MMU_PAGEREGS
  <1>2. c = [b EXCEPT !.mmu_regs[page] = r, !.maps = maps]
    BY DEF mmu_write, BusType
  <1>3. r \in [0..3 -> 0..255]
    <2>1. b.mmu_regs[page] \in [0..3 -> 0..255]
      BY <1>1 DEF BusType
    <2> HIDE DEF page, reg
    <2> QED BY <1>1, <2>1, SMTT(60)
  <1> HIDE DEF page, reg, r
  <1>4. r[0] \in Nat /\ r[1] \in Nat /\ r[2] \in Nat
    BY <1>3
  <1>5. ASSUME NEW u \in Unit
        PROVE  maps[u] = IF u \div PageUnits = page /\ ~Fixed(b, u)
                         THEN Map(r[0], r[1] * MMU_PAGESIZE + (u - page * PageUnits) * BUS_MAP_SIZE,
                                  r[2] % 4)
                         ELSE b.maps[u]
    BY <1>1, <1>4, PageMapped DEF Fixed
  <1> HIDE DEF maps, c
  <1>6. /\ c.maps = maps /\ c.mmu_regs[page] = r /\ c.slot = b.slot
        /\ \A p \in Page : p # page => c.mmu_regs[p] = b.mmu_regs[p]
    BY <1>1, <1>2 DEF BusType
  <1>7. Reprogrammed(b, c, page, c.mmu_regs[page][0], c.mmu_regs[page][1], c.mmu_regs[page][2] % 4)
    BY <1>5, <1>6 DEF Reprogrammed
  <1> QED BY <1>1, <1>4, <1>6, <1>7 DEF page, c

\* The same for a store of eon2's MMU to the page or the flags of its slot.
LEMMA SmallMmuWriteMeans ==
  ASSUME NEW b \in BusType, b.slot \in Page, NEW addr \in {SMR_PAGE, SMR_FLAGS}, NEW val \in 0..255
  PROVE  LET c == small_mmu_write(b, addr, val)
             q == b.slot
         IN  /\ Reprogrammed(b, c, q, SmallRam, c.slot_regs[q].page, c.slot_regs[q].flags % 4)
             /\ c.slot_regs[q].page \in Nat /\ c.slot_regs[q].flags \in Nat
             /\ \A p \in Page : p # q => c.slot_regs[p] = b.slot_regs[p]
             /\ c.slot = q
  <1> DEFINE q == b.slot
             r == [b.slot_regs[q] EXCEPT !.page  = IF addr = SMR_PAGE THEN val ELSE @,
                                         !.flags = IF addr = SMR_FLAGS THEN val ELSE @]
             maps == bus_map(b.maps, q * MMU_PAGESIZE, SmallRam,
                             r.page * MMU_PAGESIZE, MMU_PAGESIZE, r.flags % 4)
             c == small_mmu_write(b, addr, val)
  <1>1. q \in Page
    OBVIOUS
  <1>2. r \in [page : 0..255, flags : 0..255]
    <2>1. b.slot_regs[q] \in [page : 0..255, flags : 0..255]
      BY <1>1 DEF BusType
    <2> HIDE DEF q
    <2> QED BY <2>1
  <1>3. c = [b EXCEPT !.slot_regs[q] = r, !.maps = maps]
    BY <1>1 DEF small_mmu_write, SMR_SLOT, SMR_PAGE, SMR_FLAGS, BusType
  <1> HIDE DEF r
  <1>4. r.page \in Nat /\ r.flags \in Nat
    BY <1>2
  <1>5. ASSUME NEW u \in Unit
        PROVE  maps[u] = IF u \div PageUnits = q /\ ~Fixed(b, u)
                         THEN Map(SmallRam, r.page * MMU_PAGESIZE + (u - q * PageUnits) * BUS_MAP_SIZE,
                                  r.flags % 4)
                         ELSE b.maps[u]
    BY <1>1, <1>4, PageMapped DEF Fixed
  <1> HIDE DEF maps, c
  <1>6. /\ c.maps = maps /\ c.slot_regs[q] = r /\ c.slot = q
        /\ \A p \in Page : p # q => c.slot_regs[p] = b.slot_regs[p]
    BY <1>1, <1>3 DEF BusType
  <1>7. Reprogrammed(b, c, q, SmallRam, c.slot_regs[q].page, c.slot_regs[q].flags % 4)
    BY <1>5, <1>6 DEF Reprogrammed
  <1> QED BY <1>1, <1>4, <1>6, <1>7 DEF q, c

\* So the page follows its registers from then on, and the others still do.
LEMMA MmuWriteFollows ==
  ASSUME NEW b \in BusType, NEW t, Follows("eon", b, t), NEW addr \in Nat, NEW val \in 0..255
  PROVE  Follows("eon", mmu_write(b, addr, val), t \cup {(addr \div MMU_PAGEREGS) % MMU_PAGECOUNT})
  <1> DEFINE q == (addr \div MMU_PAGEREGS) % MMU_PAGECOUNT
             c == mmu_write(b, addr, val)
  <1>1. /\ q \in Page
        /\ Reprogrammed(b, c, q, c.mmu_regs[q][0], c.mmu_regs[q][1], c.mmu_regs[q][2] % 4)
        /\ \A p \in Page : p # q => c.mmu_regs[p] = b.mmu_regs[p]
    BY MmuWriteMeans, ZenonT(60)
  <1> HIDE DEF q, c
  <1>2. ASSUME NEW p \in Page, NEW u \in Unit, u \div PageUnits = p, ~Fixed(c, u),
               p \in t \cup {q} \/ Plain("eon", p)
        PROVE  c.maps[u] = Says("eon", c, p, u)
    <2>1. CASE p = q
      <3>1. ~Fixed(b, u)
        BY <1>1, <1>2 DEF Reprogrammed, Fixed
      <3> QED BY <1>1, <1>2, <2>1, <3>1 DEF Reprogrammed, Says
    <2>2. CASE p # q
      <3>1. c.maps[u] = b.maps[u] /\ c.mmu_regs[p] = b.mmu_regs[p]
        BY <1>1, <1>2, <2>2 DEF Reprogrammed
      <3>2. b.maps[u] = Says("eon", b, p, u)
        BY <1>2, <2>2, <3>1 DEF Follows, Fixed
      <3> QED BY <3>1, <3>2 DEF Says
    <2> QED BY <2>1, <2>2
  <1> QED BY <1>2, SMTT(60) DEF Follows, q, c

LEMMA SmallMmuWriteFollows ==
  ASSUME NEW b \in BusType, NEW t, Follows("eon2", b, t), b.slot \in Page,
         NEW addr \in {SMR_PAGE, SMR_FLAGS}, NEW val \in 0..255
  PROVE  Follows("eon2", small_mmu_write(b, addr, val), t \cup {b.slot})
  <1> DEFINE q == b.slot
             c == small_mmu_write(b, addr, val)
  <1>1. /\ q \in Page
        /\ Reprogrammed(b, c, q, SmallRam, c.slot_regs[q].page, c.slot_regs[q].flags % 4)
        /\ \A p \in Page : p # q => c.slot_regs[p] = b.slot_regs[p]
    BY SmallMmuWriteMeans, ZenonT(60)
  <1> HIDE DEF q, c
  <1>2. ASSUME NEW p \in Page, NEW u \in Unit, u \div PageUnits = p, ~Fixed(c, u),
               p \in t \cup {q} \/ Plain("eon2", p)
        PROVE  c.maps[u] = Says("eon2", c, p, u)
    <2>1. CASE p = q
      <3>1. ~Fixed(b, u)
        BY <1>1, <1>2 DEF Reprogrammed, Fixed
      <3> QED BY <1>1, <1>2, <2>1, <3>1 DEF Reprogrammed, Says
    <2>2. CASE p # q
      <3>1. c.maps[u] = b.maps[u] /\ c.slot_regs[p] = b.slot_regs[p]
        BY <1>1, <1>2, <2>2 DEF Reprogrammed
      <3>2. b.maps[u] = Says("eon2", b, p, u)
        BY <1>2, <2>2, <3>1 DEF Follows, Fixed
      <3> QED BY <3>1, <3>2 DEF Says
    <2> QED BY <2>1, <2>2
  <1> QED BY <1>2 DEF Follows, q, c

\* Registers of the slots and maps alone matter.
LEMMA SameFollows ==
  ASSUME NEW m, NEW b, NEW c, NEW t, Follows(m, b, t),
         c.maps = b.maps, c.mmu_regs = b.mmu_regs, c.slot_regs = b.slot_regs
  PROVE  Follows(m, c, t)
  BY DEF Follows, Fixed, Says

\* Devices of eon are not those of eon2.
LEMMA OwnMmu ==
  ASSUME NEW d \in Nat
  PROVE  /\ d < device_count("eon") => class("eon", d) # "ioexpand"
         /\ d < device_count("eon2") => class("eon2", d) # "mmu"
  <1>1. ASSUME d < 6 PROVE class("eon", d) # "ioexpand"
    <2>1. d = 0 \/ d = 1 \/ d = 2 \/ d = 3 \/ d = 4 \/ d = 5
      BY <1>1
    <2> QED BY <2>1 DEF class, device_table
  <1>2. ASSUME d < 10 PROVE class("eon2", d) # "mmu"
    <2>1. d = 0 \/ d = 1 \/ d = 2 \/ d = 3 \/ d = 4 \/ d = 5 \/ d = 6 \/ d = 7 \/ d = 8 \/ d = 9
      BY <1>2
    <2> QED BY <2>1 DEF class, device_table
  <1> QED BY <1>1, <1>2 DEF device_count

LEMMA WindowRegs ==
  ASSUME NEW to \in Nat, to \div IO_WINDOW = 2
  PROVE  /\ to \in {2 * IO_WINDOW + SMR_PAGE, 2 * IO_WINDOW + SMR_FLAGS}
              <=> to % IO_WINDOW \in {SMR_PAGE, SMR_FLAGS}
         /\ to = 2 * IO_WINDOW + SMR_SLOT <=> to % IO_WINDOW = SMR_SLOT
  BY DEF IO_WINDOW, SMR_PAGE, SMR_FLAGS, SMR_SLOT

\* What a store to any device does to the maps: nothing, or it programs the one
\* page that Programs names.
LEMMA DeviceWriteMeans ==
  ASSUME Inv, NEW d \in Nat, d < device_count(machine), NEW to \in Nat, NEW val \in 0..255
  PROVE  LET c == DeviceWrite(machine, bus, d, to, val)
         IN  \/ c.maps = bus.maps
             \/ \E q \in Page, devid \in Nat, blk \in Nat, n \in Nat :
                  /\ Reprogrammed(bus, c, q, devid, blk, n % 4)
                  /\ Programs(bus, <<d, to>>) = {q} /\ Programs(c, <<d, to>>) = {q}
  <1> DEFINE c == DeviceWrite(machine, bus, d, to, val)
             k == class(machine, d)
  <1>0. bus \in BusType
    BY DEF Inv, Good
  <1>1. CASE k = "mmu"
    <2> DEFINE q == (to \div MMU_PAGEREGS) % MMU_PAGECOUNT
    <2>1. c = mmu_write(bus, to, val)
      BY <1>1 DEF DeviceWrite
    <2>2. Programs(bus, <<d, to>>) = {q} /\ Programs(c, <<d, to>>) = {q}
      BY <1>1 DEF Programs
    <2>3. /\ q \in Page
          /\ c.mmu_regs[q][0] \in Nat /\ c.mmu_regs[q][1] \in Nat /\ c.mmu_regs[q][2] \in Nat
          /\ Reprogrammed(bus, c, q, c.mmu_regs[q][0], c.mmu_regs[q][1], c.mmu_regs[q][2] % 4)
      BY <1>0, <2>1, MmuWriteMeans, ZenonT(60)
    <2> HIDE DEF c, q
    <2>4. \E p \in Page, devid \in Nat, blk \in Nat, n \in Nat :
            /\ Reprogrammed(bus, c, p, devid, blk, n % 4)
            /\ Programs(bus, <<d, to>>) = {p} /\ Programs(c, <<d, to>>) = {p}
      BY <2>2, <2>3
    <2> QED BY <2>4 DEF c
  <1>2. CASE /\ k = "ioexpand" /\ to \div IO_WINDOW = 2
             /\ to % IO_WINDOW \in {SMR_PAGE, SMR_FLAGS} /\ bus.slot \in Page
    <2> DEFINE q == bus.slot
    <2>1. c = small_mmu_write(bus, to % IO_WINDOW, val)
      BY <1>2 DEF DeviceWrite
    <2>3. /\ q \in Page /\ c.slot_regs[q].page \in Nat /\ c.slot_regs[q].flags \in Nat
          /\ Reprogrammed(bus, c, q, SmallRam, c.slot_regs[q].page, c.slot_regs[q].flags % 4)
          /\ c.slot = q
      <3> DEFINE a == to % IO_WINDOW
      <3>1. a \in {SMR_PAGE, SMR_FLAGS} /\ c = small_mmu_write(bus, a, val)
        BY <1>2, <2>1
      <3> HIDE DEF a, c
      <3> QED BY <1>0, <1>2, <3>1, SmallMmuWriteMeans, ZenonT(60)
    <2>2. Programs(bus, <<d, to>>) = {q} /\ Programs(c, <<d, to>>) = {q}
      <3> HIDE DEF c
      <3> QED BY <1>2, <2>3, WindowRegs DEF Programs
    <2> HIDE DEF c, q
    <2>5. SmallRam \in Nat
      BY DEF SmallRam
    <2>4. \E p \in Page, devid \in Nat, blk \in Nat, n \in Nat :
            /\ Reprogrammed(bus, c, p, devid, blk, n % 4)
            /\ Programs(bus, <<d, to>>) = {p} /\ Programs(c, <<d, to>>) = {p}
      BY <2>2, <2>3, <2>5
    <2> QED BY <2>4 DEF c
  <1>3. CASE /\ k = "ioexpand" /\ to \div IO_WINDOW = 2
             /\ (to % IO_WINDOW \notin {SMR_PAGE, SMR_FLAGS} \/ bus.slot \notin Page)
    <2>1. c = small_mmu_write(bus, to % IO_WINDOW, val)
      BY <1>3 DEF DeviceWrite
    <2>2. c \in {[bus EXCEPT !.slot = val], [bus EXCEPT !.strayed = TRUE], bus}
      BY <1>3, <2>1 DEF small_mmu_write
    <2> HIDE DEF c
    <2>3. c.maps = bus.maps
      BY <1>0, <2>2 DEF BusType
    <2> QED BY <2>3 DEF c
  <1>4. CASE k # "mmu" /\ ~(k = "ioexpand" /\ to \div IO_WINDOW = 2)
    BY <1>4 DEF DeviceWrite
  <1> QED BY <1>1, <1>2, <1>3, <1>4

LEMMA DeviceWriteFollows ==
  ASSUME Inv, Follows(machine, bus, touched), NEW d \in Nat, d < device_count(machine),
         NEW to \in Nat, NEW val \in 0..255
  PROVE  Follows(machine, DeviceWrite(machine, bus, d, to, val),
                 touched \cup Programs(bus, <<d, to>>))
  <1> DEFINE c == DeviceWrite(machine, bus, d, to, val)
             k == class(machine, d)
             t == touched \cup Programs(bus, <<d, to>>)
  <1>0. bus \in BusType /\ machine \in {"simple", "eon", "eon2"}
    BY InputsAssumption DEF Inv, Good
  <1>1. CASE machine = "simple"
    BY <1>1 DEF Follows
  <1>2. CASE machine = "eon" /\ k = "mmu"
    <2>1. c = mmu_write(bus, to, val)
      BY <1>2 DEF DeviceWrite
    <2>2. t = touched \cup {(to \div MMU_PAGEREGS) % MMU_PAGECOUNT}
      BY <1>2 DEF Programs
    <2> QED BY <1>0, <1>2, <2>1, <2>2, MmuWriteFollows
  <1>3. CASE machine = "eon" /\ k # "mmu"
    <2>1. k # "ioexpand"
      BY <1>3, OwnMmu
    <2>2. c = bus /\ t = touched
      BY <1>3, <2>1 DEF DeviceWrite, Programs
    <2> QED BY <2>2
  <1>4. CASE machine = "eon2" /\ k = "ioexpand" /\ to \div IO_WINDOW = 2
                              /\ to % IO_WINDOW \in {SMR_PAGE, SMR_FLAGS} /\ bus.slot \in Page
    <2>1. c = small_mmu_write(bus, to % IO_WINDOW, val)
      BY <1>4 DEF DeviceWrite
    <2>2. t = touched \cup {bus.slot}
      BY <1>4, WindowRegs DEF Programs
    <2> QED BY <1>0, <1>4, <2>1, <2>2, SmallMmuWriteFollows
  <1>5. CASE machine = "eon2" /\ k = "ioexpand" /\ to \div IO_WINDOW = 2
                              /\ (to % IO_WINDOW \notin {SMR_PAGE, SMR_FLAGS} \/ bus.slot \notin Page)
    <2>1. c = small_mmu_write(bus, to % IO_WINDOW, val)
      BY <1>5 DEF DeviceWrite
    <2>2. t = touched
      BY <1>5, WindowRegs DEF Programs
    <2>3. c \in {[bus EXCEPT !.slot = val], [bus EXCEPT !.strayed = TRUE], bus}
      BY <1>5, <2>1 DEF small_mmu_write
    <2> HIDE DEF c
    <2>4. c.maps = bus.maps /\ c.mmu_regs = bus.mmu_regs /\ c.slot_regs = bus.slot_regs
      BY <1>0, <2>3 DEF BusType
    <2>5. Follows(machine, c, touched)
      BY <2>4, SameFollows
    <2> QED BY <2>2, <2>5 DEF c
  <1>6. CASE machine = "eon2" /\ k = "ioexpand" /\ to \div IO_WINDOW # 2
    <2>1. to \notin {2 * IO_WINDOW + SMR_PAGE, 2 * IO_WINDOW + SMR_FLAGS}
      BY <1>6 DEF IO_WINDOW, SMR_PAGE, SMR_FLAGS
    <2>2. c = bus /\ t = touched
      BY <1>6, <2>1 DEF DeviceWrite, Programs
    <2> QED BY <2>2
  <1>7. CASE machine = "eon2" /\ k # "ioexpand"
    <2>1. k # "mmu"
      BY <1>7, OwnMmu
    <2>2. c = bus /\ t = touched
      BY <1>7, <2>1 DEF DeviceWrite, Programs
    <2> QED BY <2>2
  <1> QED BY <1>0, <1>1, <1>2, <1>3, <1>4, <1>5, <1>6, <1>7

-----------------------------------------------------------------------------
(* The machines start with their plain pages as the registers say. *)

\* A device that is attached at an address leaves the maps below it.
LEMMA DefineAbove ==
  ASSUME NEW b \in BusType, NEW devid, NEW len, NEW flags, NEW u \in Unit, NEW v \in Unit,
         u < v
  PROVE  device_define(b, devid, v * BUS_MAP_SIZE, len, flags).maps[u] = b.maps[u]
  <1>1. u \in Nat /\ v \in Nat
    BY UnitCount, SizesAssumption
  <1>2. Units(v * BUS_MAP_SIZE) = v
    BY <1>1, UnitsExact
  <1>3. u \notin v..(v + Units(len) - 1)
    BY <1>1
  <1>4. bus_map(b.maps, v * BUS_MAP_SIZE, devid, 0, len, flags)[u] = b.maps[u]
    BY <1>2, <1>3 DEF bus_map
  <1>5. device_define(b, devid, v * BUS_MAP_SIZE, len, flags).maps =
          bus_map(b.maps, v * BUS_MAP_SIZE, devid, 0, len, flags)
    BY DEF device_define, BusType
  <1> QED BY <1>4, <1>5

\* A device in all the address space, where a map is not fixed.
LEMMA DefineAll ==
  ASSUME NEW b \in BusType, NEW devid, NEW flags, NEW u \in Unit, ~Fixed(b, u)
  PROVE  device_define(b, devid, 0, MAX_CPU_ADDR, flags).maps[u] = Map(devid, u * BUS_MAP_SIZE, flags)
  <1> DEFINE k == MMU_PAGECOUNT * PageUnits
  <1>1. u \in Nat /\ k \in Nat /\ u < k /\ MAX_CPU_ADDR = k * BUS_MAP_SIZE
    BY UnitCount, SizesAssumption
  <1> HIDE DEF k
  <1>2. Units(k * BUS_MAP_SIZE) = k /\ Units(0 * BUS_MAP_SIZE) = 0 /\ 0 * BUS_MAP_SIZE = 0
    BY <1>1, UnitsExact, SizesAssumption
  <1>3. u \in 0..(0 + k - 1) /\ 0 + u - 0 = u
    BY <1>1
  <1>4. bus_map(b.maps, 0, devid, 0, MAX_CPU_ADDR, flags)[u] = Map(devid, (0 + u - 0) * BUS_MAP_SIZE, flags)
    BY <1>1, <1>2, <1>3 DEF bus_map, Fixed
  <1>5. device_define(b, devid, 0, MAX_CPU_ADDR, flags).maps =
          bus_map(b.maps, 0, devid, 0, MAX_CPU_ADDR, flags)
    BY DEF device_define, BusType
  <1> QED BY <1>3, <1>4, <1>5

\* Map u of page p is that much into block p.
LEMMA PageOffset ==
  ASSUME NEW p \in Page, NEW u \in Unit
  PROVE  p * MMU_PAGESIZE + (u - p * PageUnits) * BUS_MAP_SIZE = u * BUS_MAP_SIZE
  <1> DEFINE x == p * PageUnits
  <1>1. p \in Nat /\ u \in Nat /\ BUS_MAP_SIZE \in Nat
    BY UnitCount, SizesAssumption DEF Page
  <1>2. x \in Nat /\ p * MMU_PAGESIZE = x * BUS_MAP_SIZE
    BY <1>1, PageSize
  <1> HIDE DEF x
  <1>3. x * BUS_MAP_SIZE + (u - x) * BUS_MAP_SIZE = u * BUS_MAP_SIZE
    BY <1>1, <1>2
  <1> QED BY <1>2, <1>3 DEF x

\* The maps of a plain page are below the first device.
LEMMA PlainBelow ==
  ASSUME NEW m \in {"eon", "eon2"}, NEW p \in Page, Plain(m, p), NEW u \in Unit,
         u \div PageUnits = p, NEW v \in Unit,
         (IF m = "eon" THEN MMU_ADDR ELSE ROM2_ADDR) <= v * BUS_MAP_SIZE
  PROVE  u < v
  <1> DEFINE k == PageUnits  n == BUS_MAP_SIZE
             first == IF m = "eon" THEN MMU_ADDR ELSE ROM2_ADDR
  <1>1. p \in Nat /\ u \in Nat /\ v \in Nat /\ k \in Nat \ {0} /\ n \in Nat \ {0} /\ first \in Nat
    BY UnitCount, Layout, SizesAssumption DEF Page
  <1>2. u < p * k + k
    <2> HIDE DEF k
    <2>1. u \div k = p
      BY DEF k
    <2> QED BY <1>1, <2>1, DivMeans
  <1>3. (p + 1) * MMU_PAGESIZE = ((p + 1) * k) * n /\ (p + 1) * k \in Nat
    BY <1>1, PageSize
  <1>4. ((p + 1) * k) * n <= first /\ first <= v * n
    BY <1>3 DEF Plain
  <1> HIDE DEF k, n, first
  <1>5. (p + 1) * k = p * k + k
    BY <1>1
  <1> DEFINE y == (p + 1) * k
  <1>6. u < y /\ y \in Nat /\ y * n <= first /\ first <= v * n
    BY <1>2, <1>3, <1>4, <1>5
  <1> HIDE DEF y
  <1>7. y * n \in Nat /\ v * n \in Nat
    BY <1>1, <1>6
  <1>8. y * n <= v * n
    BY <1>1, <1>6, <1>7
  <1>9. ASSUME v < y PROVE FALSE
    <2>1. (v + 1) * n <= y * n /\ (v + 1) * n = v * n + n
      BY <1>1, <1>6, <1>9
    <2> QED BY <1>1, <1>7, <1>8, <2>1
  <1> QED BY <1>1, <1>6, <1>9

\* Map 4 of page p is one of its maps, and its block is p.
LEMMA FifthMap ==
  ASSUME NEW p \in Page
  PROVE  LET u == 4 + p * PageUnits
         IN  /\ u \in Unit /\ u \div PageUnits = p
             /\ ((u * BUS_MAP_SIZE) \div MMU_PAGESIZE) % 256 = p
  <1> DEFINE k == PageUnits  n == MMU_PAGECOUNT  s == BUS_MAP_SIZE  u == 4 + p * k
  <1>1. /\ n \in Nat /\ k \in Nat \ {0} /\ k > 4 /\ p \in Nat /\ p + 1 <= n /\ Unit = 0..(n * k - 1)
        /\ s \in Nat \ {0} /\ MMU_PAGESIZE \in Nat \ {0} /\ MMU_PAGESIZE = k * s /\ p <= 255
    BY UnitCount, SizesAssumption DEF Page
  <1>2. p * MMU_PAGESIZE = (p * k) * s
    BY <1>1, PageSize
  <1> HIDE DEF k, n, s
  <1>3. (p + 1) * k <= n * k /\ (p + 1) * k = p * k + k /\ p * k \in Nat /\ n * k \in Nat
    BY <1>1
  <1>4. u \in Unit /\ u \in Nat
    BY <1>1, <1>3
  <1>5. u \div k = p
    <2>1. p * k <= u /\ u < p * k + k
      BY <1>1, <1>3
    <2> HIDE DEF u
    <2> QED BY <1>1, <1>4, <2>1, DivMeans
  <1>6. p * MMU_PAGESIZE <= u * s /\ u * s < p * MMU_PAGESIZE + MMU_PAGESIZE /\ u * s \in Nat
    <2> DEFINE x == p * k
    <2>1. x \in Nat /\ u = 4 + x
      BY <1>3
    <2> HIDE DEF x, u
    <2>2. u * s = 4 * s + x * s /\ x * s \in Nat
      BY <1>1, <2>1
    <2>3. 4 * s < k * s
      BY <1>1
    <2>4. p * MMU_PAGESIZE = x * s
      BY <1>2 DEF x
    <2> QED BY <1>1, <2>2, <2>3, <2>4
  <1> DEFINE w == u * s
  <1>7. w \div MMU_PAGESIZE = p
    <2> HIDE DEF w
    <2>1. w \in Nat /\ p * MMU_PAGESIZE <= w /\ w < p * MMU_PAGESIZE + MMU_PAGESIZE
      BY <1>6 DEF w
    <2> QED BY <1>1, <2>1, DivMeans
  <1>8. p % 256 = p
    BY <1>1
  <1> QED BY <1>4, <1>5, <1>7, <1>8 DEF k, s

\* The address of a device, in maps.
LEMMA LayoutUnit ==
  ASSUME NEW a \in {MMU_ADDR, CONSOLE_ADDR, DISK_ADDR, BOOT_ROM_ADDR, IO_ADDR, ROM2_ADDR}
  PROVE  \E v \in Unit : a = v * BUS_MAP_SIZE
  BY LayoutAssumption

\* Attaching a device at or above the first one leaves the plain pages alone.
LEMMA DefineKeepsPlain ==
  ASSUME NEW m \in {"eon", "eon2"}, NEW b \in BusType, NEW devid, NEW len, NEW flags,
         NEW a \in {MMU_ADDR, CONSOLE_ADDR, DISK_ADDR, BOOT_ROM_ADDR, IO_ADDR, ROM2_ADDR},
         (IF m = "eon" THEN MMU_ADDR ELSE ROM2_ADDR) <= a,
         NEW p \in Page, Plain(m, p), NEW u \in Unit, u \div PageUnits = p
  PROVE  device_define(b, devid, a, len, flags).maps[u] = b.maps[u]
  <1> PICK v \in Unit : a = v * BUS_MAP_SIZE
    BY LayoutUnit
  <1>1. u < v
    BY PlainBelow
  <1> QED BY <1>1, DefineAbove

LEMMA InitFollowsEon2 ==
  Follows("eon2", machine_init("eon2"), {})
  <1> DEFINE b   == Powered
             ram == small_mmu_reset(b)
             rom == device_define(ram, 3, ROM2_ADDR, MAX_CPU_ADDR - ROM2_ADDR, MAP_READABLE)
             io  == device_define(rom, 4, IO_ADDR, BUS_MAP_SIZE, MAP_READWRITE)
  <1>1. ram \in BusType /\ b \in BusType
    BY SmallMmuResetTyped, PoweredTyped
  <1>2. machine_init("eon2") = io
    BY DEF machine_init, eon2_init
  <1> HIDE DEF b
  <1>3. /\ \A p \in Page : ram.slot_regs[p] = [page |-> p, flags |-> MAP_READWRITE]
        /\ \A u \in Unit : ram.maps[u] = Map(SmallRam, u * BUS_MAP_SIZE, MAP_READWRITE)
    BY <1>1 DEF small_mmu_reset, BusType
  <1> HIDE DEF ram
  <1>4. rom \in BusType
    <2>1. ROM2_ADDR \in Nat /\ MAX_CPU_ADDR - ROM2_ADDR \in Nat /\ MAP_READABLE \in 0..7
      BY Layout DEF MAP_READABLE
    <2>2. 3 \in 0..255
      OBVIOUS
    <2> QED BY <1>1, <2>1, <2>2, DefineTyped
  <1>5. rom.slot_regs = ram.slot_regs
    BY <1>1 DEF device_define, BusType
  <1>6. io.slot_regs = rom.slot_regs
    BY <1>4 DEF device_define, BusType
  <1>7. ASSUME NEW p \in Page, NEW u \in Unit, u \div PageUnits = p, Plain("eon2", p)
        PROVE  io.maps[u] = Says("eon2", io, p, u)
    <2>0. ROM2_ADDR \in Nat /\ ROM2_ADDR <= ROM2_ADDR /\ ROM2_ADDR <= IO_ADDR
      BY Layout, LayoutAssumption
    <2>1. rom.maps[u] = ram.maps[u]
      BY <1>1, <1>7, <2>0, DefineKeepsPlain
    <2> HIDE DEF rom
    <2>2. io.maps[u] = rom.maps[u]
      BY <1>4, <1>7, <2>0, DefineKeepsPlain
    <2> HIDE DEF io
    <2>3. io.maps[u] = Map(SmallRam, u * BUS_MAP_SIZE, MAP_READWRITE)
      BY <1>3, <2>1, <2>2
    <2>4. io.slot_regs[p].page = p /\ io.slot_regs[p].flags % 4 = MAP_READWRITE
      <3>1. io.slot_regs[p] = [page |-> p, flags |-> MAP_READWRITE]
        BY <1>3, <1>5, <1>6
      <3>2. MAP_READWRITE % 4 = MAP_READWRITE
        BY DEF MAP_READWRITE
      <3> QED BY <3>1, <3>2
    <2> QED BY <2>3, <2>4, PageOffset DEF Says
  <1> QED BY <1>2, <1>7 DEF Follows

LEMMA InitFollowsEon ==
  Follows("eon", machine_init("eon"), {})
  <1> DEFINE b    == mmu_reset(Powered)
             mmu  == device_define(b, 1, MMU_ADDR, BUS_MAP_SIZE, MAP_READWRITE + MAP_FIXED)
             ram  == device_define(mmu, 2, 0, MAX_CPU_ADDR, MAP_READWRITE)
             rom  == device_define(ram, 3, BOOT_ROM_ADDR, MAX_CPU_ADDR - BOOT_ROM_ADDR,
                                   MAP_READABLE)
             con  == device_define(rom, 4, CONSOLE_ADDR, BUS_MAP_SIZE, MAP_READWRITE)
             con2 == device_define(con, 4, IO_ADDR, BUS_MAP_SIZE, MAP_READWRITE)
             disk == device_define(con2, 5, DISK_ADDR, BUS_MAP_SIZE, MAP_READWRITE)
             end  == mmu_reset_complete(disk)
  <1>0. /\ MMU_ADDR \in Nat /\ CONSOLE_ADDR \in Nat /\ DISK_ADDR \in Nat /\ IO_ADDR \in Nat
        /\ BOOT_ROM_ADDR \in Nat /\ MAX_CPU_ADDR - BOOT_ROM_ADDR \in Nat
        /\ MAX_CPU_ADDR \in Nat /\ BUS_MAP_SIZE \in Nat
        /\ MAP_READWRITE \in 0..7 /\ MAP_READABLE \in 0..7 /\ MAP_READWRITE + MAP_FIXED \in 0..7
        /\ MMU_ADDR <= MMU_ADDR /\ MMU_ADDR <= CONSOLE_ADDR /\ MMU_ADDR <= DISK_ADDR
        /\ MMU_ADDR <= BOOT_ROM_ADDR /\ MMU_ADDR <= IO_ADDR
        /\ 0 \in Nat /\ 1 \in 0..255 /\ 2 \in 0..255 /\ 3 \in 0..255 /\ 4 \in 0..255
        /\ 5 \in 0..255
    BY Layout, LayoutAssumption, UnitCount, SizesAssumption
       DEF MAP_READWRITE, MAP_READABLE, MAP_FIXED
  <1>1. b \in BusType /\ \A u \in Unit : ~Fixed(b, u)
    BY MmuResetTyped DEF Fixed
  <1>2. machine_init("eon") = end
    BY DEF machine_init, eon_init
  <1> HIDE DEF b
  <1>3. mmu \in BusType
    BY <1>0, <1>1, DefineTyped
  <1>4. ASSUME NEW p \in Page, NEW u \in Unit, u \div PageUnits = p, Plain("eon", p)
        PROVE  ~Fixed(mmu, u)
    <2>1. mmu.maps[u] = b.maps[u]
      BY <1>0, <1>1, <1>4, DefineKeepsPlain
    <2> QED BY <1>1, <2>1 DEF Fixed
  <1> HIDE DEF mmu
  <1>5. ram \in BusType
    BY <1>0, <1>3, DefineTyped
  <1>6. ASSUME NEW u \in Unit, ~Fixed(mmu, u)
        PROVE  ram.maps[u] = Map(2, u * BUS_MAP_SIZE, MAP_READWRITE)
    BY <1>3, <1>6, DefineAll
  <1> HIDE DEF ram
  <1>7. rom \in BusType
    BY <1>0, <1>5, DefineTyped
  <1>8. ASSUME NEW p \in Page, NEW u \in Unit, u \div PageUnits = p, Plain("eon", p)
        PROVE  rom.maps[u] = ram.maps[u]
    BY <1>0, <1>5, <1>8, DefineKeepsPlain
  <1> HIDE DEF rom
  <1>9. con \in BusType
    BY <1>0, <1>7, DefineTyped
  <1>10. ASSUME NEW p \in Page, NEW u \in Unit, u \div PageUnits = p, Plain("eon", p)
         PROVE  con.maps[u] = rom.maps[u]
    BY <1>0, <1>7, <1>10, DefineKeepsPlain
  <1> HIDE DEF con
  <1>11. con2 \in BusType
    BY <1>0, <1>9, DefineTyped
  <1>12. ASSUME NEW p \in Page, NEW u \in Unit, u \div PageUnits = p, Plain("eon", p)
         PROVE  con2.maps[u] = con.maps[u]
    BY <1>0, <1>9, <1>12, DefineKeepsPlain
  <1> HIDE DEF con2
  <1>13. disk \in BusType
    BY <1>0, <1>11, DefineTyped
  <1>14. ASSUME NEW p \in Page, NEW u \in Unit, u \div PageUnits = p, Plain("eon", p)
         PROVE  disk.maps[u] = con2.maps[u]
    BY <1>0, <1>11, <1>14, DefineKeepsPlain
  <1> HIDE DEF disk
  <1>15. ASSUME NEW p \in Page, NEW u \in Unit, u \div PageUnits = p, Plain("eon", p)
         PROVE  disk.maps[u] = Map(2, u * BUS_MAP_SIZE, MAP_READWRITE)
    BY <1>4, <1>6, <1>8, <1>10, <1>12, <1>14, <1>15
  <1>16. end.maps = disk.maps
    BY <1>13 DEF mmu_reset_complete, BusType
  <1>17. ASSUME NEW p \in Page, Plain("eon", p)
         PROVE  end.mmu_regs[p][0] = 2 /\ end.mmu_regs[p][1] = p /\ end.mmu_regs[p][2] = MAP_READWRITE
    <2> DEFINE v == 4 + p * PageUnits  map == disk.maps[v]
    <2>1. v \in Unit /\ v \div PageUnits = p /\ ((v * BUS_MAP_SIZE) \div MMU_PAGESIZE) % 256 = p
      BY FifthMap
    <2>2. map = Map(2, v * BUS_MAP_SIZE, MAP_READWRITE)
      <3> HIDE DEF v
      <3> QED BY <1>15, <1>17, <2>1
    <2>3. end.mmu_regs[p] = [r \in 0..3 |-> CASE r = 0 -> map.devid
                               [] r = 1 -> (map.offset \div MMU_PAGESIZE) % 256
                               [] r = 2 -> map.flags % 4
                               [] r = 3 -> disk.mmu_regs[p][3]]
      BY <1>13 DEF mmu_reset_complete, BusType
    <2>4. map.devid = 2 /\ map.offset = v * BUS_MAP_SIZE /\ map.flags = MAP_READWRITE
      <3> HIDE DEF v, map
      <3> QED BY <2>2 DEF Map
    <2> HIDE DEF v, map
    <2>5. /\ end.mmu_regs[p][0] = map.devid
          /\ end.mmu_regs[p][1] = (map.offset \div MMU_PAGESIZE) % 256
          /\ end.mmu_regs[p][2] = map.flags % 4
      <3> HIDE DEF end
      <3> QED BY <2>3
    <2>6. MAP_READWRITE % 4 = MAP_READWRITE
      BY DEF MAP_READWRITE
    <2> QED BY <2>1, <2>4, <2>5, <2>6
  <1> HIDE DEF end
  <1>18. ASSUME NEW p \in Page, NEW u \in Unit, u \div PageUnits = p, Plain("eon", p)
         PROVE  end.maps[u] = Says("eon", end, p, u)
    <2>1. end.maps[u] = Map(2, u * BUS_MAP_SIZE, MAP_READWRITE)
      BY <1>15, <1>16, <1>18
    <2>2. MAP_READWRITE % 4 = MAP_READWRITE
      BY DEF MAP_READWRITE
    <2> QED BY <1>17, <1>18, <2>1, <2>2, PageOffset DEF Says
  <1> QED BY <1>2, <1>18 DEF Follows

LEMMA InitFollows == Init => Follows(machine, bus, touched)
  <1> SUFFICES ASSUME Init PROVE Follows(machine, bus, touched)
    OBVIOUS
  <1>1. machine \in {"simple", "eon", "eon2"} /\ bus = machine_init(machine) /\ touched = {}
    BY InputsAssumption DEF Init
  <1>2. CASE machine = "simple"
    BY <1>2 DEF Follows
  <1> QED BY <1>1, <1>2, InitFollowsEon, InitFollowsEon2

-----------------------------------------------------------------------------
(* Steps, and the theorems. *)

\* A device that answers is one there is.
LEMMA DeviceThere ==
  ASSUME Inv, NEW addr \in Address
  PROVE  LET devid == find_map(bus, addr).devid
             d     == find_device(machine, devid)
         IN  /\ devid \in Nat /\ d \in Nat /\ d < device_count(machine)
             /\ d = devid \/ d = 0
  <1>1. addr \div BUS_MAP_SIZE \in Unit
    BY AddressUnit
  <1>2. find_map(bus, addr).devid \in Nat
    <2>1. bus.maps[addr \div BUS_MAP_SIZE] \in MapType
      BY <1>1 DEF Inv, Good, BusType
    <2>2. bus.maps[addr \div BUS_MAP_SIZE].devid \in 0..255
      BY <2>1 DEF MapType
    <2> QED BY <2>2 DEF find_map
  <1>3. device_count(machine) \in {3, 6, 10}
    BY InputsAssumption DEF Inv, device_count
  <1> QED BY <1>2, <1>3 DEF find_device

\* What a store of the CPU does, in terms of the device's part of it.
LEMMA StoreMeans ==
  ASSUME Inv, NEW addr \in Address, NEW val \in 0..255, Store(addr, val)
  PROVE  LET devid == find_map(bus, addr).devid
             d  == find_device(machine, devid)
             to == phy_addr(bus, addr)
         IN  \/ bus' = bus /\ touched' = touched /\ last'.went = <<>>
             \/ /\ bus' = DeviceWrite(machine, bus, d, to, val)
                /\ touched' = touched \cup Programs(bus, <<d, to>>)
                /\ last'.went = <<d, to>> /\ last'.addr = addr
                /\ last'.told = <<find_map(bus', addr).devid, to>>
  <1> DEFINE map == find_map(bus, addr)
             dev == find_device(machine, map.devid)
             to  == phy_addr(bus, addr)
             ok  == ~bus.cpu_running \/ Has(map.flags, MAP_WRITABLE)
             c   == IF ok THEN DeviceWrite(machine, bus, dev, to, val) ELSE bus
             went == IF ok THEN <<dev, to>> ELSE <<>>
  <1>1. /\ bus' = c /\ touched' = touched \cup Programs(bus, went)
        /\ last'.went = went /\ last'.addr = addr /\ last'.told = <<find_map(c, addr).devid, to>>
    BY DEF Store, cpu_write8, Access
  <1>2. Programs(bus, <<>>) = {}
    BY DEF Programs
  <1>3. CASE ok
    BY <1>1, <1>3
  <1>4. CASE ~ok
    BY <1>1, <1>2, <1>4
  <1> QED BY <1>3, <1>4

LEMMA NextFollows ==
  Inv /\ Follows(machine, bus, touched) /\ [Next]_vars => Follows(machine, bus, touched)'
  <1> SUFFICES ASSUME Inv, Follows(machine, bus, touched), [Next]_vars
               PROVE  Follows(machine', bus', touched')
    BY DEF Follows, Fixed, Says, Plain
  <1>1. Addrs[machine] \subseteq Address /\ Vals \subseteq 0..255
    BY InputsAssumption DEF Inv
  <1>2. ASSUME NEW addr \in Addrs[machine], ReadByte(addr) \/ ReadWord(addr)
        PROVE  Follows(machine', bus', touched')
    BY <1>2 DEF ReadByte, ReadWord
  <1>3. ASSUME NEW addr \in Addrs[machine], NEW val \in Vals, Store(addr, val)
        PROVE  Follows(machine', bus', touched')
    <2> DEFINE d  == find_device(machine, find_map(bus, addr).devid)
               to == phy_addr(bus, addr)
    <2>1. addr \in Address /\ val \in 0..255
      BY <1>1
    <2>2. d \in Nat /\ d < device_count(machine) /\ to \in Nat
      BY <2>1, DeviceThere, PhysicalNat
    <2>3. \/ bus' = bus /\ touched' = touched
          \/ /\ bus' = DeviceWrite(machine, bus, d, to, val)
             /\ touched' = touched \cup Programs(bus, <<d, to>>)
      BY <1>3, <2>1, StoreMeans
    <2>4. machine' = machine
      BY <1>3 DEF Store
    <2> HIDE DEF d, to
    <2>5. Follows(machine, DeviceWrite(machine, bus, d, to, val), touched \cup Programs(bus, <<d, to>>))
      BY <2>1, <2>2, DeviceWriteFollows, ZenonT(60)
    <2> QED BY <2>3, <2>4, <2>5, ZenonT(60)
  <1>4. ASSUME NEW addr \in Addrs[machine], NEW val \in Vals, DebuggerStore(addr, val)
        PROVE  Follows(machine', bus', touched')
    <2> DEFINE d  == find_map(bus, addr).devid
               to == phy_addr(bus, addr)
    <2>1. addr \in Address /\ val \in 0..255
      BY <1>1
    <2>2. d \in Nat /\ to \in Nat
      BY <2>1, DeviceThere, PhysicalNat
    <2>3. /\ d < device_count(machine)
          /\ bus' = DeviceWrite(machine, bus, d, to, val)
          /\ touched' = touched \cup Programs(bus, <<d, to>>)
          /\ machine' = machine
      BY <1>4 DEF DebuggerStore, to_absolute
    <2> HIDE DEF d, to
    <2> QED BY <2>1, <2>2, <2>3, DeviceWriteFollows
  <1>5. CASE cpu_reset
    <2>1. bus' = [bus EXCEPT !.cpu_running = TRUE] /\ machine' = machine /\ touched' = touched
      BY <1>5 DEF cpu_reset
    <2>2. bus'.maps = bus.maps /\ bus'.mmu_regs = bus.mmu_regs /\ bus'.slot_regs = bus.slot_regs
      BY <2>1 DEF Inv, Good, BusType
    <2> QED BY <2>1, <2>2, SameFollows
  <1>6. CASE UNCHANGED vars
    BY <1>6 DEF vars
  <1> QED BY <1>2, <1>3, <1>4, <1>5, <1>6 DEF Next

\* The registers and the maps tell the same story after every sequence of
\* stores, to whatever slot, for every size of maps and pages and every layout
\* in which the devices are above the RAM: mmu_write and small_mmu_write remap
\* from what they have just stored, and nothing else touches a map.
THEOREM MapsAgree == Spec => []MapsFollowRegs
  <1>1. Inv /\ Follows(machine, bus, touched) => MapsFollowRegs
    <2> SUFFICES ASSUME Inv, Follows(machine, bus, touched) PROVE MapsFollowRegs
      OBVIOUS
    <2>2. \A p \in Page, u \in Unit : Says(machine, bus, p, u) = Programmed(p, u)
      BY DEF Says, Programmed
    <2> QED BY <2>2 DEF MapsFollowRegs, Follows, Fixed, Plain
  <1> QED BY <1>1, SpecInv, InitFollows, NextFollows, PTL DEF Spec

\* The page of an address is the page of its map.
LEMMA PageOfUnit ==
  ASSUME NEW addr \in Address, NEW q \in Page, (addr \div BUS_MAP_SIZE) \div PageUnits = q
  PROVE  addr \div MMU_PAGESIZE = q
  <1> DEFINE u == addr \div BUS_MAP_SIZE  k == PageUnits  s == BUS_MAP_SIZE
  <1>1. /\ addr \in Nat /\ q \in Nat /\ k \in Nat \ {0} /\ s \in Nat \ {0}
        /\ MMU_PAGESIZE \in Nat \ {0} /\ MMU_PAGESIZE = k * s
    BY UnitCount, SizesAssumption DEF Address, Page
  <1>2. u \in Nat
    BY <1>1
  <1>3. u * s <= addr /\ addr < u * s + s
    BY <1>1, <1>2, DivMeans
  <1>4. u \div k = q
    OBVIOUS
  <1>5. q * MMU_PAGESIZE = (q * k) * s
    BY <1>1, PageSize
  <1> HIDE DEF u, k, s
  <1>6. q * k <= u /\ u < q * k + k /\ q * k \in Nat
    BY <1>1, <1>2, <1>4, DivMeans
  <1> DEFINE x == q * k
  <1>7. x \in Nat /\ x <= u /\ u + 1 <= x + k /\ q * MMU_PAGESIZE = x * s
    BY <1>1, <1>2, <1>5, <1>6
  <1> HIDE DEF x
  <1>8. x * s <= u * s /\ (u + 1) * s <= (x + k) * s
    BY <1>1, <1>2, <1>7
  <1>9. (u + 1) * s = u * s + s /\ (x + k) * s = x * s + k * s /\ u * s \in Nat /\ x * s \in Nat
    BY <1>1, <1>2, <1>7
  <1>10. q * MMU_PAGESIZE <= addr /\ addr < q * MMU_PAGESIZE + MMU_PAGESIZE
    BY <1>1, <1>3, <1>7, <1>8, <1>9
  <1> QED BY <1>1, <1>10, DivMeans

LEMMA StoreNames ==
  ASSUME Inv, NEW addr \in Address, NEW val \in 0..255, Store(addr, val)
  PROVE  HookNamesTarget'
  <1> DEFINE u  == addr \div BUS_MAP_SIZE
             devid == find_map(bus, addr).devid
             d  == find_device(machine, devid)
             to == phy_addr(bus, addr)
             c  == DeviceWrite(machine, bus, d, to, val)
  <1>0. machine' = machine
    BY DEF Store
  <1>1. u \in Unit
    BY AddressUnit
  <1>2. d \in Nat /\ d < device_count(machine) /\ (d = devid \/ d = 0) /\ to \in Nat
    BY DeviceThere, PhysicalNat
  <1>3. CASE last'.went = <<>>
    BY <1>3 DEF HookNamesTarget
  <1>4. CASE /\ bus' = c /\ last'.went = <<d, to>> /\ last'.addr = addr
             /\ last'.told = <<find_map(bus', addr).devid, to>>
    <2>1. \/ c.maps = bus.maps
          \/ \E q \in Page, dv \in Nat, blk \in Nat, n \in Nat :
               /\ Reprogrammed(bus, c, q, dv, blk, n % 4)
               /\ Programs(bus, <<d, to>>) = {q} /\ Programs(c, <<d, to>>) = {q}
      <3>1. c = DeviceWrite(machine, bus, d, to, val)
        OBVIOUS
      <3> HIDE DEF c, d, to
      <3> QED BY <1>2, <3>1, DeviceWriteMeans, ZenonT(60)
    <2> HIDE DEF c, d, to
    <2>2. find_map(bus', addr) = c.maps[u] /\ devid = bus.maps[u].devid
      BY <1>4 DEF find_map
    <2> HIDE DEF u, devid
    <2>3. CASE c.maps[u] = bus.maps[u]
      <3>1. last'.told = <<devid, to>>
        BY <1>4, <2>2, <2>3
      <3>2. last'.told = last'.went \/ last'.went[1] = 0
        BY <1>2, <1>4, <3>1
      <3> QED BY <3>2 DEF HookNamesTarget
    <2>4. CASE c.maps[u] # bus.maps[u]
      <3>1. PICK q \in Page, dv \in Nat, blk \in Nat, n \in Nat :
              /\ Reprogrammed(bus, c, q, dv, blk, n % 4)
              /\ Programs(c, <<d, to>>) = {q}
        BY <2>1, <2>4
      <3>2. /\ u \div PageUnits = q
            /\ c.maps[u] = Map(dv, blk * MMU_PAGESIZE + (u - q * PageUnits) * BUS_MAP_SIZE, n % 4)
        BY <1>1, <2>4, <3>1 DEF Reprogrammed
      <3>3. ~Has(find_map(bus', addr).flags, MAP_FIXED)
        <4>1. find_map(bus', addr).flags = n % 4
          <5> DEFINE at == blk * MMU_PAGESIZE + (u - q * PageUnits) * BUS_MAP_SIZE
                     f  == n % 4
          <5>1. find_map(bus', addr) = Map(dv, at, f)
            BY <2>2, <3>2
          <5> HIDE DEF at, f
          <5>2. find_map(bus', addr).flags = f
            BY <5>1 DEF Map
          <5> QED BY <5>2 DEF f
        <4>2. ~Has(n % 4, MAP_FIXED)
          BY NotFixed
        <4> QED BY <4>1, <4>2
      <3>4. addr \div MMU_PAGESIZE = q
        BY <3>2, PageOfUnit DEF u
      <3>5. Programs(bus, last.went)' = {q}
        BY <1>0, <1>4, <3>1 DEF Programs
      <3>6. RemappedItself'
        BY <1>4, <3>3, <3>4, <3>5 DEF RemappedItself
      <3> QED BY <3>6 DEF HookNamesTarget
    <2> QED BY <2>3, <2>4, SMTT(60)
  <1> HIDE DEF c, d, to
  <1>5. \/ last'.went = <<>>
        \/ /\ bus' = c /\ last'.went = <<d, to>> /\ last'.addr = addr
           /\ last'.told = <<find_map(bus', addr).devid, to>>
    BY StoreMeans DEF c, d, to
  <1> QED BY <1>3, <1>4, <1>5

\* A watchpoint's hook is given the byte that was stored, for every bus: only a
\* store that remaps the very page it came through is reported elsewhere.
THEOREM HookCorrect == Spec => []HookNamesTarget
  <1>1. Init => HookNamesTarget
    BY DEF Init, Access, HookNamesTarget
  <1>2. Inv /\ HookNamesTarget /\ [Next]_vars => HookNamesTarget'
    <2> SUFFICES ASSUME Inv, HookNamesTarget, [Next]_vars PROVE HookNamesTarget'
      OBVIOUS
    <2>1. Addrs[machine] \subseteq Address /\ Vals \subseteq 0..255
      BY InputsAssumption DEF Inv
    <2>2. ASSUME last'.op # "store" PROVE HookNamesTarget'
      BY <2>2 DEF HookNamesTarget
    <2>3. ASSUME NEW addr \in Addrs[machine], ReadByte(addr) \/ ReadWord(addr)
          PROVE  last'.op # "store"
      <3>1. CASE ReadByte(addr)
        BY <3>1 DEF ReadByte, cpu_read8, Access
      <3>2. CASE ReadWord(addr)
        BY <3>2 DEF ReadWord, cpu_read8, cpu_read16, Access
      <3> QED BY <2>3, <3>1, <3>2
    <2>4. ASSUME NEW addr \in Addrs[machine], NEW val \in Vals, Store(addr, val)
          PROVE  HookNamesTarget'
      BY <2>1, <2>4, StoreNames
    <2>5. ASSUME NEW addr \in Addrs[machine], NEW val \in Vals, DebuggerStore(addr, val)
          PROVE  last'.op # "store"
      BY <2>5 DEF DebuggerStore, Access
    <2>6. CASE cpu_reset
      <3>1. last'.op # "store"
        BY <2>6 DEF cpu_reset, cpu_read8, cpu_read16, Access
      <3> QED BY <2>2, <3>1
    <2>7. CASE UNCHANGED vars
      BY <2>7 DEF vars, HookNamesTarget, RemappedItself, Programs, find_map
    <2> QED BY <2>2, <2>3, <2>4, <2>5, <2>6, <2>7 DEF Next
  <1> QED BY <1>1, <1>2, SpecInv, PTL DEF Spec
=============================================================================
