---------------------------- MODULE PartsProofs -----------------------------
(***************************************************************************)
(* Proofs about the parts that Parts runs side by side.  The disk drive and*)
(* the SD card implement BlockStore, and damage in a program image stays   *)
(* where it is, for every register width, image and record format; the     *)
(* fixed RAM top of multicomp09 stays, for any number of blocks; and the   *)
(* switches and the display of the WPC machine are what its keys and its   *)
(* guest made of them, for any set of keys, durations and pages.           *)
(***************************************************************************)
EXTENDS Disk, SdCard, Loader, Mapper09, Wpc, SequenceTheorems, FiniteSetTheorems, TLAPS

-----------------------------------------------------------------------------
(* Files of the host. *)

\* A file has no holes: what is not there is past its end.
NoHoles(f) == \A b, c \in Blocks : c < b /\ f[b] # Absent => f[c] # Absent

LEMMA BlocksAreNat == Blocks \subseteq Nat
BY BlocksAssumption DEF Blocks

LEMMA ExtendedNoHoles ==
  ASSUME NEW f, NoHoles(f), NEW at \in Blocks, NEW d, d # Absent
  PROVE  NoHoles(Extended(f, at, d))
<1> DEFINE g == Extended(f, at, d)
<1>1. \A c \in Blocks : g[c] = IF c = at THEN d ELSE IF c < at /\ f[c] = Absent THEN Zero ELSE f[c]
  BY DEF Extended
<1> HIDE DEF g
<1>2. ASSUME NEW b \in Blocks, NEW c \in Blocks, c < b, g[b] # Absent
      PROVE  g[c] # Absent
  <2>0. b \in Nat /\ c \in Nat /\ at \in Nat
    BY BlocksAreNat
  <2>1. CASE c <= at
    BY <1>1, <2>0, <2>1, ContentsAssumption
  <2>2. CASE c > at
    <3>1. g[b] = f[b] /\ g[c] = f[c]
      BY <1>1, <1>2, <2>0, <2>2
    <3> QED
      BY <1>2, <3>1 DEF NoHoles
  <2> QED
    BY <2>0, <2>1, <2>2
<1>3. NoHoles(g)
  BY <1>2 DEF NoHoles
<1> QED
  BY <1>3 DEF g

-----------------------------------------------------------------------------
(* The disk. *)

Contents == Data \cup {Zero, Erased}
Medium   == [Blocks -> Contents \cup {Absent}]
DiskFile == [view : Medium, disk : Medium, pos : Nat]

LEMMA NotAbsent == Absent \notin Contents /\ Zero \in Contents /\ Erased \in Contents
BY DiskAssumption, ContentsAssumption DEF Contents

\* What the file is and keeps: a block that is not dirty is on the medium as the
\* program sees it.
FileKept(f, dirty) ==
  /\ f \in DiskFile
  /\ NoHoles(f.view) /\ NoHoles(f.disk)
  /\ dirty \subseteq Blocks
  /\ \A b \in Blocks \ dirty : f.disk[b] = f.view[b]

\* The inductive invariant.  The file is where the driver means; a high byte
\* whose low byte is still missing is in the offset register.
DiskInv ==
  /\ FileKept(fp, disk_dirty)
  /\ disk \in [offset : Nat, ram : Slots]
  /\ ram \in [Slots -> Contents]
  /\ high # NoByte => disk.offset = high
  /\ disk_at \in Nat
  /\ fp.pos = disk_at * SECTOR_SIZE

LEMMA PosIsAt ==
  ASSUME NEW n \in Nat
  PROVE  n * SECTOR_SIZE \in Nat /\ (n * SECTOR_SIZE) \div SECTOR_SIZE = n
BY DiskAssumption

LEMMA ExtendedTyped ==
  ASSUME NEW f \in Medium, NEW at \in Blocks, NEW d \in Contents
  PROVE  Extended(f, at, d) \in Medium
BY NotAbsent DEF Extended, Medium

Changed(g, f) == {b \in Blocks : g.view[b] # f.view[b]}

\* A write of one block: the blocks it changes are dirty afterwards.
LEMMA WriteKeepsFile ==
  ASSUME NEW f, NEW dirty, FileKept(f, dirty), NEW at \in Blocks, NEW d \in Contents
  PROVE  LET g == Transferred(fwrite(f, at, d))
         IN  /\ FileKept(g, dirty \cup Changed(g, f))
             /\ g.view = Extended(f.view, at, d) /\ g.pos = f.pos + SECTOR_SIZE
<1> DEFINE v == Extended(f.view, at, d)
           g == Transferred(fwrite(f, at, d))
<1>1. v \in Medium /\ NoHoles(v)
  BY ExtendedTyped, ExtendedNoHoles, NotAbsent DEF FileKept, DiskFile
<1>2. g \in DiskFile /\ g.view = v /\ g.disk = f.disk /\ g.pos = f.pos + SECTOR_SIZE
  <2> HIDE DEF v
  <2>1. fwrite(f, at, d) = [f EXCEPT !.view = v]
    BY DEF fwrite, v
  <2>2. f.pos + SECTOR_SIZE \in Nat
    BY DiskAssumption DEF FileKept, DiskFile
  <2> QED
    BY <1>1, <2>1, <2>2 DEF FileKept, DiskFile, Transferred
<1> HIDE DEF v, g
<1>3. FileKept(g, dirty \cup Changed(g, f))
  BY <1>1, <1>2 DEF FileKept, Changed
<1> QED
  BY <1>2, <1>3 DEF v, g

LEMMA MoveKeepsFile ==
  ASSUME NEW f, NEW dirty, FileKept(f, dirty), NEW n \in Nat
  PROVE  LET g == [f EXCEPT !.pos = n]
         IN  FileKept(g, dirty) /\ g.view = f.view /\ g.pos = n
BY DEF FileKept, DiskFile

LEMMA FlushKeepsFile ==
  ASSUME NEW f, NEW dirty, FileKept(f, dirty)
  PROVE  FileKept(fflush(f), {}) /\ fflush(f).view = f.view /\ fflush(f).pos = f.pos
BY DEF FileKept, DiskFile, fflush

\* The library's own write: the blocks before the one it writes are there, or
\* they are dirty.
LEMMA WriteBackKeepsFile ==
  ASSUME NEW f, NEW dirty, FileKept(f, dirty), NEW b \in Blocks
  PROVE  /\ FileKept(WriteBack(f, b), dirty)
         /\ WriteBack(f, b).view = f.view /\ WriteBack(f, b).pos = f.pos
<1>1. CASE f.view[b] = Absent
  BY <1>1 DEF WriteBack
<1>2. CASE f.view[b] # Absent
  <2> DEFINE m == Extended(f.disk, b, f.view[b])
             g == [f EXCEPT !.disk = m]
  <2>1. f.view[b] \in Contents /\ f.view \in Medium /\ f.disk \in Medium /\ f \in DiskFile
    BY <1>2 DEF FileKept, DiskFile, Medium
  <2>2. m \in Medium /\ NoHoles(m)
    BY <1>2, <2>1, ExtendedTyped, ExtendedNoHoles DEF FileKept
  <2>3. \A c \in Blocks : m[c] = IF c = b THEN f.view[b]
                                 ELSE IF c < b /\ f.disk[c] = Absent THEN Zero ELSE f.disk[c]
    BY DEF Extended
  <2> HIDE DEF m
  <2>4. WriteBack(f, b) = g
    BY <1>2 DEF WriteBack, m
  <2>5. g \in DiskFile /\ g.view = f.view /\ g.disk = m /\ g.pos = f.pos
    BY <2>1, <2>2 DEF DiskFile
  <2>6. ASSUME NEW c \in Blocks \ dirty
        PROVE  m[c] = f.view[c]
    <3>1. f.disk[c] = f.view[c]
      BY DEF FileKept
    <3>2. c < b => f.view[c] # Absent
      BY <1>2 DEF FileKept, NoHoles
    <3> QED
      BY <2>3, <3>1, <3>2
  <2> HIDE DEF g
  <2>7. FileKept(g, dirty)
    BY <2>2, <2>5, <2>6 DEF FileKept
  <2> QED
    BY <2>4, <2>5, <2>7
<1> QED
  BY <1>1, <1>2

\* A kill and a new start: the medium is what the program sees.
LEMMA ReopenKeepsFile ==
  ASSUME NEW f, NEW dirty, FileKept(f, dirty)
  PROVE  LET g == disk_reset(Reopened(f))
         IN  FileKept(g, {}) /\ g.view = f.disk /\ g.pos = 0
<1> DEFINE g == disk_reset(Reopened(f))
<1>1. g \in DiskFile /\ g.view = f.disk /\ g.disk = f.disk /\ g.pos = 0
  BY DEF FileKept, DiskFile, disk_reset, Reopened, fflush
<1> HIDE DEF g
<1>2. FileKept(g, {})
  BY <1>1 DEF FileKept
<1> QED
  BY <1>1, <1>2 DEF g

-----------------------------------------------------------------------------
(* The steps of the disk. *)

DiskStep == [DiskStore!Next]_<<fp.view, ram, disk_at, disk_done, disk_dirty>>

LEMMA HighKeeps ==
  ASSUME DiskInv, NEW val \in Registers, WriteSectorHigh(val)
  PROVE  DiskInv' /\ DiskStep
<1>1. val \in Nat
  BY DiskAssumption DEF Registers
<1>2. disk' \in [offset : Nat, ram : Slots] /\ disk'.offset = val
  BY <1>1 DEF WriteSectorHigh, DiskInv
<1>3. DiskInv'
  BY <1>1, <1>2 DEF WriteSectorHigh, DiskInv
<1>4. DiskStep
  BY DEF WriteSectorHigh, DiskStep
<1> QED
  BY <1>3, <1>4

LEMMA LowKeeps ==
  ASSUME DiskInv, NEW val \in Registers, WriteSectorLow(val)
  PROVE  DiskInv' /\ DiskStep
<1> DEFINE at == disk.offset * BYTE_VALUES + val
<1>1. val \in Nat /\ at \in Nat
  BY DiskAssumption DEF Registers, DiskInv
<1>2. NewOffset(val) = at * SECTOR_SIZE /\ NewOffset(val) \in Nat /\ MeantSector(val) = at
  <2>1. NewOffset(val) = at * SECTOR_SIZE
    BY DEF NewOffset
  <2>2. NewOffset(val) \in Nat /\ NewOffset(val) \div SECTOR_SIZE = at
    <3> HIDE DEF at
    <3> QED
      BY <1>1, <2>1, PosIsAt
  <2>3. high # NoByte => high * BYTE_VALUES + val = at
    BY DEF DiskInv
  <2> QED
    BY <2>1, <2>2, <2>3 DEF MeantSector
<1>3. fp' = [fp EXCEPT !.pos = NewOffset(val)] /\ disk_dirty' = disk_dirty
  BY DEF WriteSectorLow
<1>4. FileKept(fp', disk_dirty') /\ fp'.view = fp.view /\ fp'.pos = at * SECTOR_SIZE
  BY <1>2, <1>3, MoveKeepsFile DEF DiskInv
<1>5. disk' \in [offset : Nat, ram : Slots]
  BY <1>2 DEF WriteSectorLow, DiskInv
<1>6. high' = NoByte /\ disk_at' = at /\ ram' = ram
  BY <1>2 DEF WriteSectorLow
<1> HIDE DEF at
<1>7. DiskInv'
  BY <1>1, <1>4, <1>5, <1>6 DEF DiskInv
<1>8. DiskStep
  BY <1>4 DEF WriteSectorLow, DiskStep, DiskStore!Next, DiskStore!Driver
<1> QED
  BY <1>7, <1>8

LEMMA AddrKeeps ==
  ASSUME DiskInv, NEW s \in Slots, WriteAddr(s)
  PROVE  DiskInv' /\ DiskStep
<1>1. disk' \in [offset : Nat, ram : Slots] /\ disk'.offset = disk.offset
  BY DEF WriteAddr, DiskInv
<1> QED
  BY <1>1 DEF WriteAddr, DiskInv, DiskStep

LEMMA StoreKeeps ==
  ASSUME DiskInv, NEW s \in Slots, NEW d \in Data, GuestStore(s, d)
  PROVE  DiskInv' /\ DiskStep
<1>1. ram' \in [Slots -> Contents]
  BY DEF GuestStore, DiskInv, Contents
<1>2. DiskInv'
  BY <1>1 DEF GuestStore, DiskInv
<1> QED
  BY <1>2 DEF GuestStore, DiskStep, DiskStore!Next, DiskStore!Driver

LEMMA BackKeeps ==
  ASSUME DiskInv, NEW b \in Blocks, DiskWriteBack(b)
  PROVE  DiskInv' /\ DiskStep
<1>1. FileKept(fp', disk_dirty) /\ fp'.view = fp.view /\ fp'.pos = fp.pos
  BY WriteBackKeepsFile DEF DiskWriteBack, DiskInv
<1> QED
  BY <1>1 DEF DiskWriteBack, DiskInv, DiskStep

LEMMA CrashKeeps ==
  ASSUME DiskInv, DiskCrash
  PROVE  DiskInv' /\ DiskStep
<1>1. FileKept(fp', {}) /\ fp'.view = fp.disk /\ fp'.pos = 0
  BY ReopenKeepsFile DEF DiskCrash, DiskInv
<1>2. disk' \in [offset : Nat, ram : Slots] /\ ram' \in [Slots -> Contents]
  BY DiskAssumption DEF DiskCrash, DiskStarted, Contents
<1>6. high' = NoByte /\ disk_at' = 0 /\ disk_dirty' = {} /\ 0 = 0 * SECTOR_SIZE
  BY DiskAssumption DEF DiskCrash
<1>3. DiskInv'
  BY <1>1, <1>2, <1>6 DEF DiskInv
<1>4. \A b \in Blocks \ disk_dirty : fp'.view[b] = fp.view[b]
  BY <1>1 DEF DiskInv, FileKept
<1>5. DiskStore!Crash
  BY <1>4 DEF DiskCrash, DiskStore!Crash, DiskStore!Blocks, Blocks
<1> QED
  BY <1>3, <1>5 DEF DiskStep, DiskStore!Next

\* The end of a command that leaves the file as f, k sectors further on.
LEMMA CtrlKeeps ==
  ASSUME DiskInv, NEW bits \in SUBSET {"READ", "WRITE", "ERASE", "FLUSH"}, WriteCtrl(bits),
         NEW f, f = Transfer(bits)[1], NEW k \in {0, 1}, f.pos = fp.pos + k * SECTOR_SIZE,
         FileKept(f, disk_dirty \cup Changed(f, fp)),
         ram' \in [Slots -> Contents]
  PROVE  /\ DiskInv' /\ fp'.view = f.view /\ disk_at' = disk_at + k /\ disk_at = Pos
         /\ DiskStore!Kept \/ DiskStore!Flushed
<1> DEFINE ds == disk_dirty \cup Changed(f, fp)
<1>1. fp.pos = disk_at * SECTOR_SIZE /\ disk_at \in Nat
  BY DEF DiskInv
<1>2. Pos = disk_at
  BY <1>1, PosIsAt DEF Pos
<1>3. fp' = (IF "FLUSH" \in bits THEN fflush(f) ELSE f)
  BY DEF WriteCtrl, Flushes
<1>4. fp'.view = f.view /\ fp'.pos = f.pos
  BY <1>3, FlushKeepsFile
<1>5. disk_dirty' = IF "FLUSH" \in bits THEN {} ELSE ds
  BY <1>4 DEF WriteCtrl, Changed
<1>6. FileKept(fp', disk_dirty')
  BY <1>3, <1>5, FlushKeepsFile
<1>7. disk_at' = disk_at + k /\ fp'.pos = disk_at' * SECTOR_SIZE
  <2>1. fp'.pos - fp.pos = k * SECTOR_SIZE
    BY <1>1, <1>4, PosIsAt, DiskAssumption
  <2>2. (k * SECTOR_SIZE) \div SECTOR_SIZE = k
    BY PosIsAt
  <2>3. disk_at' = disk_at + k
    BY <2>1, <2>2 DEF WriteCtrl
  <2> QED
    BY <1>1, <1>4, <2>3, DiskAssumption
<1>8. DiskInv'
  BY <1>1, <1>6, <1>7 DEF WriteCtrl, DiskInv
<1>9. DiskStore!Kept \/ DiskStore!Flushed
  BY <1>4, <1>5 DEF DiskStore!Kept, DiskStore!Flushed, DiskStore!Blocks, Blocks, Changed
<1> QED
  BY <1>2, <1>4, <1>7, <1>8, <1>9

\* Nothing is transferred: the command only flushes, if that.
LEMMA NoTransferKeeps ==
  ASSUME DiskInv, NEW bits \in SUBSET {"FLUSH"}, WriteCtrl(bits)
  PROVE  DiskInv' /\ DiskStep
<1>1. Transfer(bits) = <<fp, ram>> /\ Command(bits) = disk_done
  BY DEF Transfer, Command, Writes
<1>2. ram' = ram /\ ram \in [Slots -> Contents] /\ disk_done' = disk_done
  BY <1>1 DEF WriteCtrl, DiskInv
<1>3. FileKept(fp, disk_dirty \cup Changed(fp, fp))
  BY DEF DiskInv, FileKept, Changed
<1>4. fp.pos = fp.pos + 0 * SECTOR_SIZE
  BY DiskAssumption DEF DiskInv, FileKept, DiskFile
<1>9. fp = Transfer(bits)[1] /\ ram' \in [Slots -> Contents]
  BY <1>1, <1>2
<1>5. DiskInv' /\ fp'.view = fp.view /\ disk_at' = disk_at + 0
  BY <1>3, <1>4, <1>9, CtrlKeeps
<1>6. disk_at' = disk_at
  BY <1>5 DEF DiskInv
<1>7. CASE "FLUSH" \in bits
  BY <1>2, <1>5, <1>6, <1>7 DEF WriteCtrl, DiskStep, DiskStore!Next, DiskStore!Flush
<1>8. CASE "FLUSH" \notin bits
  BY <1>2, <1>5, <1>6, <1>8 DEF WriteCtrl, DiskStep
<1> QED
  BY <1>5, <1>7, <1>8

LEMMA ReadKeeps ==
  ASSUME DiskInv, NEW bits \in SUBSET {"READ", "WRITE", "ERASE", "FLUSH"}, "READ" \in bits,
         WriteCtrl(bits)
  PROVE  DiskInv' /\ DiskStep
<1>0. /\ Transfer(bits) = ReadSector /\ Command(bits) = "read"
      /\ disk.ram \in Slots /\ ram \in [Slots -> Contents] /\ disk_done' = "read"
      /\ ram' = Transfer(bits)[2]
  BY DEF Transfer, Command, WriteCtrl, DiskInv
<1>1. CASE Pos \notin Blocks \/ fp.view[Pos] = Absent
  <2>1. Transfer(bits) = <<fp, ram>> /\ ram' = ram
    BY <1>0, <1>1 DEF ReadSector
  <2>2. FileKept(fp, disk_dirty \cup Changed(fp, fp))
    BY DEF DiskInv, FileKept, Changed
  <2>3. fp.pos = fp.pos + 0 * SECTOR_SIZE
    BY DiskAssumption DEF DiskInv, FileKept, DiskFile
  <2>4. /\ DiskInv' /\ fp'.view = fp.view /\ disk_at = Pos
        /\ DiskStore!Kept \/ DiskStore!Flushed
    <3>1. fp = Transfer(bits)[1] /\ ram' \in [Slots -> Contents]
      BY <1>0, <2>1
    <3> QED
      BY <2>2, <2>3, <3>1, CtrlKeeps
  <2>5. DiskStore!Read(disk.ram)
    BY <1>0, <1>1, <2>1, <2>4 DEF DiskStore!Read, DiskStore!Blocks, Blocks
  <2> QED
    BY <1>0, <2>4, <2>5 DEF DiskStep, DiskStore!Next
<1>2. CASE Pos \in Blocks /\ fp.view[Pos] # Absent
  <2> DEFINE n == fp.pos + SECTOR_SIZE
             f == [fp EXCEPT !.pos = n]
  <2>1. n \in Nat /\ n = fp.pos + 1 * SECTOR_SIZE
    BY DiskAssumption DEF DiskInv, FileKept, DiskFile
  <2>2. FileKept(f, disk_dirty) /\ f.view = fp.view /\ f.pos = n
    BY <2>1, MoveKeepsFile DEF DiskInv
  <2>3. Transfer(bits) = <<f, [ram EXCEPT ![disk.ram] = fp.view[Pos]]>>
    BY <1>0, <1>2 DEF ReadSector, Transferred
  <2> HIDE DEF f, n
  <2>4. FileKept(f, disk_dirty \cup Changed(f, fp))
    BY <2>2 DEF DiskInv, FileKept, Changed
  <2>5. fp.view[Pos] \in Contents
    BY <1>0, <1>2 DEF DiskInv, FileKept, DiskFile, Medium
  <2>6. ram' = [ram EXCEPT ![disk.ram] = fp.view[Pos]] /\ ram' \in [Slots -> Contents]
    BY <1>0, <2>3, <2>5
  <2>7. /\ DiskInv' /\ fp'.view = f.view /\ disk_at = Pos
        /\ DiskStore!Kept \/ DiskStore!Flushed
    <3>1. f = Transfer(bits)[1] /\ f.pos = fp.pos + 1 * SECTOR_SIZE
      BY <2>1, <2>2, <2>3
    <3> QED
      BY <2>4, <2>6, <3>1, CtrlKeeps
  <2>8. DiskStore!Read(disk.ram)
    BY <1>0, <2>2, <2>6, <2>7 DEF DiskStore!Read
  <2> QED
    BY <1>0, <2>7, <2>8 DEF DiskStep, DiskStore!Next
<1> QED
  BY <1>1, <1>2

LEMMA PutKeeps ==
  ASSUME DiskInv, NEW bits \in SUBSET {"READ", "WRITE", "ERASE", "FLUSH"}, WriteCtrl(bits),
         NEW d \in Contents, Transfer(bits) = WriteSector(d), Command(bits) = "write", Pos \in Blocks
  PROVE  DiskInv' /\ DiskStore!Put(d) /\ (DiskStore!Kept \/ DiskStore!Flushed)
<1> DEFINE f == Transferred(fwrite(fp, Pos, d))
<1>2. /\ FileKept(f, disk_dirty \cup Changed(f, fp))
      /\ f.view = Extended(fp.view, Pos, d) /\ f.pos = fp.pos + SECTOR_SIZE
  BY WriteKeepsFile DEF DiskInv
<1>4. Transfer(bits) = <<f, ram>>
  BY DEF WriteSector
<1> HIDE DEF f
<1>5. ram' = ram /\ ram' \in [Slots -> Contents] /\ disk_done' = "write"
  BY <1>4 DEF WriteCtrl, DiskInv
<1>6. /\ DiskInv' /\ fp'.view = f.view /\ disk_at = Pos
      /\ DiskStore!Kept \/ DiskStore!Flushed
  <2>1. f = Transfer(bits)[1] /\ f.pos = fp.pos + 1 * SECTOR_SIZE
    BY <1>2, <1>4, DiskAssumption
  <2> QED
    BY <1>2, <1>5, <2>1, CtrlKeeps
<1>7. DiskStore!Put(d)
  BY <1>2, <1>5, <1>6 DEF DiskStore!Put, DiskStore!Extended, DiskStore!Blocks, Extended, Blocks
<1> QED
  BY <1>6, <1>7

LEMMA WriteCtrlKeeps ==
  ASSUME DiskInv, NEW bits \in SUBSET {"READ", "WRITE", "ERASE", "FLUSH"}, WriteCtrl(bits)
  PROVE  DiskInv' /\ DiskStep
<1>0. disk.ram \in Slots /\ ram[disk.ram] \in Contents
  BY DEF DiskInv
<1>1. CASE "READ" \in bits
  BY <1>1, ReadKeeps
<1>2. CASE "READ" \notin bits /\ "WRITE" \in bits
  <2>1. /\ Transfer(bits) = WriteSector(ram[disk.ram]) /\ Command(bits) = "write"
        /\ Pos \in Blocks
    BY <1>2 DEF Transfer, Command, Writes, WriteCtrl
  <2> QED
    BY <1>0, <2>1, PutKeeps DEF DiskStep, DiskStore!Next
<1>3. CASE bits \cap {"READ", "WRITE"} = {} /\ "ERASE" \in bits
  <2>1. /\ Transfer(bits) = WriteSector(Erased) /\ Command(bits) = "write"
        /\ Pos \in Blocks
    BY <1>3 DEF Transfer, Command, Writes, WriteCtrl
  <2> QED
    BY <2>1, PutKeeps, NotAbsent DEF DiskStep, DiskStore!Next
<1>4. CASE bits \subseteq {"FLUSH"}
  BY <1>4, NoTransferKeeps
<1> QED
  BY <1>1, <1>2, <1>3, <1>4

LEMMA DiskKeeps ==
  ASSUME DiskInv, [DiskNext]_disk_vars
  PROVE  DiskInv' /\ DiskStep
<1>1. CASE UNCHANGED disk_vars
  BY <1>1 DEF disk_vars, DiskInv, DiskStep
<1>2. CASE DiskNext
  BY <1>2, HighKeeps, LowKeeps, AddrKeeps, StoreKeeps, BackKeeps, CrashKeeps, WriteCtrlKeeps
     DEF DiskNext
<1> QED
  BY <1>1, <1>2

\* Every image has its blocks from the first one on, a new one all of them.
LEMMA DiskStarts ==
  ASSUME DiskInit
  PROVE  DiskInv
<1>0. disk_at = Pos /\ high = NoByte /\ disk_dirty = {} /\ ram \in [Slots -> Contents]
  BY NotAbsent DEF DiskInit, DiskStarted
<1>1. CASE \E c \in Images : fp = disk_reset(disk_create(c)) /\ disk = DiskStarted.disk
  <2>1. PICK c \in Images : fp = disk_reset(disk_create(c))
    BY <1>1
  <2>2. PICK n \in ImageSizes : c = [b \in Blocks |-> IF b < n THEN Zero ELSE Absent]
    BY DEF Images
  <2>3. c \in Medium
    BY <2>2, NotAbsent DEF Medium
  <2>4. NoHoles(c)
    BY <2>2, BlocksAreNat, ContentsAssumption, DiskAssumption DEF NoHoles
  <2>5. fp \in DiskFile /\ fp.view = c /\ fp.disk = c /\ fp.pos = 0
    BY <2>1, <2>3 DEF disk_reset, disk_create, fflush, DiskFile
  <2>6. FileKept(fp, {})
    BY <2>4, <2>5 DEF FileKept
  <2>7. Pos = 0 /\ 0 = 0 * SECTOR_SIZE
    BY <2>5, PosIsAt, DiskAssumption DEF Pos
  <2>8. disk \in [offset : Nat, ram : Slots]
    BY <1>1, DiskAssumption DEF DiskStarted
  <2> QED
    BY <1>0, <2>5, <2>6, <2>7, <2>8 DEF DiskInv
<1>2. CASE fp = disk_format /\ disk = [DiskStarted.disk EXCEPT !.offset = LastOffset]
  <2> DEFINE v == [b \in Blocks |-> Erased]
             n == DISK_SECTOR_COUNT
  <2>1. n \in Nat /\ n - 1 \in Nat
    BY BlocksAssumption DEF DISK_SECTOR_COUNT
  <2>2. fp.view = v /\ fp.disk = v /\ fp.pos = n * SECTOR_SIZE
    BY <1>2 DEF disk_format
  <2>3. v \in Medium /\ NoHoles(v)
    BY NotAbsent DEF Medium, NoHoles
  <2> HIDE DEF n, v
  <2>4. fp.pos \in Nat /\ Pos = n
    BY <2>1, <2>2, PosIsAt DEF Pos
  <2>5. fp \in DiskFile
    <3>1. fp = [view |-> fp.view, disk |-> fp.disk, pos |-> fp.pos]
      BY <1>2 DEF disk_format
    <3> QED
      BY <2>2, <2>3, <2>4, <3>1 DEF DiskFile
  <2>6. FileKept(fp, {})
    BY <2>2, <2>3, <2>5 DEF FileKept
  <2>7. disk \in [offset : Nat, ram : Slots]
    <3>1. LastOffset \in Nat
      BY <2>1, PosIsAt DEF LastOffset, n
    <3> QED
      BY <1>2, <3>1, DiskAssumption DEF DiskStarted
  <2> QED
    BY <1>0, <2>1, <2>2, <2>4, <2>6, <2>7 DEF DiskInv
<1> QED
  BY <1>1, <1>2 DEF DiskInit

\* The drive is a block store for every geometry, in whatever order its registers
\* are written: a command moves the sector the driver means, and what was flushed
\* is there after a kill.
THEOREM DiskIsStore == DiskSpec => DiskImplementsStore
<1>1. DiskInit => DiskStore!Init
  BY DEF DiskInit, DiskStore!Init
<1>2. DiskInv /\ [DiskNext]_disk_vars => [DiskStore!Next]_(DiskStore!store_vars)
  BY DiskKeeps DEF DiskStep, DiskStore!store_vars
<1>3. DiskInv /\ [DiskNext]_disk_vars => DiskInv'
  BY DiskKeeps
<1> QED
  BY <1>1, <1>2, <1>3, DiskStarts, PTL DEF DiskSpec, DiskImplementsStore, DiskStore!Spec

-----------------------------------------------------------------------------
(* The card. *)

SdMedium == [Blocks -> SdBlock \cup {Absent}]
Lbas     == [0..2 -> Nat]
McState  == [state : 0..4, poll : Nat, dindex : Nat, addr : Nat, data : SdBlock]
Driver   == [lba : Lbas, fresh : BOOLEAN, buffer : SdBlock, moved : Nat]

SdTyped ==
  /\ sd_file \in [view : SdMedium]
  /\ mc \in McState
  /\ lba \in Lbas
  /\ driver \in Driver

\* The inductive invariant.  The driver knows the LBA registers, but SDLBA0
\* only if it has been written since the last command.  While a command runs,
\* the controller has latched the block the driver means, both have counted the
\* same bytes, those that were moved are equal on both sides, and what is being
\* read is still what the image has there.
SdInv ==
  /\ SdTyped
  /\ \A i \in {1, 2} : driver.lba[i] = lba[i]
  /\ driver.fresh => driver.lba[0] = lba[0]
  /\ mc.state \in {3, 4} =>
       /\ mc.addr = sd_at
       /\ driver.moved = mc.dindex /\ mc.dindex < BlockSize
       /\ \A i \in 1..mc.dindex : driver.buffer[i] = mc.data[i]
  /\ mc.state = 3 /\ mc.addr \in Blocks /\ sd_file.view[mc.addr] # Absent =>
       mc.data = sd_file.view[mc.addr]

SdStep == [SdStore!Next]_<<sd_file.view, [s \in {0} |-> driver.buffer], sd_at, sd_done, {}>>

\* What a step that leaves image, buffer and block alone refines.
LEMMA SdQuiet ==
  ASSUME UNCHANGED <<sd_file, driver.buffer>>, \/ UNCHANGED <<sd_at, sd_done>>
                                              \/ sd_done' = "none"
  PROVE  SdStep
BY DEF SdStep, SdStore!Next, SdStore!Driver

\* What one that only changes the buffer refines.
LEMMA SdFills ==
  ASSUME UNCHANGED <<sd_file, sd_at>>, sd_done' \in {sd_done, "none"}
  PROVE  SdStep
BY DEF SdStep, SdStore!Next, SdStore!Driver

LEMMA BlockOfTyped ==
  ASSUME NEW r \in Lbas
  PROVE  BlockOf(r) \in Nat
<1>1. r[0] \in Nat /\ r[1] \in Nat /\ r[2] % SdLba2Values \in Nat
  BY SdAssumption DEF Lbas
<1>2. SdByteValues \in Nat
  BY SdAssumption
<1>3. (r[2] % SdLba2Values) * SdByteValues \in Nat /\ r[1] * SdByteValues \in Nat
  BY <1>1, <1>2
<1>4. (r[2] % SdLba2Values) * SdByteValues * SdByteValues \in Nat
  BY <1>2, <1>3
<1> QED
  BY <1>1, <1>3, <1>4 DEF BlockOf

LEMMA LbaKeeps ==
  ASSUME SdInv, NEW i \in 0..2, NEW val \in SdRegisters, WriteLba(i, val)
  PROVE  SdInv' /\ SdStep
<1>1. val \in Nat
  BY SdAssumption
<1>2. lba' = [lba EXCEPT ![i] = val] /\ lba' \in Lbas
  BY <1>1 DEF WriteLba, SdInv, SdTyped, Lbas
<1>3. /\ driver' \in Driver /\ driver'.lba = [driver.lba EXCEPT ![i] = val]
      /\ driver'.fresh = (driver.fresh \/ i = 0)
      /\ driver'.buffer = driver.buffer /\ driver'.moved = driver.moved
  BY <1>1 DEF WriteLba, SdInv, SdTyped, Driver, Lbas
<1>4. UNCHANGED <<sd_file, mc, sd_at, sd_done>>
  BY DEF WriteLba
<1>5. \A j \in {1, 2} : driver'.lba[j] = lba'[j]
  BY <1>2, <1>3 DEF SdInv, SdTyped, Driver, Lbas
<1>6. driver'.fresh => driver'.lba[0] = lba'[0]
  BY <1>2, <1>3 DEF SdInv, SdTyped, Driver, Lbas
<1>7. SdInv'
  BY <1>2, <1>3, <1>4, <1>5, <1>6 DEF SdInv, SdTyped
<1> QED
  BY <1>3, <1>4, <1>7, SdQuiet

\* An assignment to the controller's state.
McSet(m, state, poll, dindex, addr, d) ==
  [[m EXCEPT !.poll = poll, !.state = state] EXCEPT !.dindex = dindex, !.addr = addr, !.data = d]

LEMMA McSetTyped ==
  ASSUME NEW m, NEW state, NEW poll, NEW dindex, NEW addr, NEW d,
         m \in McState, state \in 0..4, poll \in Nat, dindex \in Nat, addr \in Nat, d \in SdBlock
  PROVE  LET n == McSet(m, state, poll, dindex, addr, d)
         IN  /\ n \in McState /\ n.state = state
             /\ n.dindex = dindex /\ n.addr = addr /\ n.data = d
<1> DEFINE l == [m EXCEPT !.poll = poll, !.state = state]
           n == [l EXCEPT !.dindex = dindex, !.addr = addr, !.data = d]
<1>1. l \in McState /\ l.state = state
  BY DEF McState
<1> HIDE DEF l
<1>2. n \in McState /\ n.state = state /\ n.dindex = dindex /\ n.addr = addr /\ n.data = d
  BY <1>1 DEF McState
<1> QED
  BY <1>2 DEF McSet, l

\* SDCONTROL leaves its value in SDLBA0, which is not fresh then.
LEMMA ControlKeeps ==
  ASSUME SdInv, NEW val \in SdCommands, WriteControl(val)
  PROVE  SdInv' /\ SdStep
<1>1. val \in Nat /\ BlockOf(lba) \in Nat
  BY SdAssumption, BlockOfTyped DEF SdInv, SdTyped
<1>2. lba' = [lba EXCEPT ![0] = val] /\ lba' \in Lbas
  BY <1>1 DEF WriteControl, SdInv, SdTyped, Lbas
<1>3. /\ driver' \in Driver /\ driver'.lba = driver.lba /\ ~driver'.fresh
      /\ driver'.buffer = driver.buffer
      /\ driver'.moved = (IF mc.state = 2 THEN 0 ELSE driver.moved)
  BY DEF WriteControl, SdInv, SdTyped, Driver
<1>4. \A j \in {1, 2} : driver'.lba[j] = lba'[j]
  BY <1>2, <1>3 DEF SdInv, SdTyped, Lbas
<1>5. sd_file' = sd_file
  BY DEF WriteControl
<1>8. mc \in McState /\ 0 \in Nat /\ 3 \in 0..4 /\ 4 \in 0..4
  BY DEF SdInv, SdTyped
<1>6. CASE mc.state # 2
  <2>1. UNCHANGED <<mc, sd_at, sd_done>>
    BY <1>6 DEF WriteControl
  <2>2. SdInv'
    BY <1>2, <1>3, <1>4, <1>5, <1>6, <2>1 DEF SdInv, SdTyped
  <2> QED
    BY <1>3, <1>5, <2>1, <2>2, SdQuiet
<1>7. CASE mc.state = 2
  <2>1. sd_at' = MeantBlock /\ sd_done' = "none"
    BY <1>7 DEF WriteControl
  <2>2. SdStep
    BY <1>3, <1>5, <2>1, SdQuiet
  <2>3. sd_at' = BlockOf(lba)
    <3> DEFINE r == [driver.lba EXCEPT ![0] = IF driver.fresh THEN @ ELSE lba[0]]
    <3>1. r[0] = lba[0] /\ r[1] = lba[1] /\ r[2] = lba[2]
      BY DEF SdInv, SdTyped, Driver, Lbas
    <3>2. MeantBlock = BlockOf(r)
      BY DEF MeantBlock
    <3> HIDE DEF r
    <3>3. BlockOf(r) = BlockOf(lba)
      BY <3>1 DEF BlockOf
    <3> QED
      BY <2>1, <3>2, <3>3
  <2>4. CASE val = 0
    <3> DEFINE there == BlockOf(lba) \in Blocks /\ sd_file.view[BlockOf(lba)] # Absent
               block == IF there THEN sd_file.view[BlockOf(lba)] ELSE mc.data
    <3>1. ReadCommand(BlockOf(lba))
      BY <1>7, <2>4 DEF WriteControl
    <3>2. block \in SdBlock
      BY DEF SdInv, SdTyped, SdMedium, McState
    <3>3. /\ mc' \in McState /\ mc'.state = 3 /\ mc'.dindex = 0
          /\ mc'.addr = BlockOf(lba) /\ mc'.data = block
      <4>1. mc' = [mc EXCEPT !.state = 3, !.poll = 0, !.dindex = 0, !.addr = BlockOf(lba), !.data = block]
        BY <3>1 DEF ReadCommand
      <4> HIDE DEF block
      <4> QED
        <5>1. mc' = McSet(mc, 3, 0, 0, BlockOf(lba), block)
          BY <4>1, <1>8 DEF McState, McSet
        <5>2. LET m == McSet(mc, 3, 0, 0, BlockOf(lba), block)
              IN  /\ m \in McState /\ m.state = 3
                  /\ m.dindex = 0 /\ m.addr = BlockOf(lba) /\ m.data = block
          BY <1>1, <1>8, <3>2, McSetTyped
        <5> QED
          BY <5>1, <5>2
    <3>4. there => mc'.data = sd_file.view[mc'.addr]
      BY <3>3
    <3> HIDE DEF block
    <3>5. SdInv'
      BY <1>2, <1>3, <1>4, <1>5, <1>7, <2>3, <2>4, <3>3, <3>4, SdAssumption DEF SdInv, SdTyped
    <3> QED
      BY <2>2, <3>5
  <2>5. CASE val = 1
    <3>1. WriteCommand(BlockOf(lba))
      BY <1>7, <2>5 DEF WriteControl
    <3>2. /\ mc' \in McState /\ mc'.state = 4 /\ mc'.dindex = 0 /\ mc'.addr = BlockOf(lba)
      <4>1. mc' = McSet(mc, 4, 0, 0, BlockOf(lba), mc.data)
        BY <3>1, <1>8 DEF WriteCommand, McState, McSet
      <4>2. mc.data \in SdBlock
        BY <1>8 DEF McState
      <4>3. LET m == McSet(mc, 4, 0, 0, BlockOf(lba), mc.data)
            IN  m \in McState /\ m.state = 4 /\ m.dindex = 0 /\ m.addr = BlockOf(lba)
        BY <1>1, <1>8, <4>2, McSetTyped
      <4> QED
        BY <4>1, <4>3
    <3>3. SdInv'
      BY <1>2, <1>3, <1>4, <1>5, <1>7, <2>3, <2>5, <3>2, SdAssumption DEF SdInv, SdTyped
    <3> QED
      BY <2>2, <3>3
  <2>6. CASE val \notin {0, 1}
    <3>1. UnknownCommand(BlockOf(lba))
      BY <1>7, <2>6 DEF WriteControl
    <3>2. mc' \in McState /\ mc'.state = 2
      BY <1>1, <1>7, <3>1 DEF UnknownCommand, SdInv, SdTyped, McState
    <3>3. SdInv'
      BY <1>2, <1>3, <1>4, <1>5, <3>2 DEF SdInv, SdTyped
    <3> QED
      BY <2>2, <3>3
  <2> QED
    BY <2>4, <2>5, <2>6
<1> QED
  BY <1>6, <1>7

LEMMA StatusKeeps ==
  ASSUME SdInv, ReadStatus
  PROVE  SdInv' /\ SdStep
<1>1. UNCHANGED <<sd_file, lba, driver, sd_at, sd_done>>
  BY DEF ReadStatus
<1>2. /\ mc' \in McState /\ mc'.addr = mc.addr /\ mc'.dindex = mc.dindex /\ mc'.data = mc.data
      /\ mc'.state = mc.state \/ mc'.state \in {1, 2}
  <2>1. CASE /\ mc.state = 1
             /\ mc' = [mc EXCEPT !.poll = @ + 1, !.state = IF mc.poll + 1 = INIT_POLLS THEN 2 ELSE 1]
    <3> DEFINE n == IF mc.poll + 1 = INIT_POLLS THEN 2 ELSE 1
    <3>1. n \in 1..2 /\ mc' = [mc EXCEPT !.poll = mc.poll + 1, !.state = n]
      BY <2>1
    <3>2. /\ mc \in McState /\ mc.poll + 1 \in Nat /\ n \in 0..4
          /\ mc.dindex \in Nat /\ mc.addr \in Nat /\ mc.data \in SdBlock
      BY DEF SdInv, SdTyped, McState
    <3> HIDE DEF n
    <3>3. mc' = McSet(mc, n, mc.poll + 1, mc.dindex, mc.addr, mc.data)
      BY <3>1, <3>2 DEF McSet, McState
    <3>4. LET m == McSet(mc, n, mc.poll + 1, mc.dindex, mc.addr, mc.data)
          IN  /\ m \in McState /\ m.state = n
              /\ m.dindex = mc.dindex /\ m.addr = mc.addr /\ m.data = mc.data
      BY <3>2, McSetTyped
    <3> QED
      BY <3>1, <3>3, <3>4
  <2>2. CASE mc' = [mc EXCEPT !.poll = @ + 1]
    BY <2>2 DEF SdInv, SdTyped, McState
  <2> QED
    BY <2>1, <2>2 DEF ReadStatus
<1>3. SdInv'
  BY <1>1, <1>2 DEF SdInv, SdTyped
<1> QED
  BY <1>1, <1>3, SdQuiet

LEMMA FillKeeps ==
  ASSUME SdInv, NEW contents \in SdData, FillBuffer(contents)
  PROVE  SdInv' /\ SdStep
<1>1. UNCHANGED <<sd_file, mc, lba, sd_at, sd_done>> /\ mc.state = 2
  BY DEF FillBuffer
<1>2. /\ driver' \in Driver /\ driver'.lba = driver.lba /\ driver'.fresh = driver.fresh
  BY SdAssumption DEF FillBuffer, SdInv, SdTyped, Driver
<1>3. SdInv'
  BY <1>1, <1>2 DEF SdInv, SdTyped
<1> QED
  BY <1>1, <1>3, SdFills

LEMMA StartedTyped ==
  /\ \A state \in 0..4 : McStarted(state) \in McState /\ McStarted(state).state = state
  /\ LbaStarted \in Lbas /\ DriverStarted \in Driver
  /\ DriverStarted.lba = LbaStarted /\ ~DriverStarted.fresh
BY SdAssumption DEF McStarted, McState, LbaStarted, Lbas, DriverStarted, Driver

LEMMA RestartKeeps ==
  ASSUME SdInv, SdRestart
  PROVE  SdInv' /\ SdStep
<1>1. /\ mc' \in McState /\ mc'.state = 1 /\ lba' \in Lbas /\ driver' \in Driver
      /\ driver'.lba = lba' /\ ~driver'.fresh
  BY StartedTyped DEF SdRestart
<1>2. sd_file' = sd_file /\ sd_done' = "none"
  BY DEF SdRestart
<1>3. SdInv'
  BY <1>1, <1>2 DEF SdInv, SdTyped
<1>4. SdStep
  BY <1>2 DEF SdStep, SdStore!Next, SdStore!Crash
<1> QED
  BY <1>3, <1>4

Moved(from, to, n) == [to EXCEPT ![n + 1] = from[n + 1]]

\* One more byte on one side makes both sides equal up to there; after the last
\* one they are equal.
LEMMA ByteMoved ==
  ASSUME NEW from, NEW to, NEW n, from \in SdBlock, to \in SdBlock, n \in Nat, n < BlockSize,
         \A i \in 1..n : from[i] = to[i]
  PROVE  LET moved == Moved(from, to, n)
         IN  /\ moved \in SdBlock
             /\ \A i \in 1..(n + 1) : moved[i] = from[i]
             /\ n + 1 = BlockSize => moved = from
<1> DEFINE moved == Moved(from, to, n)
<1>0. BlockSize \in Nat /\ n + 1 \in 1..BlockSize
  BY SdAssumption
<1>1. moved \in SdBlock /\ \A i \in 1..BlockSize : moved[i] = IF i = n + 1 THEN from[i] ELSE to[i]
  BY <1>0 DEF SdBlock, Moved
<1> HIDE DEF moved
<1>2. \A i \in 1..(n + 1) : moved[i] = from[i]
  BY <1>0, <1>1
<1>3. ASSUME n + 1 = BlockSize
      PROVE  moved = from
  BY <1>1, <1>2, <1>3 DEF SdBlock
<1> QED
  BY <1>1, <1>2, <1>3 DEF moved

LEMMA ReadDataKeeps ==
  ASSUME SdInv, ReadData
  PROVE  SdInv' /\ SdStep
<1> DEFINE state == IF mc.dindex = BlockSize - 1 THEN 2 ELSE 3
           buffer == Moved(mc.data, driver.buffer, mc.dindex)
<1>1. /\ mc \in McState /\ mc.state = 3 /\ mc.addr = sd_at /\ driver.moved = mc.dindex
      /\ mc.dindex \in Nat /\ mc.dindex < BlockSize /\ mc.addr \in Nat /\ mc.data \in SdBlock
      /\ driver \in Driver /\ driver.buffer \in SdBlock
      /\ \A i \in 1..mc.dindex : mc.data[i] = driver.buffer[i]
      /\ BlockSize \in Nat
  BY SdAssumption DEF ReadData, Ready, SdInv, SdTyped, McState, Driver
<1>2. /\ buffer \in SdBlock
      /\ \A i \in 1..(mc.dindex + 1) : buffer[i] = mc.data[i]
      /\ mc.dindex + 1 = BlockSize => buffer = mc.data
  BY <1>1, ByteMoved
<1>3. UNCHANGED <<sd_file, lba, sd_at>>
  BY DEF ReadData
<1>4. /\ driver' \in Driver /\ driver'.lba = driver.lba /\ driver'.fresh = driver.fresh
      /\ driver'.buffer = buffer /\ driver'.moved = mc.dindex + 1
  <2>1. driver' = [driver EXCEPT !.buffer = buffer, !.moved = mc.dindex + 1]
    BY <1>1 DEF ReadData, Driver, Moved
  <2>2. mc.dindex + 1 \in Nat
    BY <1>1
  <2> HIDE DEF buffer
  <2>3. driver' \in Driver
    BY <1>1, <1>2, <2>1, <2>2 DEF Driver
  <2>4. driver'.buffer = buffer /\ driver'.moved = mc.dindex + 1
    BY <1>1, <2>1 DEF Driver
  <2>5. driver'.lba = driver.lba
    BY <1>1, <2>1 DEF Driver
  <2>6. driver'.fresh = driver.fresh
    BY <1>1, <2>1 DEF Driver
  <2> QED
    BY <2>3, <2>4, <2>5, <2>6
<1>5. state \in 0..4 /\ (state = 3 => mc.dindex + 1 < BlockSize)
      /\ (state # 3 => state = 2 /\ mc.dindex + 1 = BlockSize)
  BY <1>1
<1>6. /\ mc' \in McState /\ mc'.state = state /\ mc'.dindex = mc.dindex + 1
      /\ mc'.addr = mc.addr /\ mc'.data = mc.data
  <2>1. mc' = [mc EXCEPT !.poll = 0, !.dindex = @ + 1, !.state = state]
    BY DEF ReadData
  <2> HIDE DEF state
  <2>2. mc' = McSet(mc, state, 0, mc.dindex + 1, mc.addr, mc.data)
    BY <1>1, <2>1 DEF McSet, McState
  <2>3. LET m == McSet(mc, state, 0, mc.dindex + 1, mc.addr, mc.data)
        IN  /\ m \in McState /\ m.state = state /\ m.dindex = mc.dindex + 1
            /\ m.addr = mc.addr /\ m.data = mc.data
    BY <1>1, <1>5, McSetTyped
  <2> QED
    BY <2>2, <2>3
<1> HIDE DEF state, buffer
<1>7. SdInv'
  <2>1. SdTyped'
    BY <1>3, <1>4, <1>6 DEF SdInv, SdTyped
  <2>2. mc'.state \in {3, 4} =>
          /\ mc'.addr = sd_at'
          /\ driver'.moved = mc'.dindex /\ mc'.dindex < BlockSize
          /\ \A i \in 1..mc'.dindex : driver'.buffer[i] = mc'.data[i]
    BY <1>1, <1>2, <1>3, <1>4, <1>5, <1>6
  <2> QED
    BY <1>1, <1>3, <1>4, <1>6, <2>1, <2>2 DEF SdInv
<1>8. CASE state = 3
  <2>1. sd_done' = "none"
    BY <1>6, <1>8 DEF ReadData
  <2> QED
    BY <1>3, <1>7, <2>1, SdFills
<1>9. CASE state # 3
  <2>1. sd_done' = "read"
    BY <1>5, <1>6, <1>9 DEF ReadData
  <2>2. sd_at \in Blocks /\ sd_file.view[sd_at] # Absent => driver'.buffer = sd_file.view[sd_at]
    BY <1>1, <1>2, <1>4, <1>5, <1>9 DEF SdInv
  <2>3. SdStore!Read(0)
    BY <1>3, <2>1, <2>2 DEF SdStore!Read, SdStore!Blocks, Blocks
  <2>4. SdStep
    BY <2>3 DEF SdStep, SdStore!Next, SdStore!Flushed
  <2> QED
    BY <1>7, <2>4
<1> QED
  BY <1>8, <1>9

LEMMA WriteDataKeeps ==
  ASSUME SdInv, WriteData
  PROVE  SdInv' /\ SdStep
<1> DEFINE block == Moved(driver.buffer, mc.data, mc.dindex)
           state == IF mc.dindex + 1 = BlockSize THEN 2 ELSE 4
<1>1. /\ mc \in McState /\ mc.state = 4 /\ mc.addr = sd_at /\ driver.moved = mc.dindex
      /\ mc.dindex \in Nat /\ mc.dindex < BlockSize /\ mc.addr \in Nat /\ mc.data \in SdBlock
      /\ driver \in Driver /\ driver.buffer \in SdBlock
      /\ \A i \in 1..mc.dindex : driver.buffer[i] = mc.data[i]
      /\ BlockSize \in Nat
  BY SdAssumption DEF WriteData, Ready, SdInv, SdTyped, McState, Driver
<1>2. /\ block \in SdBlock
      /\ \A i \in 1..(mc.dindex + 1) : block[i] = driver.buffer[i]
      /\ mc.dindex + 1 = BlockSize => block = driver.buffer
  BY <1>1, ByteMoved
<1>3. UNCHANGED <<lba, sd_at>>
  BY DEF WriteData
<1>4. /\ driver' \in Driver /\ driver'.lba = driver.lba /\ driver'.fresh = driver.fresh
      /\ driver'.buffer = driver.buffer /\ driver'.moved = mc.dindex + 1
  <2>1. driver' = [driver EXCEPT !.moved = mc.dindex + 1]
    BY <1>1 DEF WriteData
  <2> QED
    BY <1>1, <2>1 DEF Driver
<1>5. state \in 0..4 /\ state \in {2, 4} /\ (state = 2 <=> mc.dindex + 1 = BlockSize)
  BY <1>1
<1>6. /\ mc' \in McState /\ mc'.state = state /\ mc'.dindex = mc.dindex + 1
      /\ mc'.addr = mc.addr /\ mc'.data = block
  <2>1. mc' = [mc EXCEPT !.poll = 0, !.dindex = @ + 1, !.data = block, !.state = state]
    BY <1>1 DEF WriteData, WriteEnds, Moved
  <2> HIDE DEF state, block
  <2>2. mc' = McSet(mc, state, 0, mc.dindex + 1, mc.addr, block)
    BY <1>1, <2>1 DEF McSet, McState
  <2>3. LET m == McSet(mc, state, 0, mc.dindex + 1, mc.addr, block)
        IN  /\ m \in McState /\ m.state = state /\ m.dindex = mc.dindex + 1
            /\ m.addr = mc.addr /\ m.data = block
    BY <1>1, <1>2, <1>5, McSetTyped
  <2> QED
    BY <2>2, <2>3
<1>7. /\ state = 2 => /\ sd_file' = IF sd_at < Seekable THEN fwrite(sd_file, sd_at, block) ELSE sd_file
                      /\ sd_done' = "write"
      /\ state = 4 => sd_file' = sd_file /\ sd_done' = "none"
  BY <1>1 DEF WriteData, WriteEnds, Commit, Moved
<1>12. sd_at < Seekable <=> sd_at \in Blocks
  BY <1>1, SdAssumption, BlocksAssumption DEF Blocks
<1> HIDE DEF state, block
<1>8. /\ sd_file' \in [view : SdMedium]
      /\ state = 2 => sd_file'.view = IF sd_at \in Blocks THEN Extended(sd_file.view, sd_at, block)
                                      ELSE sd_file.view
  <2>1. sd_file \in [view : SdMedium]
    BY DEF SdInv, SdTyped
  <2>2. Extended(sd_file.view, sd_at, block) \in SdMedium
    BY <1>2, <2>1, SdAssumption DEF Extended, SdMedium
  <2>3. fwrite(sd_file, sd_at, block) \in [view : SdMedium]
        /\ fwrite(sd_file, sd_at, block).view = Extended(sd_file.view, sd_at, block)
    BY <2>1, <2>2 DEF fwrite
  <2> QED
    BY <1>5, <1>7, <1>12, <2>1, <2>3
<1>9. SdInv'
  <2>1. SdTyped'
    BY <1>3, <1>4, <1>6, <1>8 DEF SdInv, SdTyped
  <2>2. mc'.state \in {3, 4} =>
          /\ mc'.addr = sd_at'
          /\ driver'.moved = mc'.dindex /\ mc'.dindex < BlockSize
          /\ \A i \in 1..mc'.dindex : driver'.buffer[i] = mc'.data[i]
    BY <1>1, <1>2, <1>3, <1>4, <1>5, <1>6
  <2>3. mc'.state # 3
    BY <1>5, <1>6
  <2> QED
    BY <1>3, <1>4, <2>1, <2>2, <2>3 DEF SdInv
<1>10. CASE state = 4
  BY <1>3, <1>7, <1>9, <1>10, SdFills
<1>11. CASE state = 2
  <2>1. sd_file'.view = IF sd_at \in Blocks THEN Extended(sd_file.view, sd_at, driver.buffer)
                         ELSE sd_file.view
    BY <1>2, <1>5, <1>8, <1>11
  <2>2. SdStore!Put(driver.buffer)
    BY <1>4, <1>7, <1>11, <2>1 DEF SdStore!Put, SdStore!Extended, SdStore!Blocks, Extended, Blocks
  <2>3. SdStep
    BY <2>2 DEF SdStep, SdStore!Next, SdStore!Flushed
  <2> QED
    BY <1>9, <2>3
<1> QED
  BY <1>5, <1>10, <1>11

LEMMA SdKeeps ==
  ASSUME SdInv, [SdNext]_sd_vars
  PROVE  SdInv' /\ SdStep
<1>1. CASE UNCHANGED sd_vars
  BY <1>1 DEF sd_vars, SdInv, SdTyped, SdStep
<1>2. CASE Spin
  BY <1>1, <1>2 DEF Spin
<1>3. CASE SdNext
  BY <1>2, <1>3, LbaKeeps, ControlKeeps, StatusKeeps, ReadDataKeeps, WriteDataKeeps, FillKeeps,
     RestartKeeps DEF SdNext
<1> QED
  BY <1>1, <1>3

LEMMA SdStarts ==
  ASSUME SdInit
  PROVE  SdInv
<1>1. PICK old \in SdImages :
        sd_file = [view |-> [b \in Blocks |-> IF b < Len(old) THEN old[b + 1] ELSE Absent]]
  BY DEF SdInit
<1>2. ASSUME NEW b \in Blocks, b < Len(old)
      PROVE  old[b + 1] \in SdBlock
  <2>1. old \in Seq(SdBlock) /\ b \in Nat /\ Len(old) \in Nat
    BY SdAssumption, BlocksAreNat
  <2>2. b + 1 \in 1..Len(old)
    BY <1>2, <2>1
  <2> QED
    BY <2>1, <2>2
<1>3. sd_file \in [view : SdMedium]
  BY <1>1, <1>2 DEF SdMedium
<1>4. /\ mc \in McState /\ mc.state \in {0, 1} /\ lba \in Lbas /\ driver \in Driver
      /\ driver.lba = lba /\ ~driver.fresh
  BY StartedTyped DEF SdInit
<1> QED
  BY <1>3, <1>4 DEF SdInv, SdTyped

\* The card is a block store for every block size and every number of polls and
\* every sequence of commands: the block of a command is moved whole, and no other
\* one changes.
THEOREM SdIsStore == SdSpec => SdImplementsStore
<1>1. SdInit => SdStore!Init
  BY DEF SdInit, SdStore!Init
<1>2. SdInv /\ [SdNext]_sd_vars => [SdStore!Next]_(SdStore!store_vars)
  BY SdKeeps DEF SdStep, SdStore!store_vars
<1>3. SdInv /\ [SdNext]_sd_vars => SdInv'
  BY SdKeeps
<1> QED
  BY <1>1, <1>2, <1>3, SdStarts, PTL DEF SdSpec, SdImplementsStore, SdStore!Spec

-----------------------------------------------------------------------------
(* The loaders: arithmetic. *)

LEMMA DivMod ==
  ASSUME NEW n \in Nat \ {0}, NEW x \in Nat
  PROVE  x = n * (x \div n) + (x % n) /\ x % n \in 0..(n - 1) /\ x \div n \in Nat
OBVIOUS

LEMMA SmallMultiple ==
  ASSUME NEW n \in Nat \ {0}, NEW q \in Int, n * q < n, -n < n * q
  PROVE  q = 0
<1>1. ASSUME q >= 1 PROVE FALSE
  <2>1. n * q = n + n * (q - 1) /\ n * (q - 1) >= 0
    BY <1>1
  <2> QED
    BY <2>1
<1>2. ASSUME q <= -1 PROVE FALSE
  <2>1. n * q = -n + n * (q + 1) /\ n * (q + 1) <= 0
    BY <1>2
  <2> QED
    BY <2>1
<1> QED
  BY <1>1, <1>2

\* As many addresses in a row as there are cells are different cells.
LEMMA CellsDiffer ==
  ASSUME NEW n \in Nat \ {0}, NEW a \in Nat, NEW i \in 0..(n - 1), NEW j \in 0..(n - 1),
         (a + i) % n = (a + j) % n
  PROVE  i = j
<1> DEFINE p == (a + i) \div n
           q == (a + j) \div n
           r == (a + i) % n
<1>1. /\ p \in Nat /\ q \in Nat /\ r \in Nat
      /\ a + i = n * p + r
      /\ a + j = n * q + r
  <2>1. a + i \in Nat /\ a + j \in Nat
    OBVIOUS
  <2>2. a + i = n * p + ((a + i) % n) /\ (a + i) % n \in 0..(n - 1) /\ p \in Nat
    BY <2>1, DivMod
  <2>3. a + j = n * q + ((a + j) % n) /\ q \in Nat
    BY <2>1, DivMod
  <2> HIDE DEF p, q
  <2> QED
    BY <2>2, <2>3
<1> HIDE DEF p, q, r
<1>2. i - j = n * p - n * q
  BY <1>1
<1>3. n * p - n * q = n * (p - q)
  BY <1>1
<1>4. n * (p - q) < n /\ -n < n * (p - q)
  BY <1>2, <1>3
<1>5. p - q = 0
  BY <1>1, <1>4, SmallMultiple
<1> QED
  BY <1>2, <1>3, <1>5

LEMMA ModBelow ==
  ASSUME NEW n \in Nat \ {0}, NEW x \in Nat
  PROVE  x % n \in Nat /\ x % n <= x
<1>1. x = n * (x \div n) + (x % n) /\ x \div n \in Nat /\ x % n \in Nat
  BY DivMod
<1>2. n * (x \div n) \in Nat
  BY <1>1
<1> QED
  BY <1>1, <1>2

-----------------------------------------------------------------------------
(* The loaders: records. *)

\* What is known of a record of the file.
LEMMA LineIs ==
  ASSUME image \in ImageFiles, NEW i \in 1..Len(image.lines)
  PROVE  LET l == image.lines[i]
         IN  /\ l \in Line /\ Len(l.bytes) \in Nat /\ Len(l.bytes) <= UintValues - 3
             /\ Format.overhead \in {0, 3} /\ l.count - Format.overhead <= Cells
             /\ Announced(l) \in Nat
             /\ l.count >= Format.overhead => Announced(l) <= Cells
             /\ l.count < Format.overhead => Len(l.bytes) <= Announced(l)
<1> DEFINE l == image.lines[i]
<1>1. /\ image \in [format : {"s19", "hex"}, lines : Seq(Line)]
      /\ l.count - Format.overhead <= Cells /\ Len(l.bytes) <= UintValues - 3
  BY ImagesAssumption DEF Format
<1>2. l \in Line /\ l.bytes \in Seq(Nat) /\ l.count \in Nat /\ Len(l.bytes) \in Nat
  <2>1. image.lines \in Seq(Line) /\ i \in 1..Len(image.lines)
    BY <1>1
  <2>2. l \in Line
    BY <2>1
  <2> HIDE DEF l
  <2> QED
    BY <2>2 DEF Line
<1>3. Format.overhead \in {0, 3}
  BY <1>1 DEF Format, Formats
<1>4. UintValues \in Nat /\ UintValues >= 3 /\ Cells \in Nat
  BY <1>1, <1>2, LoaderAssumption
<1> HIDE DEF l
<1>5. CASE l.count >= Format.overhead
  <2>1. l.count - Format.overhead \in Nat
    BY <1>2, <1>3, <1>5
  <2>2. Announced(l) \in Nat /\ Announced(l) <= l.count - Format.overhead
    BY <1>4, <2>1, ModBelow DEF Announced
  <2> QED
    BY <1>1, <1>2, <1>3, <1>4, <1>5, <2>1, <2>2 DEF l
<1>6. CASE l.count < Format.overhead
  <2> DEFINE x == l.count - Format.overhead
  <2>1. x \in Int /\ -3 <= x /\ x < 0
    BY <1>2, <1>3, <1>6
  <2>2. x % UintValues = x + UintValues
    BY <1>4, <2>1
  <2>3. Announced(l) = x + UintValues
    BY <2>2 DEF Announced
  <2> HIDE DEF x
  <2> QED
    BY <1>1, <1>2, <1>3, <1>4, <1>6, <2>1, <2>3 DEF l
<1> QED
  BY <1>2, <1>3, <1>5, <1>6

LEMMA StoredIs ==
  ASSUME image \in ImageFiles, NEW i \in 1..Len(image.lines)
  PROVE  LET l == image.lines[i]
         IN  /\ Len(Stored(l)) \in Nat /\ DOMAIN Stored(l) = 1..Len(Stored(l))
             /\ Len(Stored(l)) <= Announced(l)
             /\ Announced(l) <= Len(l.bytes) => /\ Stored(l) = SubSeq(l.bytes, 1, Announced(l))
                                                /\ Len(Stored(l)) = Announced(l)
             /\ Announced(l) > Len(l.bytes) => Len(l.bytes) <= Len(Stored(l))
<1> DEFINE l == image.lines[i]
           n == Announced(l)
           fill == [k \in 1..(n - Len(l.bytes)) |-> IF Len(l.bytes) = 0 THEN data ELSE Last(l.bytes)]
<1>1. l \in Line /\ Len(l.bytes) \in Nat /\ n \in Nat
  BY LineIs
<1> HIDE DEF l
<1>2. l.bytes \in Seq(Nat)
  BY <1>1 DEF Line
<1> HIDE DEF n
<1>3. CASE n <= Len(l.bytes)
  <2>1. Stored(l) = SubSeq(l.bytes, 1, n)
    BY <1>3 DEF Stored, n
  <2>2. SubSeq(l.bytes, 1, n) \in Seq(Nat) /\ Len(SubSeq(l.bytes, 1, n)) = n
    BY <1>1, <1>2, <1>3
  <2> QED
    BY <1>1, <1>3, <2>1, <2>2 DEF l, n
<1>4. CASE n > Len(l.bytes) /\ line < Len(image.lines)
  <2>1. Stored(l) = l.bytes
    BY <1>1, <1>4 DEF Stored, n
  <2> QED
    BY <1>1, <1>2, <1>4, <2>1 DEF l, n
<1>5. CASE n > Len(l.bytes) /\ ~(line < Len(image.lines))
  <2>1. Stored(l) = l.bytes \o fill
    BY <1>1, <1>5 DEF Stored, n
  <2>2. fill \in Seq({IF Len(l.bytes) = 0 THEN data ELSE Last(l.bytes)}) /\ Len(fill) = n - Len(l.bytes)
    BY <1>1, <1>5
  <2> HIDE DEF fill
  <2>3. Len(Stored(l)) = n /\ DOMAIN Stored(l) = 1..n
    BY <1>1, <1>2, <2>1, <2>2
  <2> QED
    BY <1>1, <1>5, <2>3 DEF l, n
<1> QED
  BY <1>1, <1>3, <1>4, <1>5

\* The loader goes on after exactly the intact records.
LEMMA GoesOnIfIntact ==
  ASSUME image \in ImageFiles, NEW i \in 1..Len(image.lines), image.lines[i].type = Format.data
  PROVE  LET l == image.lines[i]
         IN  Intact(l) <=> ~(ChecksumFails(l) \/ Len(l.bytes) > Len(Stored(l)) + 1)
<1> DEFINE l == image.lines[i]
           n == Announced(l)
<1>1. /\ l \in Line /\ Len(l.bytes) \in Nat /\ n \in Nat /\ l.type = Format.data
      /\ Format.overhead \in {0, 3}
      /\ l.count < Format.overhead => Len(l.bytes) <= n
  BY LineIs
<1>2. /\ Len(Stored(l)) \in Nat /\ Len(Stored(l)) <= n
      /\ n <= Len(l.bytes) => Stored(l) = SubSeq(l.bytes, 1, n) /\ Len(Stored(l)) = n
      /\ n > Len(l.bytes) => Len(l.bytes) <= Len(Stored(l))
  BY StoredIs
<1> HIDE DEF l
<1>0. l.bytes \in Seq(Nat) /\ l.count \in Nat
  BY <1>1 DEF Line
<1>3. Len(l.bytes) = n + 1 => /\ Front(l.bytes) = Stored(l) /\ Last(l.bytes) = l.bytes[Len(Stored(l)) + 1]
                              /\ Len(Stored(l)) = n
  BY <1>1, <1>2 DEF Front, Last
<1> HIDE DEF n
<1>4. ASSUME Intact(l)
      PROVE  ~(ChecksumFails(l) \/ Len(l.bytes) > Len(Stored(l)) + 1)
  <2>1. Len(l.bytes) = n + 1 /\ Last(l.bytes) = Checksum(l, Front(l.bytes))
    BY <1>4 DEF Intact, n
  <2> QED
    BY <1>1, <1>2, <1>3, <2>1 DEF ChecksumFails
<1>5. ASSUME ~ChecksumFails(l), ~(Len(l.bytes) > Len(Stored(l)) + 1)
      PROVE  Intact(l)
  <2>1. /\ Len(l.bytes) > Len(Stored(l))
        /\ l.bytes[Len(Stored(l)) + 1] = Checksum(l, Stored(l))
    BY <1>1, <1>2, <1>5 DEF ChecksumFails
  <2>2. Len(l.bytes) = n + 1
    <3> DEFINE k == Len(l.bytes)
               m == Len(Stored(l))
    <3>1. k \in Nat /\ n \in Nat /\ m \in Nat /\ k > m /\ k <= m + 1
      BY <1>1, <1>2, <1>5, <2>1
    <3>2. (n <= k => m = n) /\ (n > k => k <= m) /\ m <= n
      BY <1>2
    <3> HIDE DEF k, m
    <3>3. k = n + 1
      BY <3>1, <3>2
    <3> QED
      BY <3>3 DEF k
  <2>3. l.count >= Format.overhead
    BY <1>0, <1>1, <2>2
  <2> QED
    BY <1>1, <1>3, <2>1, <2>2, <2>3 DEF Intact, n
<1> QED
  BY <1>4, <1>5 DEF l

Addresses == 0..(Cells - 1)

\* The byte k of record i goes to a.
Hits(i, k, a) ==
  k \in 0..(Announced(image.lines[i]) - 1) /\ (image.lines[i].addr + k) % Cells = a

LEMMA CoversIsHit ==
  ASSUME NEW i, NEW a
  PROVE  Covers(i, a) <=> \E k : Hits(i, k, a)
BY DEF Covers, Hits

\* An intact record has one byte for each address it covers.
LEMMA HitOnce ==
  ASSUME image \in ImageFiles, NEW i \in 1..Len(image.lines), Intact(image.lines[i]),
         NEW a, NEW j, NEW k, Hits(i, j, a), Hits(i, k, a)
  PROVE  j = k
<1>1. /\ image.lines[i] \in Line /\ Announced(image.lines[i]) \in Nat
      /\ Announced(image.lines[i]) <= Cells
  BY LineIs DEF Intact
<1>2. image.lines[i].addr \in Nat
  BY <1>1 DEF Line
<1>3. j \in 0..(Cells - 1) /\ k \in 0..(Cells - 1) /\ Cells \in Nat \ {0}
  BY <1>1, LoaderAssumption DEF Hits
<1> QED
  BY <1>2, <1>3, CellsDiffer DEF Hits

\* A record that is stored leaves alone what it does not cover.
LEMMA WrittenOutside ==
  ASSUME image \in ImageFiles, NEW i \in 1..Len(image.lines), NEW a \in Addresses, ~Covers(i, a)
  PROVE  Written(image.lines[i].addr, Stored(image.lines[i]))[a] = target_memory[a]
<1> DEFINE l == image.lines[i]
           bytes == Stored(l)
           here == {n \in DOMAIN bytes : (l.addr + n - 1) % Cells = a}
<1>1. l \in Line /\ Announced(l) \in Nat
  BY LineIs
<1>2. Len(bytes) \in Nat /\ DOMAIN bytes = 1..Len(bytes) /\ Len(bytes) <= Announced(l)
  BY StoredIs
<1>3. ASSUME NEW n \in here PROVE FALSE
  <2>1. n - 1 \in 0..(Announced(l) - 1) /\ (l.addr + n - 1) % Cells = a
    BY <1>1, <1>2
  <2>2. l.addr + n - 1 = l.addr + (n - 1)
    BY <1>1, <1>2 DEF Line
  <2>3. Hits(i, n - 1, a)
    BY <2>1, <2>2 DEF Hits
  <2> QED
    BY <2>3, CoversIsHit
<1>4. here = {}
  BY <1>3
<1> QED
  BY <1>4 DEF Written, Addresses

\* An intact record that is stored leaves its byte where it covers.
LEMMA WrittenInside ==
  ASSUME image \in ImageFiles, NEW i \in 1..Len(image.lines), Intact(image.lines[i]),
         NEW a \in Addresses, NEW k, Hits(i, k, a)
  PROVE  Written(image.lines[i].addr, Stored(image.lines[i]))[a] = image.lines[i].bytes[k + 1]
<1> DEFINE l == image.lines[i]
           bytes == Stored(l)
           here == {n \in DOMAIN bytes : (l.addr + n - 1) % Cells = a}
           last == CHOOSE n \in here : \A m \in here : m <= n
<1>1. l \in Line /\ Announced(l) \in Nat /\ Len(l.bytes) = Announced(l) + 1
  BY LineIs DEF Intact
<1>2. /\ Len(bytes) = Announced(l) /\ DOMAIN bytes = 1..Len(bytes)
      /\ bytes = SubSeq(l.bytes, 1, Announced(l))
  BY <1>1, StoredIs
<1>3. k \in 0..(Announced(l) - 1) /\ k + 1 \in DOMAIN bytes /\ k + 1 \in Nat
  BY <1>1, <1>2 DEF Hits
<1>4. k + 1 \in here
  <2>1. l.addr + (k + 1) - 1 = l.addr + k
    BY <1>1, <1>3 DEF Line
  <2> QED
    BY <1>3, <2>1 DEF Hits
<1>5. ASSUME NEW n \in here PROVE n = k + 1
  <2>1. n - 1 \in 0..(Announced(l) - 1) /\ (l.addr + n - 1) % Cells = a /\ n \in Nat
    BY <1>1, <1>2
  <2>2. l.addr + n - 1 = l.addr + (n - 1)
    BY <1>1, <2>1 DEF Line
  <2>3. Hits(i, n - 1, a)
    BY <2>1, <2>2 DEF Hits
  <2>4. n - 1 = k
    BY <2>3, HitOnce
  <2> QED
    BY <1>3, <2>1, <2>4
<1>6. here = {k + 1}
  BY <1>4, <1>5
<1>7. last = k + 1
  <2> HIDE DEF here
  <2> QED
    BY <1>3, <1>6
<1>8. Written(l.addr, bytes)[a] = bytes[last]
  BY <1>6 DEF Written, Addresses
<1>9. bytes[k + 1] = l.bytes[k + 1]
  <2>1. l.bytes \in Seq(Nat)
    BY <1>1 DEF Line
  <2> HIDE DEF bytes, l
  <2> QED
    BY <1>1, <1>2, <1>3, <2>1, SMTT(60)
<1> QED
  BY <1>7, <1>8, <1>9

-----------------------------------------------------------------------------
(* The loaders: the invariant. *)

AllIntact(n) == \A i \in 1..n : Intact(image.lines[i])

\* v is what the first n records leave at a: the byte of the last one of them
\* that covers it.
LatestIs(a, n, v) ==
  \/ v = 0 /\ \A i \in 1..n : ~Covers(i, a)
  \/ \E i \in 1..n : /\ \A j \in 1..n : Covers(j, a) => j <= i
                     /\ \E k : Hits(i, k, a) /\ v = image.lines[i].bytes[k + 1]

\* The loader found the first n records intact and the next one not, if there is
\* one, and memory is as they leave it but for what that one covers.
StoppedAfter(n, mem) ==
  /\ AllIntact(n)
  /\ n < Len(image.lines) => ~Intact(image.lines[n + 1])
  /\ \A a \in Addresses :
       \/ n < Len(image.lines) /\ image.lines[n + 1].type = Format.data /\ Covers(n + 1, a)
       \/ LatestIs(a, n, mem[a])

\* While it loads, all records so far are intact and in memory; when it has
\* stopped, that holds of those before the one it stopped at.
LoaderInv ==
  /\ image \in ImageFiles /\ line \in Nat \ {0}
  /\ loading \in {"image", "records"} =>
       /\ line - 1 <= Len(image.lines)
       /\ AllIntact(line - 1)
       /\ \A a \in Addresses : LatestIs(a, line - 1, target_memory[a])
  /\ loading = "done" => \E n \in 0..Len(image.lines) : StoppedAfter(n, target_memory)

\* The file does not change.
LEMMA ImageKept ==
  ASSUME image' = image
  PROVE  /\ \A l : Intact(l)' <=> Intact(l)
         /\ \A i, a : Covers(i, a)' <=> Covers(i, a)
         /\ \A i, k, a : Hits(i, k, a)' <=> Hits(i, k, a)
         /\ Format' = Format
<1>1. Format' = Format
  BY DEF Format
<1>2. \A l : Announced(l)' = Announced(l)
  BY <1>1 DEF Announced
<1>3. \A l, b : Checksum(l, b)' = Checksum(l, b)
  BY DEF Checksum
<1>4. \A l : Intact(l)' <=> Intact(l)
  BY <1>1, <1>2, <1>3 DEF Intact
<1>5. \A i, a : Covers(i, a)' <=> Covers(i, a)
  BY <1>2 DEF Covers
<1>6. \A i, k, a : Hits(i, k, a)' <=> Hits(i, k, a)
  BY <1>2 DEF Hits
<1> QED
  BY <1>1, <1>4, <1>5, <1>6

LEMMA LatestNext ==
  ASSUME image \in ImageFiles, NEW n \in Nat, n + 1 <= Len(image.lines), Intact(image.lines[n + 1]),
         NEW a \in Addresses, LatestIs(a, n, target_memory[a])
  PROVE  LatestIs(a, n + 1, Written(image.lines[n + 1].addr, Stored(image.lines[n + 1]))[a])
<1> DEFINE v == Written(image.lines[n + 1].addr, Stored(image.lines[n + 1]))[a]
<1>0. n + 1 \in 1..Len(image.lines)
  <2>1. Len(image.lines) \in Nat
    BY ImagesAssumption
  <2> QED
    BY <2>1
<1>1. CASE Covers(n + 1, a)
  <2>1. PICK k : Hits(n + 1, k, a)
    BY <1>1, CoversIsHit
  <2>2. v = image.lines[n + 1].bytes[k + 1]
    BY <1>0, <2>1, WrittenInside
  <2> HIDE DEF v
  <2>3. \A j \in 1..(n + 1) : j <= n + 1
    OBVIOUS
  <2>4. LatestIs(a, n + 1, v)
    BY <1>0, <2>1, <2>2, <2>3 DEF LatestIs
  <2> QED
    BY <2>4 DEF v
<1>2. CASE ~Covers(n + 1, a)
  <2>1. v = target_memory[a]
    BY <1>0, <1>2, WrittenOutside
  <2>2. \A i \in 1..(n + 1) : i \in 1..n \/ i = n + 1
    OBVIOUS
  <2>3. \A i \in 1..n : i \in 1..(n + 1)
    OBVIOUS
  <2> HIDE DEF v
  <2>4. LatestIs(a, n + 1, v)
    BY <1>2, <2>1, <2>2, <2>3 DEF LatestIs
  <2> QED
    BY <2>4 DEF v
<1> QED
  BY <1>1, <1>2

\* What the invariant says stays with the file.
LEMMA ClaimsKept ==
  ASSUME image' = image
  PROVE  /\ \A n : AllIntact(n) => AllIntact(n)'
         /\ \A n, a : LatestIs(a, n, target_memory'[a]) => LatestIs(a, n, target_memory[a])'
         /\ \A n : StoppedAfter(n, target_memory') => StoppedAfter(n, target_memory)'
<1>1. /\ \A l : Intact(l)' <=> Intact(l)
      /\ \A i, a : Covers(i, a)' <=> Covers(i, a)
      /\ \A i, k, a : Hits(i, k, a)' <=> Hits(i, k, a)
      /\ Format' = Format
  BY ImageKept
<1>2. ASSUME NEW n, AllIntact(n) PROVE AllIntact(n)'
  BY <1>1, <1>2 DEF AllIntact
<1>3. ASSUME NEW n, NEW a, LatestIs(a, n, target_memory'[a]) PROVE LatestIs(a, n, target_memory[a])'
  <2>1. CASE target_memory'[a] = 0 /\ \A i \in 1..n : ~Covers(i, a)
    BY <1>1, <2>1 DEF LatestIs
  <2>2. CASE \E i \in 1..n : /\ \A j \in 1..n : Covers(j, a) => j <= i
                             /\ \E k : Hits(i, k, a) /\ target_memory'[a] = image.lines[i].bytes[k + 1]
    BY <1>1, <2>2 DEF LatestIs
  <2> QED
    BY <1>3, <2>1, <2>2 DEF LatestIs
<1>4. ASSUME NEW n, StoppedAfter(n, target_memory') PROVE StoppedAfter(n, target_memory)'
  <2>1. AllIntact(n)'
    BY <1>2, <1>4 DEF StoppedAfter
  <2>2. (n < Len(image.lines) => ~Intact(image.lines[n + 1]))'
    BY <1>1, <1>4 DEF StoppedAfter
  <2>3. ASSUME NEW a \in Addresses
        PROVE  (\/ n < Len(image.lines) /\ image.lines[n + 1].type = Format.data /\ Covers(n + 1, a)
                \/ LatestIs(a, n, target_memory[a]))'
    BY <1>1, <1>3, <1>4 DEF StoppedAfter
  <2> QED
    BY <2>1, <2>2, <2>3 DEF StoppedAfter, Addresses
<1> QED
  BY <1>2, <1>3, <1>4

LEMMA RecordKeeps ==
  ASSUME LoaderInv, LoadRecord
  PROVE  LoaderInv'
<1> DEFINE l == image.lines[line]
<1>0. PICK n \in Nat : line = n + 1
  BY DEF LoaderInv
<1>1. /\ image' = image /\ image \in ImageFiles /\ loading = "records" /\ line' = line + 1
      /\ line - 1 = n /\ line' - 1 = n + 1 /\ n <= Len(image.lines) /\ Len(image.lines) \in Nat
      /\ AllIntact(n) /\ \A a \in Addresses : LatestIs(a, n, target_memory[a])
  BY <1>0, ImagesAssumption DEF LoaderInv, LoadRecord
<1>2. ASSUME loading' = "done", StoppedAfter(n, target_memory')
      PROVE  LoaderInv'
  <2>1. StoppedAfter(n, target_memory)'
    BY <1>1, <1>2, ClaimsKept
  <2> QED
    BY <1>1, <1>2, <2>1 DEF LoaderInv
<1>3. CASE line > Len(image.lines) \/ l.type # Format.data
  <2>1. loading' = "done" /\ target_memory' = target_memory
    BY <1>3 DEF LoadRecord
  <2>2. n < Len(image.lines) => ~Intact(image.lines[n + 1])
    BY <1>0, <1>1, <1>3 DEF Intact
  <2>3. StoppedAfter(n, target_memory')
    BY <1>1, <2>1, <2>2 DEF StoppedAfter
  <2> QED
    BY <1>2, <2>1, <2>3
<1>4. CASE line <= Len(image.lines) /\ l.type = Format.data
  <2>0. line \in 1..Len(image.lines)
    BY <1>0, <1>1, <1>4
  <2>1. /\ target_memory' = Written(l.addr, Stored(l))
        /\ loading' = IF ChecksumFails(l) \/ Len(l.bytes) > Len(Stored(l)) + 1 THEN "done" ELSE "records"
    BY <1>0, <1>1, <1>4 DEF LoadRecord
  <2>2. Intact(l) <=> ~(ChecksumFails(l) \/ Len(l.bytes) > Len(Stored(l)) + 1)
    BY <1>1, <1>4, <2>0, GoesOnIfIntact
  <2>3. CASE Intact(l)
    <3>1. loading' = "records"
      BY <2>1, <2>2, <2>3
    <3>2. AllIntact(n + 1)
      BY <1>0, <1>1, <2>3 DEF AllIntact
    <3>3. \A a \in Addresses : LatestIs(a, n + 1, target_memory'[a])
      BY <1>0, <1>1, <1>4, <2>1, <2>3, LatestNext
    <3>4. AllIntact(n + 1)' /\ \A a \in Addresses : LatestIs(a, n + 1, target_memory[a])'
      BY <1>1, <3>2, <3>3, ClaimsKept
    <3> QED
      BY <1>0, <1>1, <1>4, <3>1, <3>4 DEF LoaderInv, Addresses
  <2>4. CASE ~Intact(l)
    <3>1. loading' = "done"
      BY <2>1, <2>2, <2>4
    <3>2. \A a \in Addresses : Covers(n + 1, a) \/ LatestIs(a, n, target_memory'[a])
      BY <1>0, <1>1, <2>0, <2>1, WrittenOutside
    <3>3. StoppedAfter(n, target_memory')
      BY <1>0, <1>1, <1>4, <2>4, <3>2 DEF StoppedAfter
    <3> QED
      BY <1>2, <3>1, <3>3
  <2> QED
    BY <2>3, <2>4
<1> QED
  BY <1>0, <1>1, <1>3, <1>4

LEMMA LoaderKeeps ==
  ASSUME LoaderInv, [LoaderNext]_loader_vars
  PROVE  LoaderInv'
<1>1. CASE load_image \/ UNCHANGED loader_vars
  <2>1. /\ image' = image /\ line' = line /\ target_memory' = target_memory
        /\ loading' = loading \/ (loading = "image" /\ loading' \in {"records", "refused"})
    BY <1>1 DEF load_image, loader_vars
  <2>2. PICK m \in Nat : line = m + 1
    BY DEF LoaderInv
  <2>3. line - 1 = m /\ line' - 1 = m
    BY <2>1, <2>2
  <2>4. CASE loading \in {"image", "records"}
    <3>1. m <= Len(image.lines) /\ AllIntact(m) /\ \A a \in Addresses : LatestIs(a, m, target_memory[a])
      BY <2>3, <2>4 DEF LoaderInv
    <3>2. AllIntact(m)' /\ \A a \in Addresses : LatestIs(a, m, target_memory[a])'
      BY <2>1, <3>1, ClaimsKept
    <3>3. loading' # "done"
      BY <2>1, <2>4
    <3> QED
      BY <2>1, <2>3, <3>1, <3>2, <3>3 DEF LoaderInv, Addresses
  <2>5. CASE loading \notin {"image", "records"}
    <3>1. loading' = loading
      BY <2>1, <2>5
    <3>2. ASSUME loading = "done"
          PROVE  \E n \in 0..Len(image.lines) : StoppedAfter(n, target_memory)'
      BY <2>1, <3>2, ClaimsKept DEF LoaderInv
    <3> QED
      BY <2>1, <2>5, <3>1, <3>2 DEF LoaderInv
  <2> QED
    BY <2>4, <2>5
<1>2. CASE LoadRecord
  BY <1>2, RecordKeeps
<1> QED
  BY <1>1, <1>2 DEF LoaderNext

LEMMA LoaderStarts ==
  ASSUME LoaderInit
  PROVE  LoaderInv
<1>1. image \in ImageFiles /\ line = 1 /\ loading = "image" /\ Len(image.lines) \in Nat
  BY ImagesAssumption DEF LoaderInit
<1>2. \A a \in Addresses : target_memory[a] = 0
  BY DEF LoaderInit, Addresses
<1>3. 1..(line - 1) = {}
  BY <1>1
<1> QED
  BY <1>1, <1>2, <1>3 DEF LoaderInv, AllIntact, LatestIs

\* The records before the first that is not intact are the first n.
LEMMA IntactLinesAre ==
  ASSUME image \in ImageFiles, NEW n \in 0..Len(image.lines), AllIntact(n),
         n < Len(image.lines) => ~Intact(image.lines[n + 1])
  PROVE  IntactLines = 1..n /\ Cardinality(IntactLines) = n
<1>1. Len(image.lines) \in Nat /\ DOMAIN image.lines = 1..Len(image.lines)
  BY ImagesAssumption
<1>2. ASSUME NEW i \in 1..n PROVE i \in IntactLines
  BY <1>1 DEF IntactLines, AllIntact
<1>3. ASSUME NEW i \in IntactLines PROVE i \in 1..n
  <2>1. i \in 1..Len(image.lines) /\ \A j \in 1..i : Intact(image.lines[j])
    BY <1>1 DEF IntactLines
  <2>2. ASSUME n < i PROVE FALSE
    <3>1. n + 1 \in 1..i /\ n < Len(image.lines)
      BY <1>1, <2>1, <2>2
    <3> QED
      BY <2>1, <3>1
  <2> QED
    BY <1>1, <2>1, <2>2
<1>4. IntactLines = 1..n
  BY <1>2, <1>3
<1>5. Cardinality(1..n) = n
  <2>1. 1 \in Int /\ n \in Int /\ ~(1 > n) => n - 1 + 1 = n
    BY <1>1
  <2> QED
    BY <1>1, FS_Interval
<1> QED
  BY <1>4, <1>5

\* What DamageConfined expects at a, the records S being those that are intact.
Expected(S, a) ==
  LET good == {i \in S : Covers(i, a)}
      last == CHOOSE i \in good : \A j \in good : j <= i
      k    == CHOOSE m \in 0..(Announced(image.lines[last]) - 1) : (image.lines[last].addr + m) % Cells = a
  IN  IF good = {} THEN 0 ELSE image.lines[last].bytes[k + 1]

\* It is the byte LatestIs speaks of.
LEMMA LookedUp ==
  ASSUME image \in ImageFiles, NEW n \in 0..Len(image.lines), AllIntact(n),
         NEW a \in Addresses, NEW v, LatestIs(a, n, v)
  PROVE  v = Expected(1..n, a)
<1> DEFINE good == {i \in 1..n : Covers(i, a)}
           last == CHOOSE i \in good : \A j \in good : j <= i
           k    == CHOOSE m \in 0..(Announced(image.lines[last]) - 1) : (image.lines[last].addr + m) % Cells = a
<1>0. Len(image.lines) \in Nat
  BY ImagesAssumption
<1>1. CASE v = 0 /\ \A i \in 1..n : ~Covers(i, a)
  <2>1. good = {}
    BY <1>1, ZenonT(60)
  <2> QED
    BY <1>1, <2>1 DEF Expected
<1>2. CASE \E i \in 1..n : /\ \A j \in 1..n : Covers(j, a) => j <= i
                           /\ \E m : Hits(i, m, a) /\ v = image.lines[i].bytes[m + 1]
  <2>1. PICK i \in 1..n : /\ \A j \in 1..n : Covers(j, a) => j <= i
                          /\ \E m : Hits(i, m, a) /\ v = image.lines[i].bytes[m + 1]
    BY <1>2
  <2>2. PICK m : Hits(i, m, a) /\ v = image.lines[i].bytes[m + 1]
    BY <2>1
  <2>3. i \in good /\ \A j \in good : j <= i
    BY <2>1, <2>2, CoversIsHit
  <2>4. ASSUME NEW j \in good, \A x \in good : x <= j PROVE j = i
    <3>1. j \in Int /\ i \in Int /\ i <= j /\ j <= i
      BY <1>0, <2>3, <2>4
    <3> QED
      BY <3>1
  <2>5. last = i
    <3>1. last \in good /\ \A x \in good : x <= last
      <4> HIDE DEF good
      <4> QED
        BY <2>3
    <3> HIDE DEF last, good
    <3> QED
      BY <2>4, <3>1
  <2>6. \E x \in 0..(Announced(image.lines[last]) - 1) : (image.lines[last].addr + x) % Cells = a
    BY <2>2, <2>5 DEF Hits
  <2>7. /\ k \in 0..(Announced(image.lines[last]) - 1)
        /\ (image.lines[last].addr + k) % Cells = a
    <3> HIDE DEF last
    <3> QED
      BY <2>6
  <2> HIDE DEF k
  <2>8. Hits(i, k, a)
    BY <2>5, <2>7 DEF Hits
  <2>9. Intact(image.lines[i]) /\ i \in 1..Len(image.lines)
    BY <1>0 DEF AllIntact
  <2>10. k = m
    BY <2>2, <2>8, <2>9, HitOnce
  <2>11. v = image.lines[last].bytes[k + 1] /\ good # {}
    BY <2>2, <2>3, <2>5, <2>10
  <2> HIDE DEF last, good
  <2>12. v = IF good = {} THEN 0 ELSE image.lines[last].bytes[k + 1]
    BY <2>11
  <2> QED
    BY <2>12 DEF last, good, k, Expected
<1> QED
  BY <1>1, <1>2 DEF LatestIs

LEMMA LoaderConfines ==
  ASSUME LoaderInv
  PROVE  DamageConfined
<1> SUFFICES ASSUME loading = "done", NEW a \in 0..(Cells - 1)
             PROVE  LET good == {i \in IntactLines : Covers(i, a)}
                        last == CHOOSE i \in good : \A j \in good : j <= i
                        bad  == Cardinality(IntactLines) + 1
                        k    == CHOOSE n \in 0..(Announced(image.lines[last]) - 1) :
                                  (image.lines[last].addr + n) % Cells = a
                    IN  \/ /\ bad \in DOMAIN image.lines
                           /\ image.lines[bad].type = Format.data
                           /\ Covers(bad, a)
                        \/ target_memory[a] = IF good = {} THEN 0 ELSE image.lines[last].bytes[k + 1]
  BY DEF DamageConfined
<1>1. PICK n \in 0..Len(image.lines) : StoppedAfter(n, target_memory)
  BY DEF LoaderInv
<1>2. /\ image \in ImageFiles /\ Len(image.lines) \in Nat /\ DOMAIN image.lines = 1..Len(image.lines)
      /\ AllIntact(n) /\ (n < Len(image.lines) => ~Intact(image.lines[n + 1]))
      /\ a \in Addresses
  BY <1>1, ImagesAssumption DEF LoaderInv, StoppedAfter, Addresses
<1>3. IntactLines = 1..n /\ Cardinality(IntactLines) = n
  BY <1>2, IntactLinesAre
<1>4. CASE n < Len(image.lines) /\ image.lines[n + 1].type = Format.data /\ Covers(n + 1, a)
  <2>1. n + 1 \in DOMAIN image.lines
    BY <1>2, <1>4
  <2> QED
    BY <1>3, <1>4, <2>1
<1>5. CASE LatestIs(a, n, target_memory[a])
  <2>1. target_memory[a] = Expected(IntactLines, a)
    BY <1>2, <1>3, <1>5, LookedUp
  <2> QED
    BY <2>1 DEF Expected
<1> QED
  BY <1>1, <1>2, <1>4, <1>5 DEF StoppedAfter

\* For every image file, of either format: when load_s19 or load_hex stops, the
\* records before the first damaged one are in memory, later ones over earlier
\* ones, and the damaged one has changed nothing outside the addresses it
\* announces.
THEOREM DamageStays == LoaderSpec => []DamageConfined
<1>1. LoaderInit => LoaderInv
  BY LoaderStarts
<1>2. LoaderInv /\ [LoaderNext]_loader_vars => LoaderInv'
  BY LoaderKeeps
<1>3. LoaderInv => DamageConfined
  BY LoaderConfines
<1> QED
  BY <1>1, <1>2, <1>3, PTL DEF LoaderSpec

-----------------------------------------------------------------------------
(* The memory mapper of multicomp09. *)

\* What FRT rests on: it is on only while ROMDIS and MMUEN both are, since the
\* stores that would clear ROMDIS are taken for the cue, and what the bus shows
\* is always what sdmapper_remap makes of the three registers.
MapperInv ==
  /\ mc_mmuadr \in AddressRegister
  /\ mc_mmufrt \in BOOLEAN
  /\ mc_mmufrt => mc_mmuadr.romdis /\ mc_mmuadr.mmuen
  /\ memory = Mapping(mc_mmuadr, mc_mmufrt, mc_pblk)

\* MapperInv is more than FixedTopStays: the ROM, which is looked at first,
\* is off.
LEMMA InvFixes ==
  ASSUME MapperInv
  PROVE  FixedTopStays
<1>1. ASSUME mc_mmufrt, NEW place \in {"frt", "vectors"}
      PROVE  memory.top[place] \in {Ram(FRT_BLOCK, flags) : flags \in {"READABLE", "READWRITE"}}
  <2>1. memory.top = TopMapping(mc_mmuadr, mc_mmufrt, mc_pblk)
    BY DEF MapperInv, Mapping
  <2>2. mmu_flags(mc_mmuadr, mc_pblk, TopBlock) \in {"READABLE", "READWRITE"}
    BY DEF mmu_flags
  <2>3. mc_mmuadr.romdis
    BY <1>1 DEF MapperInv
  <2> QED
    BY <1>1, <2>1, <2>2, <2>3 DEF TopMapping
<1> QED
  BY <1>1 DEF FixedTopStays, Ram

\* sdmapper_remap as multicomp09_init calls it.
LEMMA InitInv ==
  ASSUME MapperInit
  PROVE  MapperInv
<1>1. 0 \in MapSelect
  BY MapperAssumption DEF MapSelect
<1>2. mc_mmuadr \in AddressRegister
  BY <1>1 DEF MapperInit, AddressRegister
<1> QED
  BY <1>2 DEF MapperInit, MapperInv

\* A store to MMUADR: with FRT on, one that keeps MMUEN either keeps ROMDIS or
\* is the cue again, and one that clears MMUEN clears FRT.
LEMMA WriteMmuadrKeeps ==
  ASSUME MapperInv, NEW val \in AddressRegister, WriteMmuadr(val)
  PROVE  MapperInv'
<1>1. Cue(mc_mmuadr, val) \in AddressRegister
  BY DEF Cue, AddressRegister
<1>2. mc_mmufrt' \in BOOLEAN
  BY DEF WriteMmuadr
<1>3. mc_mmufrt' => mc_mmuadr'.romdis /\ mc_mmuadr'.mmuen
  <2> SUFFICES ASSUME mc_mmufrt' PROVE mc_mmuadr'.romdis /\ mc_mmuadr'.mmuen
    OBVIOUS
  <2>1. val.mmuen
    BY DEF WriteMmuadr
  <2>2. mc_mmuadr.romdis /\ mc_mmuadr.mmuen
    BY DEF WriteMmuadr, MapperInv
  <2>3. mc_mmuadr' = Cue(mc_mmuadr, val)
    BY DEF WriteMmuadr
  <2>4. CASE val.romdis
    BY <2>1, <2>3, <2>4 DEF Cue
  <2>5. CASE ~val.romdis
    BY <2>1, <2>2, <2>3, <2>5 DEF Cue, AddressRegister
  <2> QED
    BY <2>4, <2>5
<1> QED
  BY <1>1, <1>2, <1>3 DEF MapperInv, WriteMmuadr

\* A store to MMUDAT changes a block register only, and remaps.
LEMMA WriteMmudatKeeps ==
  ASSUME MapperInv, NEW val \in BlockRegister, WriteMmudat(val)
  PROVE  MapperInv'
BY DEF MapperInv, WriteMmudat

\* The fixed RAM top is fixed: whatever the guest stores to the mapper after the
\* cue, until it switches the mapper off, the vectors and the code below them
\* stay in FRT_BLOCK.
THEOREM FixedTop == MapperSpec => []FixedTopStays
<1>1. MapperInit => MapperInv
  BY InitInv
<1>2. MapperInv /\ [MapperNext]_mapper_vars => MapperInv'
  <2> SUFFICES ASSUME MapperInv, [MapperNext]_mapper_vars PROVE MapperInv'
    OBVIOUS
  <2>1. CASE \E val \in AddressRegister : WriteMmuadr(val)
    BY <2>1, WriteMmuadrKeeps
  <2>2. CASE \E val \in BlockRegister : WriteMmudat(val)
    BY <2>2, WriteMmudatKeeps
  <2>3. CASE UNCHANGED mapper_vars
    BY <2>3 DEF MapperInv, mapper_vars
  <2> QED
    BY <2>1, <2>2, <2>3 DEF MapperNext
<1>3. MapperInv => FixedTopStays
  BY InvFixes
<1> QED
  BY <1>1, <1>2, <1>3, PTL DEF MapperSpec

-----------------------------------------------------------------------------
(* Switches. *)

\* SwitchesFollowKeys is not inductive: opening curr_sw keeps the equality only
\* if that switch is not one of the overtaken ones, nor the one that is always
\* closed.
SwitchesInv ==
  /\ SwitchesFollowKeys
  /\ curr_sw_time \in Nat
  /\ curr_sw_time > 0 => curr_sw \in Keys \ overtaken

LEMMA SwitchesInit ==
  ASSUME WpcInit
  PROVE  SwitchesInv
BY DEF WpcInit, SwitchesInv, SwitchesFollowKeys

\* A call of wpc_periodic that finds a key: it takes the place of the key that
\* was down, which is overtaken, and its time is not up in the same call.
LEMMA PressKeeps ==
  ASSUME SwitchesInv, NEW k \in Keys, wpc_periodic(k)
  PROVE  SwitchesInv'
<1>1. k # NoKey /\ k # AlwaysClosed
  BY WpcAssumption DEF NoKey, AlwaysClosed
<1>2. BUTTON_DURATION # 0 /\ BUTTON_DURATION > PERIOD /\ BUTTON_DURATION - PERIOD \in Nat \ {0}
  BY WpcAssumption
<1>3. Pressed(k) = [closed |-> switch_mx \cup {k}, sw |-> k, time |-> BUTTON_DURATION]
  BY <1>1 DEF Pressed
<1>4. Ticked(Pressed(k))
      = [closed |-> switch_mx \cup {k}, sw |-> k, time |-> BUTTON_DURATION - PERIOD]
  BY <1>2, <1>3 DEF Ticked
<1>5. /\ switch_mx' = switch_mx \cup {k}
      /\ curr_sw' = k
      /\ curr_sw_time' = BUTTON_DURATION - PERIOD
      /\ key' = k
      /\ overtaken' = (IF curr_sw_time > 0 THEN overtaken \cup {curr_sw} ELSE overtaken) \ {k}
  BY <1>1, <1>4 DEF wpc_periodic
<1>6. SwitchesFollowKeys'
  BY <1>2, <1>5 DEF SwitchesInv, SwitchesFollowKeys
<1> QED
  BY <1>2, <1>5, <1>6 DEF SwitchesInv

\* A call that finds none: the time of the switch goes down, or it is opened.
LEMMA TickKeeps ==
  ASSUME SwitchesInv, wpc_periodic(NoKey)
  PROVE  SwitchesInv'
<1> DEFINE s == [closed |-> switch_mx, sw |-> curr_sw, time |-> curr_sw_time]
<1>1. /\ switch_mx' = Ticked(s).closed
      /\ curr_sw' = Ticked(s).sw
      /\ curr_sw_time' = Ticked(s).time
      /\ key' = NoKey
      /\ overtaken' = overtaken
  BY DEF wpc_periodic, Pressed
<1>2. CASE curr_sw_time = 0
  BY <1>1, <1>2 DEF Ticked, SwitchesInv, SwitchesFollowKeys
<1>3. CASE curr_sw_time > PERIOD
  <2>1. Ticked(s) = [s EXCEPT !.time = curr_sw_time - PERIOD]
    BY <1>3, WpcAssumption DEF Ticked, SwitchesInv
  <2>2. curr_sw_time - PERIOD \in Nat \ {0} /\ curr_sw_time > 0
    BY <1>3, WpcAssumption DEF SwitchesInv
  <2> QED
    BY <1>1, <2>1, <2>2 DEF SwitchesInv, SwitchesFollowKeys
<1>4. CASE curr_sw_time # 0 /\ ~(curr_sw_time > PERIOD)
  <2>1. Ticked(s) = [s EXCEPT !.time = 0, !.closed = switch_mx \ {curr_sw}]
    BY <1>4 DEF Ticked
  <2>2. curr_sw_time > 0 /\ curr_sw \in Keys \ overtaken /\ curr_sw # AlwaysClosed
    <3>1. curr_sw_time > 0
      BY <1>4 DEF SwitchesInv
    <3>2. curr_sw \in Keys \ overtaken
      BY <3>1 DEF SwitchesInv
    <3> QED
      BY <3>1, <3>2, WpcAssumption
  <2>3. switch_mx = {AlwaysClosed} \cup overtaken \cup {curr_sw}
    BY <2>2 DEF SwitchesInv, SwitchesFollowKeys
  <2>4. curr_sw_time' = 0 /\ switch_mx' = switch_mx \ {curr_sw}
    BY <1>1, <2>1
  <2>5. switch_mx' = {AlwaysClosed} \cup overtaken'
    BY <1>1, <2>2, <2>3, <2>4
  <2> QED
    BY <1>1, <2>4, <2>5 DEF SwitchesInv, SwitchesFollowKeys
<1> QED
  BY <1>2, <1>3, <1>4

\* A key is seen by the guest for as long as it counts as down and no longer,
\* but for the keys that another one was pressed over.
THEOREM SwitchesFollow == WpcSpec => []SwitchesFollowKeys
<1>1. WpcInit => SwitchesInv
  BY SwitchesInit
<1>2. SwitchesInv /\ [WpcNext]_wpc_vars => SwitchesInv'
  <2> SUFFICES ASSUME SwitchesInv, [WpcNext]_wpc_vars PROVE SwitchesInv'
    OBVIOUS
  <2>1. CASE \E k \in Keys \cup {NoKey} : wpc_periodic(k)
    BY <2>1, PressKeeps, TickKeeps
  <2>2. CASE UNCHANGED switch_vars
    BY <2>2 DEF SwitchesInv, SwitchesFollowKeys, switch_vars
  <2> QED
    BY <2>1, <2>2 DEF WpcNext, wpc_dmd_set_visible, wpc_vars
<1>3. SwitchesInv => SwitchesFollowKeys
  BY DEF SwitchesInv
<1> QED
  BY <1>1, <1>2, <1>3, PTL DEF WpcSpec

-----------------------------------------------------------------------------
(* The display. *)

DmdState == [visibles : [Phases -> Pages], phase : Phases,
             last_visibles : [Phases -> Pages], no_change_count : Nat]

\* The pages in phase order are the last three, and what the viewer was sent is
\* what is shown unless it was never sent anything.
DisplayInv ==
  /\ dmd \in DmdState
  /\ frames \in Seq(Pages) /\ Len(frames) = 3
  /\ \A i \in Phases : dmd.visibles[(dmd.phase + i) % 3] = frames[i + 1]
  /\ dmd.last_visibles = dmd.visibles
  /\ viewer = dmd.visibles \/ (viewer = << >> /\ dmd.no_change_count < REPEAT)

LEMMA DisplayInit ==
  ASSUME WpcInit
  PROVE  DisplayInv
<1>1. dmd = [visibles |-> [i \in Phases |-> 0], phase |-> 0,
             last_visibles |-> [i \in Phases |-> 0], no_change_count |-> 0]
  BY DEF WpcInit
<1>2. \A i \in Phases : i % 3 \in Phases /\ i + 1 \in 1..3
  BY DEF Phases
<1>3. /\ frames \in Seq(Pages) /\ Len(frames) = 3
      /\ \A i \in 1..3 : frames[i] = 0
  BY WpcAssumption DEF WpcInit
<1>4. \A i \in Phases : dmd.visibles[(dmd.phase + i) % 3] = frames[i + 1]
  BY <1>1, <1>2, <1>3 DEF Phases
<1> QED
  BY <1>1, <1>3, <1>4, WpcAssumption DEF DisplayInv, DmdState, WpcInit, Phases

\* What is common to both branches: the viewer is told whenever the pages are
\* not those it was told of last.
LEMMA SendKeeps ==
  ASSUME DisplayInv, NEW d, Send(d),
         d \in DmdState,
         d.last_visibles = dmd.last_visibles, d.no_change_count = dmd.no_change_count,
         frames' \in Seq(Pages) /\ Len(frames') = 3,
         \A i \in Phases : d.visibles[(d.phase + i) % 3] = frames'[i + 1]
  PROVE  DisplayInv'
<1>1. CASE d.visibles = d.last_visibles /\ d.no_change_count + 1 < REPEAT
  <2>1. dmd' = [d EXCEPT !.no_change_count = d.no_change_count + 1] /\ viewer' = viewer
    BY <1>1 DEF Send
  <2>2. dmd'.visibles = dmd.visibles
    BY <1>1, <2>1 DEF DisplayInv, DmdState
  <2>3. dmd' \in DmdState
    BY <2>1 DEF DmdState
  <2>4. dmd'.phase = d.phase /\ dmd'.visibles = d.visibles
        /\ dmd'.last_visibles = d.last_visibles /\ dmd'.no_change_count = d.no_change_count + 1
    BY <2>1 DEF DmdState
  <2>5. viewer' = dmd'.visibles \/ (viewer' = << >> /\ dmd'.no_change_count < REPEAT)
    BY <1>1, <2>1, <2>2, <2>4 DEF DisplayInv, DmdState
  <2> QED
    BY <1>1, <2>3, <2>4, <2>5 DEF DisplayInv
<1>2. CASE ~(d.visibles = d.last_visibles /\ d.no_change_count + 1 < REPEAT)
  <2>1. dmd' = [d EXCEPT !.no_change_count = 0, !.last_visibles = d.visibles] /\ viewer' = d.visibles
    BY <1>2 DEF Send
  <2>2. dmd' \in DmdState
    BY <2>1 DEF DmdState
  <2>3. dmd'.phase = d.phase /\ dmd'.visibles = d.visibles /\ dmd'.last_visibles = d.visibles
    BY <2>1 DEF DmdState
  <2> QED
    BY <2>1, <2>2, <2>3 DEF DisplayInv
<1> QED
  BY <1>1, <1>2

\* A page that comes in time replaces the oldest of the three, which is the one
\* in the current phase.
LEMMA FrameKeeps ==
  ASSUME DisplayInv, NEW val \in Pages, wpc_dmd_set_visible(val, "frame")
  PROVE  DisplayInv'
<1> DEFINE d == Collected(val)
<1>1. Send(d) /\ frames' = Append(Tail(frames), val)
  BY DEF wpc_dmd_set_visible
<1>2. d = [dmd EXCEPT !.visibles = [dmd.visibles EXCEPT ![dmd.phase] = val],
                      !.phase = (dmd.phase + 1) % 3]
  BY DEF Collected
<1>3. frames \in Seq(Pages) /\ Len(frames) = 3
  BY DEF DisplayInv
<1>4. /\ frames' \in Seq(Pages) /\ Len(frames') = 3
      /\ frames'[1] = frames[2] /\ frames'[2] = frames[3] /\ frames'[3] = val
  <2>1. /\ Tail(frames) \in Seq(Pages) /\ Len(Tail(frames)) = 2
        /\ Tail(frames)[1] = frames[2] /\ Tail(frames)[2] = frames[3]
    BY <1>3, SMTT(60)
  <2>2. PICK t \in Seq(Pages) : t = Tail(frames)
    BY <2>1
  <2>3. Append(t, val) \in Seq(Pages) /\ Len(Append(t, val)) = 3
    BY <2>1, <2>2
  <2>4. /\ Append(t, val)[1] = t[1] /\ Append(t, val)[2] = t[2]
        /\ Append(t, val)[3] = val
    BY <2>1, <2>2, AppendProperties
  <2> QED
    BY <1>1, <2>1, <2>2, <2>3, <2>4
<1>5. \A i \in Phases : d.visibles[(d.phase + i) % 3] = frames'[i + 1]
  <2>1. PICK p \in Phases : p = dmd.phase
    BY DEF DisplayInv, DmdState
  <2>2. d.phase = (p + 1) % 3 /\ d.visibles = [dmd.visibles EXCEPT ![p] = val]
    BY <1>2, <2>1 DEF DisplayInv, DmdState
  <2>3. dmd.visibles \in [Phases -> Pages]
    BY DEF DisplayInv, DmdState
  <2>4. /\ dmd.visibles[(p + 1) % 3] = frames[2]
        /\ dmd.visibles[(p + 2) % 3] = frames[3]
    BY <2>1 DEF DisplayInv, DmdState, Phases
  <2>5. /\ (((p + 1) % 3) + 0) % 3 = (p + 1) % 3
        /\ (((p + 1) % 3) + 1) % 3 = (p + 2) % 3
        /\ (((p + 1) % 3) + 2) % 3 = p
        /\ (p + 1) % 3 # p /\ (p + 2) % 3 # p
        /\ (p + 1) % 3 \in Phases /\ (p + 2) % 3 \in Phases
    BY DEF Phases
  <2>6. /\ d.visibles[(d.phase + 0) % 3] = frames'[1]
        /\ d.visibles[(d.phase + 1) % 3] = frames'[2]
        /\ d.visibles[(d.phase + 2) % 3] = frames'[3]
    BY <1>4, <2>2, <2>3, <2>4, <2>5
  <2> QED
    BY <2>6 DEF Phases
<1>6. d \in DmdState
  <2>1. (dmd.phase + 1) % 3 \in Phases
    BY DEF DisplayInv, DmdState, Phases
  <2>2. [dmd.visibles EXCEPT ![dmd.phase] = val] \in [Phases -> Pages]
    BY DEF DisplayInv, DmdState
  <2> QED
    BY <1>2, <2>1, <2>2 DEF DisplayInv, DmdState
<1>7. d.last_visibles = dmd.last_visibles /\ d.no_change_count = dmd.no_change_count
  BY <1>2 DEF DisplayInv, DmdState
<1> QED
  BY <1>1, <1>4, <1>5, <1>6, <1>7, SendKeeps

\* After a long pause the page fills all three phases.
LEMMA LateKeeps ==
  ASSUME DisplayInv, NEW val \in Pages, wpc_dmd_set_visible(val, "late")
  PROVE  DisplayInv'
<1> DEFINE d == Restarted(val)
<1>1. Send(d) /\ frames' = <<val, val, val>>
  BY DEF wpc_dmd_set_visible
<1>2. d = [dmd EXCEPT !.visibles = [i \in Phases |-> val], !.phase = 0]
  BY DEF Restarted
<1>3. /\ frames' \in Seq(Pages) /\ Len(frames') = 3
      /\ \A i \in 1..3 : frames'[i] = val
  BY <1>1
<1>4. \A i \in Phases : (0 + i) % 3 \in Phases /\ i + 1 \in 1..3
  BY DEF Phases
<1>5. d.phase = 0 /\ d.visibles = [i \in Phases |-> val]
  BY <1>2 DEF DisplayInv, DmdState
<1>6. \A i \in Phases : d.visibles[(d.phase + i) % 3] = frames'[i + 1]
  BY <1>3, <1>4, <1>5
<1>7. d \in DmdState
  <2>1. [i \in Phases |-> val] \in [Phases -> Pages] /\ 0 \in Phases
    BY DEF Phases
  <2> QED
    BY <1>2, <2>1 DEF DisplayInv, DmdState
<1>8. d.last_visibles = dmd.last_visibles /\ d.no_change_count = dmd.no_change_count
  BY <1>2 DEF DisplayInv, DmdState
<1> QED
  BY <1>1, <1>3, <1>6, <1>7, <1>8, SendKeeps

\* The three phases of the display always hold the last three pages in order,
\* and the viewer shows them from its first message on.
THEOREM ViewerShowsLast == WpcSpec => []ViewerIsCurrent
<1>1. WpcInit => DisplayInv
  BY DisplayInit
<1>2. DisplayInv /\ [WpcNext]_wpc_vars => DisplayInv'
  <2> SUFFICES ASSUME DisplayInv, [WpcNext]_wpc_vars PROVE DisplayInv'
    OBVIOUS
  <2>1. CASE \E val \in Pages, pause \in {"frame", "late"} : wpc_dmd_set_visible(val, pause)
    BY <2>1, FrameKeeps, LateKeeps
  <2>2. CASE UNCHANGED dmd_vars
    BY <2>2 DEF DisplayInv, dmd_vars
  <2> QED
    BY <2>1, <2>2 DEF WpcNext, wpc_periodic, wpc_vars
<1>3. DisplayInv => ViewerIsCurrent
  BY DEF DisplayInv, ViewerIsCurrent
<1> QED
  BY <1>1, <1>2, <1>3, PTL DEF WpcSpec

=============================================================================
