-------------------------------- MODULE Disk --------------------------------
(***************************************************************************)
(* The disk drive of the eon machines (src/src/disk.c): it moves sectors   *)
(* between a file of the host and the RAM by itself.  The driver gives the *)
(* RAM sector, the disk sector in two bytes, high one first, and a         *)
(* command.  Only the low byte positions the file, and every transfer      *)
(* moves the position on, so that commands may be repeated.                *)
(*                                                                         *)
(* Abstracted: the contents of a sector to a value.  The registers are     *)
(* written in any order; only between a read and a write the driver gives  *)
(* the sector again (without that the C library does not say what the      *)
(* transfer does).                                                         *)
(***************************************************************************)
EXTENDS HostFile

CONSTANTS
  BYTE_VALUES,  \* 256, the values of a register
  SECTOR_SIZE,
  Slots,        \* RAM sectors in use
  Data,         \* contents the guest puts into its RAM
  Erased,       \* a sector of 0xFF bytes
  ImageSizes,   \* the sizes, in sectors, of a disk image there is at the start
  MaxOffset     \* model bound: how far the file is positioned (LastBlock: how far written)

Registers == 0..BYTE_VALUES - 1

ASSUME DiskAssumption ==
  /\ BYTE_VALUES \in Nat \ {0} /\ SECTOR_SIZE \in Nat \ {0}
  /\ 0 \in Slots
  /\ ImageSizes \subseteq Nat
  /\ MaxOffset \in Nat
  /\ Absent \notin Data \cup {Erased}

VARIABLES
  fp,         \* the file, and its position in bytes
  ram,        \* the sectors of ramdev
  disk,       \* the registers: offset, and ram as a sector number
  high,       \* history: the high byte given since the last low one, or NoByte
  disk_at,    \* history: the sector the driver means
  disk_done,  \* history: the last command since it was given
  disk_dirty  \* history: the sectors changed since the last flush command

disk_vars == <<fp, ram, disk, high, disk_at, disk_done, disk_dirty>>

NoByte == -1

Pos == fp.pos \div SECTOR_SIZE

-----------------------------------------------------------------------------
(* disk_write. *)

\* DSK_ADDR.
WriteAddr(val) ==
  /\ disk' = [disk EXCEPT !.ram = val]
  /\ UNCHANGED <<fp, ram, high, disk_at, disk_done, disk_dirty>>

\* DSK_SECTOR: the high byte replaces the offset, and nothing is positioned.
WriteSectorHigh(val) ==
  /\ disk' = [disk EXCEPT !.offset = val]
  /\ high' = val
  /\ UNCHANGED <<fp, ram, disk_at, disk_done, disk_dirty>>

\* From then on the offset is in bytes.
NewOffset(val) == (disk.offset * BYTE_VALUES + val) * SECTOR_SIZE

\* The sector the driver means: the number its two bytes make, and after a low
\* byte alone the one that the drive is known to make of it.
MeantSector(val) == IF high # NoByte THEN high * BYTE_VALUES + val ELSE NewOffset(val) \div SECTOR_SIZE

\* DSK_SECTOR+1: "only writes to the low byte cause an update".
WriteSectorLow(val) ==
  /\ NewOffset(val) <= MaxOffset
  /\ disk' = [disk EXCEPT !.offset = NewOffset(val)]
  /\ fp' = [fp EXCEPT !.pos = NewOffset(val)]
  /\ high' = NoByte
  /\ disk_at' = MeantSector(val)
  /\ disk_done' = "none"
  /\ UNCHANGED <<ram, disk_dirty>>

\* A transfer moves the position to the next sector.
Transferred(f) == [f EXCEPT !.pos = @ + SECTOR_SIZE]

\* The effect of a read on the file and the RAM: at the end of the file nothing
\* is read and the position stays.
ReadSector ==
  IF Pos \notin Blocks \/ fp.view[Pos] = Absent
  THEN <<fp, ram>>
  ELSE <<Transferred(fp), [ram EXCEPT ![disk.ram] = fp.view[Pos]]>>

WriteSector(data) == <<Transferred(fwrite(fp, Pos, data)), ram>>

\* What a command transfers.  The read bit is looked at first, then the write
\* bit, then the erase bit.
Transfer(bits) ==
  IF "READ" \in bits THEN ReadSector
  ELSE IF "WRITE" \in bits THEN WriteSector(ram[disk.ram])
  ELSE IF "ERASE" \in bits THEN WriteSector(Erased)
  ELSE <<fp, ram>>

Writes(bits) == "READ" \notin bits /\ bits \cap {"WRITE", "ERASE"} # {}

\* The command the bits stand for, if they stand for one.
Command(bits) ==
  IF "READ" \in bits THEN "read" ELSE IF Writes(bits) THEN "write" ELSE disk_done

\* Mutant: a flush is one of the alternatives.
Flushes_alone(bits) == bits = {"FLUSH"}

\* After any transfer.
Flushes(bits) == "FLUSH" \in bits

\* DSK_CTRL.
WriteCtrl(bits) ==
  LET t == Transfer(bits)
  IN  /\ Writes(bits) => Pos \in Blocks
      /\ disk_done \in {"none", Command(bits)}
      /\ fp' = IF Flushes(bits) THEN fflush(t[1]) ELSE t[1]
      /\ ram' = t[2]
      /\ disk_at' = disk_at + (fp'.pos - fp.pos) \div SECTOR_SIZE
      /\ disk_done' = Command(bits)
      /\ disk_dirty' = IF "FLUSH" \in bits THEN {}
                       ELSE disk_dirty \cup {b \in Blocks : fp'.view[b] # fp.view[b]}
      /\ UNCHANGED <<disk, high>>

-----------------------------------------------------------------------------
(* The guest, the host and the start. *)

GuestStore(s, data) ==
  /\ ram' = [ram EXCEPT ![s] = data]
  /\ UNCHANGED <<fp, disk, high, disk_at, disk_done, disk_dirty>>

\* The C library writes a sector back on its own.
DiskWriteBack(b) ==
  /\ fp' = WriteBack(fp, b)
  /\ UNCHANGED <<ram, disk, high, disk_at, disk_done, disk_dirty>>

\* disk_reset: the registers are 0, the file is at its start, and flushed.
disk_reset(f) == fflush([f EXCEPT !.pos = 0])

\* What a start leaves besides the file.
DiskStarted ==
  [disk |-> [offset |-> 0, ram |-> 0], ram |-> [s \in Slots |-> Zero]]

\* The simulator is killed and started on the same image.
DiskCrash ==
  /\ fp' = disk_reset(Reopened(fp))
  /\ disk' = DiskStarted.disk
  /\ ram' = DiskStarted.ram
  /\ high' = NoByte
  /\ disk_at' = 0
  /\ disk_done' = "none"
  /\ disk_dirty' = {}

disk_create(contents) == [view |-> contents, disk |-> contents, pos |-> 0]

Images == {[b \in Blocks |-> IF b < n THEN Zero ELSE Absent] : n \in ImageSizes}

\* What disk_format leaves: every sector erased and flushed, the file at its end
\* and the last sector in the register.
DISK_SECTOR_COUNT == LastBlock + 1
disk_format ==
  [view |-> [b \in Blocks |-> Erased], disk |-> [b \in Blocks |-> Erased],
   pos |-> DISK_SECTOR_COUNT * SECTOR_SIZE]
LastOffset == (DISK_SECTOR_COUNT - 1) * SECTOR_SIZE

\* disk_create attaches the drive, which resets it, and then formats a new image.
DiskInit ==
  /\ \/ /\ \E contents \in Images : fp = disk_reset(disk_create(contents))
        /\ disk = DiskStarted.disk
     \/ /\ fp = disk_format
        /\ disk = [DiskStarted.disk EXCEPT !.offset = LastOffset]
  /\ ram = DiskStarted.ram
  /\ high = NoByte
  /\ disk_at = Pos
  /\ disk_done = "none"
  /\ disk_dirty = {}

DiskNext ==
  \/ \E val \in Registers : WriteSectorHigh(val) \/ WriteSectorLow(val)
  \/ \E s \in Slots : WriteAddr(s) \/ \E data \in Data : GuestStore(s, data)
  \/ \E bits \in SUBSET {"READ", "WRITE", "ERASE", "FLUSH"} : WriteCtrl(bits)
  \/ \E b \in Blocks : DiskWriteBack(b)
  \/ DiskCrash

DiskSpec == DiskInit /\ [][DiskNext]_disk_vars

-----------------------------------------------------------------------------
(* Properties. *)

DiskStore == INSTANCE BlockStore WITH
               store <- fp.view, mem <- ram, at <- disk_at,
               done <- disk_done, dirty <- disk_dirty

\* However the registers are written, a byte missing or one of them alone,
\* transfers repeated and the image grows, the drive is a block store: a command
\* moves the sector the driver means and no other, and what was flushed survives
\* a kill of the simulator.
DiskImplementsStore == DiskStore!Spec
=============================================================================
