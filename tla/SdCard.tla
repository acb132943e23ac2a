------------------------------- MODULE SdCard -------------------------------
(***************************************************************************)
(* The SD card controller of the multicomp09 machine (src/src/miscsbc.c),  *)
(* backed by a file of the host.  The guest moves a block byte by byte     *)
(* through SDDATA, and polls SDSTATUS before each byte.                    *)
(*                                                                         *)
(* Abstracted: the image is a whole number of blocks.  Accesses that only  *)
(* print an error (SDDATA without a poll, or outside of a command) change  *)
(* nothing and are not steps.                                              *)
(***************************************************************************)
EXTENDS HostFile, Sequences

CONSTANTS
  SdRegisters,  \* 0..255, the values of an LBA register
  SdByteValues, \* 256, the weight of SDLBA1
  SdLba2Values, \* 128: bit 7 of SDLBA2 is not used
  Seekable,     \* 2^22: from that block on mc_addr, an int, is negative and fseek fails
  BlockSize,    \* 512
  INIT_POLLS,   \* 16
  BYTE_POLLS,   \* 3
  SdData,       \* contents the guest puts into its buffer, sequences of bytes
  SdCommands,   \* values it writes to SDCONTROL
  SdImages      \* the images to start with

\* What mc_data holds.
SdBlock == [1..BlockSize -> SdRegisters]

ASSUME SdAssumption ==
  /\ SdRegisters = 0..SdByteValues - 1
  /\ {BlockSize, INIT_POLLS, BYTE_POLLS, SdLba2Values, SdByteValues} \subseteq Nat \ {0}
  /\ Seekable = LastBlock + 1
  /\ SdCommands \subseteq Nat
  /\ {Zero} \cup SdData \subseteq SdBlock /\ SdImages \subseteq Seq(SdBlock)

VARIABLES
  sd_file,    \* the image
  mc,         \* mc_state, mc_poll, mc_dindex, mc_data and mc_addr, a block number
  lba,        \* mc_sdlba0, mc_sdlba1, mc_sdlba2
  spinning,   \* the simulator does not come back from the command
  driver,     \* the guest: the LBA it wrote, whether SDLBA0 was written since
              \* the last SDCONTROL, its buffer and the bytes it has moved
  sd_at,      \* history: the block the guest means
  sd_done     \* history: the last command completed

sd_vars == <<sd_file, mc, lba, spinning, driver, sd_at, sd_done>>

\* The block three LBA registers name, which may be one that fseek refuses.
BlockOf(r) ==
  (r[2] % SdLba2Values) * SdByteValues * SdByteValues + r[1] * SdByteValues + r[0]

-----------------------------------------------------------------------------
(* The registers. *)

\* SDLBA0 to SDLBA2, at any time.
WriteLba(i, val) ==
  /\ ~spinning
  /\ lba' = [lba EXCEPT ![i] = val]
  /\ driver' = [driver EXCEPT !.lba[i] = val, !.fresh = @ \/ i = 0]
  /\ UNCHANGED <<sd_file, mc, spinning, sd_at, sd_done>>

\* Past the end of the image fread leaves mc_data as it was.
ReadCommand(addr) ==
  /\ spinning' = (addr >= Seekable)   \* its loop sets mc_dindex back to 0
  /\ mc' = [mc EXCEPT !.state = 3, !.poll = 0, !.dindex = 0, !.addr = addr,
                      !.data = IF addr \in Blocks /\ sd_file.view[addr] # Absent
                               THEN sd_file.view[addr] ELSE @]

WriteCommand(addr) ==
  /\ mc' = [mc EXCEPT !.state = 4, !.poll = 0, !.dindex = 0, !.addr = addr]
  /\ UNCHANGED spinning

UnknownCommand(addr) == mc' = [mc EXCEPT !.poll = 0, !.addr = addr] /\ UNCHANGED spinning

\* The block the guest means: SDLBA0 is what it wrote there, unless it has given a
\* command since; then it has to know what the command left there.
MeantBlock == BlockOf([driver.lba EXCEPT ![0] = IF driver.fresh THEN @ ELSE lba[0]])

\* SDCONTROL.  The C code goes on into the next case of its switch, so the
\* command ends up in SDLBA0.
WriteControl(val) ==
  /\ ~spinning
  /\ IF mc.state = 2
     THEN /\ CASE val = 0 -> ReadCommand(BlockOf(lba))
               [] val = 1 -> WriteCommand(BlockOf(lba))
               [] OTHER   -> UnknownCommand(BlockOf(lba))
          /\ sd_at' = MeantBlock
          /\ sd_done' = "none"
     ELSE UNCHANGED <<mc, spinning, sd_at, sd_done>>
  /\ lba' = [lba EXCEPT ![0] = val]
  /\ driver' = [driver EXCEPT !.fresh = FALSE, !.moved = IF mc.state = 2 THEN 0 ELSE @]
  /\ UNCHANGED sd_file

\* SDSTATUS: the card is ready for a byte after some polls.
ReadStatus ==
  /\ ~spinning
  /\ \/ /\ mc.state = 1
        /\ mc' = [mc EXCEPT !.poll = @ + 1, !.state = IF mc.poll + 1 = INIT_POLLS THEN 2 ELSE 1]
     \/ /\ mc.state \in {3, 4}
        /\ mc.poll < BYTE_POLLS
        /\ mc' = [mc EXCEPT !.poll = @ + 1]
  /\ UNCHANGED <<sd_file, lba, spinning, driver, sd_at, sd_done>>

Ready(state) == ~spinning /\ mc.state = state /\ mc.poll = BYTE_POLLS

\* SDDATA during a read: the last byte ends the command.
ReadData ==
  /\ Ready(3)
  /\ mc' = [mc EXCEPT !.poll = 0, !.dindex = @ + 1,
                      !.state = IF mc.dindex = BlockSize - 1 THEN 2 ELSE 3]
  /\ driver' = [driver EXCEPT !.buffer[driver.moved + 1] = mc.data[mc.dindex + 1],
                              !.moved = @ + 1]
  /\ sd_done' = IF mc'.state = 2 THEN "read" ELSE "none"
  /\ UNCHANGED <<sd_file, lba, spinning, sd_at>>

\* Mutant: the block is written out where the LBA registers point by then.
Commit_now(data) == fwrite(sd_file, BlockOf(lba), data)

\* The block goes to the address latched by the command, or is dropped.
Commit(data) == IF mc.addr < Seekable THEN fwrite(sd_file, mc.addr, data) ELSE sd_file

\* Mutant: the test for the last byte is made before the index is moved.
WriteEnds_late == mc.dindex = BlockSize

WriteEnds == mc.dindex + 1 = BlockSize

\* SDDATA during a write: the last byte writes the block out.
WriteData ==
  LET data == [mc.data EXCEPT ![mc.dindex + 1] = driver.buffer[driver.moved + 1]]
      last == WriteEnds
  IN  /\ Ready(4)
      /\ mc.dindex < BlockSize
      /\ mc' = [mc EXCEPT !.poll = 0, !.dindex = @ + 1, !.data = data,
                          !.state = IF last THEN 2 ELSE 4]
      /\ sd_file' = IF last THEN Commit(data) ELSE sd_file
      /\ driver' = [driver EXCEPT !.moved = @ + 1]
      /\ sd_done' = IF last THEN "write" ELSE "none"
      /\ UNCHANGED <<lba, spinning, sd_at>>

-----------------------------------------------------------------------------
(* The guest and the start. *)

\* Between commands the guest fills its buffer.
FillBuffer(contents) ==
  /\ ~spinning
  /\ mc.state = 2
  /\ driver' = [driver EXCEPT !.buffer = contents]
  /\ UNCHANGED <<sd_file, mc, lba, spinning, sd_at, sd_done>>

Spin == spinning /\ UNCHANGED sd_vars

\* What the globals hold at the start, and multicomp09_init's mc_state.
McStarted(state) == [state |-> state, poll |-> 0, dindex |-> 0, addr |-> 0, data |-> Zero]
LbaStarted == [i \in 0..2 |-> 0]
DriverStarted == [lba |-> LbaStarted, fresh |-> FALSE, buffer |-> Zero, moved |-> 0]

\* The simulator exits, which writes the image back, perhaps in the middle of a
\* command, and is started again.
SdRestart ==
  /\ ~spinning
  /\ mc.state \in 2..4
  /\ mc' = McStarted(1)
  /\ lba' = LbaStarted
  /\ driver' = DriverStarted
  /\ sd_at' = 0
  /\ sd_done' = "none"
  /\ UNCHANGED <<sd_file, spinning>>

\* With no image the card never gets ready.
SdInit ==
  /\ \E image \in SdImages :
       sd_file = [view |-> [b \in Blocks |-> IF b < Len(image) THEN image[b + 1] ELSE Absent]]
  /\ \E state \in {0, 1} : mc = McStarted(state)
  /\ lba = LbaStarted
  /\ spinning = FALSE
  /\ driver = DriverStarted
  /\ sd_at = 0
  /\ sd_done = "none"

SdNext ==
  \/ \E i \in 0..2, val \in SdRegisters : WriteLba(i, val)
  \/ \E val \in SdCommands : WriteControl(val)
  \/ ReadStatus
  \/ ReadData
  \/ WriteData
  \/ \E contents \in SdData : FillBuffer(contents)
  \/ Spin
  \/ SdRestart

\* A driver in the middle of a command goes on polling and moving bytes.
SdFairness == WF_sd_vars(ReadStatus) /\ WF_sd_vars(ReadData) /\ WF_sd_vars(WriteData)

SdSpec == SdInit /\ [][SdNext]_sd_vars /\ SdFairness

-----------------------------------------------------------------------------
(* Properties. *)

\* No block is flushed and no kill is considered, hence no dirty ones either.
SdStore == INSTANCE BlockStore WITH
             Slots <- {0}, Erased <- Zero, store <- sd_file.view,
             mem <- [s \in {0} |-> driver.buffer], at <- sd_at,
             done <- sd_done, dirty <- {}

\* A block moved byte by byte, with registers rewritten and commands given out
\* of turn in between, is the block the guest meant when it gave the command:
\* in order, complete, and no block changes before the last byte or by a write
\* that fseek refuses.
SdImplementsStore == SdStore!Spec

\* The card gets ready, and a command of a guest that goes on polling ends,
\* unless its block is one that fseek refuses.
SdCompletes == mc.state \in {1, 3, 4} ~> (mc.state = 2 \/ spinning)
=============================================================================
