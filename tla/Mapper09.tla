------------------------------ MODULE Mapper09 ------------------------------
(***************************************************************************)
(* The memory mapper of the multicomp09 machine (src/src/miscsbc.c): two   *)
(* sets of block registers, a ROM that can be switched off, and the fixed  *)
(* RAM top (FRT), which keeps the vectors and the code below them in one   *)
(* place while the operating system switches between the sets.             *)
(*                                                                         *)
(* Abstracted: the address space is the blocks below the top one and the   *)
(* three parts of that: "body" (E000-FDFF), "frt" (FE00-FF7F) and          *)
(* "vectors" (FF80-FFFF but for the two I/O slots, through the I/O         *)
(* expander).  What each part shows is a device, a physical block of it    *)
(* and whether it may be written.  Stores to MMUADR with bit 4 set are     *)
(* ignored and are not steps.                                              *)
(***************************************************************************)
EXTENDS Integers

CONSTANTS
  TopBlock,   \* 7
  FRT_BLOCK,  \* 7
  Physical    \* 0..127, the physical blocks in use

ASSUME MapperAssumption ==
  /\ TopBlock \in Nat
  /\ Physical \subseteq Nat /\ FRT_BLOCK \in Nat

\* An entry of mc_pblk: bit 7 and the other bits.
BlockRegister == [protect : BOOLEAN, block : Physical]

\* MMUADR: bits 7, 6, 5 and 3:0.
MapSelect == 0..2 * TopBlock + 1
AddressRegister == [romdis : BOOLEAN, tr : {0, 1}, mmuen : BOOLEAN, mapsel : MapSelect]

TopParts == {"body", "frt", "vectors"}

VARIABLES mc_mmuadr, mc_mmufrt, mc_pblk, memory

mapper_vars == <<mc_mmuadr, mc_mmufrt, mc_pblk, memory>>

-----------------------------------------------------------------------------
\* The register that maps a block, by the set TR selects.
Index(adr, blk) == blk + adr.tr * (TopBlock + 1)

mmu_offset(adr, pblk, blk) == IF adr.mmuen THEN pblk[Index(adr, blk)].block ELSE blk

mmu_flags(adr, pblk, blk) ==
  IF adr.mmuen /\ pblk[Index(adr, blk)].protect THEN "READABLE" ELSE "READWRITE"

Ram(block, flags) == [dev |-> "RAM", block |-> block, flags |-> flags]
Rom == [dev |-> "ROM", block |-> 0, flags |-> "READABLE"]
\* The I/O expander in front of the vectors is mapped for writing in any case.
RomBehindIo == [Rom EXCEPT !.flags = "READWRITE"]

\* The three parts of the top block, which the MMU, the ROM and FRT compete for.
TopMapping(adr, frt, pblk) ==
  LET mapped == mmu_offset(adr, pblk, TopBlock)
      flags  == mmu_flags(adr, pblk, TopBlock)
  IN  IF ~adr.romdis
      THEN [part \in TopParts |-> IF part = "vectors" THEN RomBehindIo ELSE Rom]
      ELSE [body    |-> Ram(mapped, flags),
            frt     |-> IF frt THEN Ram(FRT_BLOCK, flags) ELSE Ram(mapped, "READWRITE"),
            vectors |-> Ram(IF frt THEN FRT_BLOCK ELSE mapped, "READWRITE")]

\* What the bus shows after sdmapper_remap.
Mapping(adr, frt, pblk) ==
  [blocks |-> [blk \in 0..TopBlock - 1 |->
                 Ram(mmu_offset(adr, pblk, blk), mmu_flags(adr, pblk, blk))],
   top    |-> TopMapping(adr, frt, pblk)]

\* Mutant: ROMDIS changes although the store is the cue to fix the RAM top.
Cue_obeyed(adr, val) == val

\* With both bits set, a store that clears ROMDIS is "a cue to set FRT bit and
\* IGNORE transition of ROMDIS".
Cue(adr, val) ==
  IF adr.romdis /\ adr.mmuen /\ ~val.romdis /\ val.mmuen
  THEN [val EXCEPT !.romdis = TRUE] ELSE val

\* A store to MMUADR.  The cue sets FRT, and clearing MMUEN clears it.
WriteMmuadr(val) ==
  LET adr == Cue(mc_mmuadr, val)
      cue == mc_mmuadr.romdis /\ mc_mmuadr.mmuen /\ ~val.romdis /\ val.mmuen
  IN  /\ mc_mmufrt' = ((mc_mmufrt \/ cue) /\ val.mmuen)
      /\ mc_mmuadr' = adr
      /\ memory' = Mapping(adr, mc_mmufrt', mc_pblk)
      /\ UNCHANGED mc_pblk

\* A store to MMUDAT goes to the register MAPSEL selects.
WriteMmudat(val) ==
  /\ mc_pblk' = [mc_pblk EXCEPT ![mc_mmuadr.mapsel] = val]
  /\ memory' = Mapping(mc_mmuadr, mc_mmufrt, mc_pblk')
  /\ UNCHANGED <<mc_mmuadr, mc_mmufrt>>

\* The globals at the start, and multicomp09_init's sdmapper_remap(0, 0).
MapperInit ==
  /\ mc_mmuadr = [romdis |-> FALSE, tr |-> 0, mmuen |-> FALSE, mapsel |-> 0]
  /\ mc_mmufrt = FALSE
  /\ mc_pblk = [i \in MapSelect |-> [protect |-> FALSE, block |-> 0]]
  /\ memory = Mapping(mc_mmuadr, mc_mmufrt, mc_pblk)

MapperNext ==
  \/ \E val \in AddressRegister : WriteMmuadr(val)
  \/ \E val \in BlockRegister : WriteMmudat(val)

MapperSpec == MapperInit /\ [][MapperNext]_mapper_vars

-----------------------------------------------------------------------------
(* Properties. *)

\* The fixed RAM top is fixed: from the cue on, until the mapper is switched
\* off, no switch between the sets, no store to a block register and no further
\* store to MMUADR moves the vectors or the code below them out of FRT_BLOCK.
FixedTopStays ==
  mc_mmufrt => \A place \in {"frt", "vectors"} :
                 memory.top[place].dev = "RAM" /\ memory.top[place].block = FRT_BLOCK

\* "RAM from fixed block -- always allow read/write" (sdmapper_remap).
FixedTopWritable ==
  mc_mmufrt => \A place \in {"frt", "vectors"} : memory.top[place].flags = "READWRITE"
=============================================================================
