---------------------------- MODULE CpuInterrupts ----------------------------
(***************************************************************************)
(* The interrupt machinery of the 6809 (src/src/6809.c): the pending sets  *)
(* filled by request_irq/request_firq, the E, F and I flags of EFI, the    *)
(* frames that irq(), firq(), swi() and cwai() stack and rti() unstacks,   *)
(* the delayed check done by cc_modified() at the end of an instruction,   *)
(* and the two-state CWAI.                                                 *)
(*                                                                         *)
(* The processor is one record, and each C function that changes it is an  *)
(* operator from records to records, so that an action can run a whole     *)
(* instruction: its own effect, what a device it stores to does to the     *)
(* interrupt lines, and the check of cc_changed that ends it.              *)
(*                                                                         *)
(* Abstracted: registers other than PC and EFI (a full frame restores them *)
(* by the same six pops), and what the program's instructions compute.     *)
(***************************************************************************)
EXTENDS Integers, Sequences

CONSTANTS
  Sources,      \* the 'source' numbers a machine passes to request_irq
  Code,         \* addresses at which the program has an instruction
  CwaiAt,       \* those of them that hold a CWAI (opcode + immediate)
  Vector,       \* the interrupt vectors the program installed
  HandlersMayUnmask, \* whether handlers clear F or I before their RTI
  MaxDepth,     \* bound on the frames on the stack (model bound)
  MaxUpset      \* and, with the handlers, once a CWAI is upset (model bound)

Flags      == {"E", "F", "I"}
CwaiStates == {"IDLE", "WAIT"}
Kinds      == {"irq", "firq", "swi", "swi2", "swi3"}

ASSUME CodeAssumption ==
  /\ Code \subseteq Nat
  /\ CwaiAt \subseteq Code
  /\ \A a \in CwaiAt : a + 2 \in Code
ASSUME VectorAssumption   == Vector \in [Kinds \cup {"reset"} -> Code]
ASSUME UnmaskAssumption   == HandlersMayUnmask \in BOOLEAN
ASSUME MaxDepthAssumption == MaxDepth \in Nat \ {0} /\ MaxUpset \in Nat

VARIABLE cpu

vars == <<cpu>>

(***************************************************************************)
(* A frame is what one call of stack_machine_state pushes: the PC, the CC  *)
(* byte (its E, F and I bits), and, when "full" was passed, the other      *)
(* registers in between.  Two fields are history: an entry of "entered" is *)
(* the context a running handler interrupted, which its RTI has to bring   *)
(* back; "upset" is set when the operator resets a processor that waits in *)
(* CWAI or assigns to its PC or CC, and cleared by a reset outside CWAI.   *)
(***************************************************************************)
Frame == [pc : Code, cc : SUBSET Flags, full : BOOLEAN]
Entry == [kind : Kinds, pc : Code, mask : SUBSET {"F", "I"}]

CpuState == [pc         : Code,
             efi        : SUBSET Flags,
             stack      : Seq(Frame),
             irqs       : SUBSET Sources,
             firqs      : SUBSET Sources,
             cc_changed : BOOLEAN,
             cwai_state : CwaiStates,
             entered    : Seq(Entry),
             upset      : BOOLEAN]

Mask(efi) == efi \cap {"F", "I"}
Top(s)    == s[Len(s)]
Pop(s)    == SubSeq(s, 1, Len(s) - 1)

-----------------------------------------------------------------------------
(* The functions of 6809.c. *)

\* Mutant: the CC is stacked before E is set or cleared.
stack_machine_state_old_E(c, full) ==
  [c EXCEPT !.efi   = IF full THEN @ \cup {"E"} ELSE @ \ {"E"},
            !.stack = Append(@, [pc |-> c.pc, cc |-> c.efi, full |-> full])]

\* E is set or cleared first, so the CC that is stacked tells rti() how much
\* to pull.
stack_machine_state(c, full) ==
  LET cc == IF full THEN c.efi \cup {"E"} ELSE c.efi \ {"E"}
  IN  [c EXCEPT !.efi   = cc,
                !.stack = Append(@, [pc |-> c.pc, cc |-> cc, full |-> full])]

\* History: the handler entered now must return to the next instruction, or,
\* when the processor sits in CWAI, to the one after the CWAI.
Enter(c, kind) ==
  Append(c.entered,
         [kind |-> kind,
          pc   |-> IF c.cwai_state = "WAIT" /\ c.pc \in CwaiAt THEN c.pc + 2 ELSE c.pc,
          mask |-> Mask(c.efi)])

\* The part irq() and firq() share: in CWAI the state is stacked already.
TakeInterrupt(c, kind, full, masked) ==
  LET s == IF c.cwai_state = "WAIT"
           THEN [c EXCEPT !.cwai_state = "IDLE"]
           ELSE stack_machine_state(c, full)
  IN  [s EXCEPT !.efi     = @ \cup masked,
                !.pc      = Vector[kind],
                !.entered = Enter(c, kind)]

\* Mutant: irq() leaves I clear.
irq_unmasked(c) == TakeInterrupt(c, "irq", TRUE, {})

irq(c)  == TakeInterrupt(c, "irq", TRUE, {"I"})
firq(c) == TakeInterrupt(c, "firq", FALSE, {"F", "I"})

SoftwareInterrupt(c, kind, masked) ==
  LET s == stack_machine_state(c, TRUE)
  IN  [s EXCEPT !.efi     = @ \cup masked,
                !.pc      = Vector[kind],
                !.entered = Append(@, [kind |-> kind, pc |-> c.pc,
                                       mask |-> Mask(c.efi)])]

swi(c)  == SoftwareInterrupt(c, "swi", {"F", "I"})
swi2(c) == SoftwareInterrupt(c, "swi2", {})
swi3(c) == SoftwareInterrupt(c, "swi3", {})

request_irq(c, source) ==
  LET p == [c EXCEPT !.irqs = @ \cup {source}]
  IN  IF "I" \in p.efi THEN p ELSE irq(p)

release_irq(c, source) == [c EXCEPT !.irqs = @ \ {source}]

request_firq(c, source) ==
  LET p == [c EXCEPT !.firqs = @ \cup {source}]
  IN  IF "F" \in p.efi THEN p ELSE firq(p)

release_firq(c, source) == [c EXCEPT !.firqs = @ \ {source}]

\* Mutant: the flags change without a later check for pending interrupts.
set_cc_unnoticed(c, flags) == [c EXCEPT !.efi = flags]

set_cc(c, flags) == [c EXCEPT !.efi = flags, !.cc_changed = TRUE]

cc_modified(c) ==
  LET t == IF c.firqs # {} /\ "F" \notin c.efi THEN firq(c)
           ELSE IF c.irqs # {} /\ "I" \notin c.efi THEN irq(c)
           ELSE c
  IN  [t EXCEPT !.cc_changed = FALSE]

\* The end of the instruction loop's body in cpu_execute.
EndInsn(c) == IF c.cc_changed THEN cc_modified(c) ELSE c

\* With no frame left, or one whose shape is not the one its CC announces, RTI
\* pulls from some other bytes of memory: g stands for what it finds there.
OtherBytes == [pc : Code, cc : SUBSET Flags, full : {TRUE}]

rti(c, g) ==
  LET f == IF c.stack = << >> THEN g ELSE Top(c.stack)
  IN  [set_cc(c, f.cc) EXCEPT
         !.pc      = IF ("E" \in f.cc) <=> f.full THEN f.pc ELSE g.pc,
         !.stack   = Pop(@),
         !.entered = Pop(@)]

\* Mutant: the state is stacked before the mask is applied.
cwai_masks_late(c, keep) ==
  IF c.cwai_state = "IDLE"
  THEN LET s == stack_machine_state([c EXCEPT !.pc = @ + 2], TRUE)
       IN  [s EXCEPT !.cwai_state = "WAIT", !.pc = @ - 2, !.efi = @ \cap keep]
  ELSE c

\* Both halves leave PC at the CWAI itself: it is fetched again and again
\* until an interrupt is taken.  "keep" is the immediate operand.
cwai(c, keep) ==
  IF c.cwai_state = "IDLE"
  THEN LET s == stack_machine_state(
                  [c EXCEPT !.pc = @ + 2, !.efi = @ \cap keep], TRUE)
       IN  [s EXCEPT !.cwai_state = "WAIT", !.pc = @ - 2]
  ELSE c  \* the opcode fetch added 1 to PC and change_pc(PC - 1) undoes it

\* Neither the pending sets nor cwai_state are touched.  S becomes 0, so the
\* frames are gone; the handlers that were running never return.
cpu_reset(c) ==
  [c EXCEPT !.efi     = {"F", "I"},
            !.pc      = Vector["reset"],
            !.stack   = << >>,
            !.entered = << >>,
            !.upset   = (c.cwai_state = "WAIT")]

-----------------------------------------------------------------------------
(* The steps of the system. *)

\* Model bound: no step makes the stack deeper than MaxDepth frames, or, once
\* "upset" excuses what is on it, than MaxUpset frames and handlers.
Becomes(c) ==
  /\ IF c.upset THEN Len(c.stack) <= MaxUpset /\ Len(c.entered) <= MaxUpset
                ELSE Len(c.stack) <= MaxDepth
  /\ cpu' = c

\* Whether the program may put the masks of EFI to "flags" here.
MaskDiscipline(flags) ==
  HandlersMayUnmask \/ cpu.entered = << >> \/ Mask(cpu.efi) \subseteq flags

AtInsn == cpu.pc \in Code \ CwaiAt

\* PC has been advanced past an instruction that goes on at "next".
Fetched(next) == [cpu EXCEPT !.pc = next]

\* Any instruction that leaves EFI and the interrupt lines alone.
PlainInsn(next) == AtInsn /\ Becomes(EndInsn(Fetched(next)))

\* ANDCC, ORCC, and PULS, PULU, TFR, EXG to CC: they all go through set_cc.
SetCCInsn(next, flags) ==
  AtInsn /\ MaskDiscipline(flags) /\ Becomes(EndInsn(set_cc(Fetched(next), flags)))

\* A store whose device raises or drops a line before the instruction ends.
RaisingStore(next, source) ==
  /\ AtInsn
  /\ \/ Becomes(EndInsn(request_irq(Fetched(next), source)))
     \/ Becomes(EndInsn(request_firq(Fetched(next), source)))

DroppingStore(next, source) ==
  /\ AtInsn
  /\ \/ Becomes(EndInsn(release_irq(Fetched(next), source)))
     \/ Becomes(EndInsn(release_firq(Fetched(next), source)))

SwiInsn(next) ==
  /\ AtInsn
  /\ \/ Becomes(EndInsn(swi(Fetched(next))))
     \/ Becomes(EndInsn(swi2(Fetched(next))))
     \/ Becomes(EndInsn(swi3(Fetched(next))))

\* The program executes RTI at the end of a handler and nowhere else.
RtiInsn(g) == AtInsn /\ cpu.entered # << >> /\ Becomes(EndInsn(rti(cpu, g)))

CwaiInsn(keep) ==
  /\ cpu.pc \in CwaiAt
  /\ MaskDiscipline(cpu.efi \cap keep)
  /\ Becomes(EndInsn(cwai(cpu, keep)))

\* machine_update() and the machine's tick routine run between two calls of
\* cpu_execute, when no instruction is in progress.
RaisingUpdate(source) ==
  \/ Becomes(request_irq(cpu, source))
  \/ Becomes(request_firq(cpu, source))

\* "re", "pc" and "set $cc" at the debugger's prompt, which opens before the
\* opcode is fetched, in CWAI too: a waiting processor fetches its CWAI again
\* and again.
DebuggerReset == Becomes(cpu_reset(cpu))

\* History: what the operator changes under a processor that waits.
Upset(c) == [c EXCEPT !.upset = @ \/ c.cwai_state = "WAIT"]

DebuggerSetPC(addr) == Becomes(Upset(Fetched(addr)))

DebuggerSetCC(flags) == MaskDiscipline(flags) /\ Becomes(Upset(set_cc(cpu, flags)))

\* The state cpu_reset leaves before the first instruction.
Init == cpu = [pc         |-> Vector["reset"],
               efi        |-> {"F", "I"},
               stack      |-> << >>,
               irqs       |-> {},
               firqs      |-> {},
               cc_changed |-> FALSE,
               cwai_state |-> "IDLE",
               entered    |-> << >>,
               upset      |-> FALSE]

Next ==
  \/ \E next \in Code :
       \/ PlainInsn(next)
       \/ DebuggerSetPC(next)
       \/ SwiInsn(next)
       \/ \E flags \in SUBSET Flags : SetCCInsn(next, flags)
       \/ \E source \in Sources : RaisingStore(next, source) \/ DroppingStore(next, source)
  \/ \E keep \in SUBSET Flags : CwaiInsn(keep) \/ DebuggerSetCC(keep)
  \/ \E g \in OtherBytes : RtiInsn(g)
  \/ \E source \in Sources : RaisingUpdate(source)
  \/ DebuggerReset

Spec == Init /\ [][Next]_vars

-----------------------------------------------------------------------------
(* Properties. *)

\* Every field of the processor record keeps its type.
TypeOK == cpu \in CpuState

\* Pulling frame f resumes at pc with these masks, and pulls what was pushed:
\* the E bit of its CC says how much was stacked.
FrameReturnsTo(f, pc, mask) ==
  /\ ("E" \in f.cc) <=> f.full
  /\ f.pc = pc
  /\ Mask(f.cc) = mask

StackSound(c) ==
  /\ Len(c.stack) = Len(c.entered) + (IF c.cwai_state = "WAIT" THEN 1 ELSE 0)
  /\ \A i \in 1..Len(c.entered) :
       FrameReturnsTo(c.stack[i], c.entered[i].pc, c.entered[i].mask)

WaitSound(c) ==
  c.cwai_state = "WAIT" =>
    /\ c.stack # << >>
    /\ Top(c.stack).full
    /\ FrameReturnsTo(Top(c.stack), c.pc + 2, Mask(c.efi))

\* However interrupts, software interrupts and CWAI nest, the stack holds
\* exactly one frame per running handler, in order, and each one returns to
\* the context that handler interrupted; RTI never pulls the wrong bytes.
\* What the operator does at the prompt breaks it in one way only, by changing
\* a processor that waits in CWAI, and a reset outside CWAI mends it again.
StackDiscipline == cpu.upset \/ StackSound(cpu)

\* cwai(), irq() and firq(): whenever cwai_state is WAIT, the topmost frame is
\* the full one CWAI stacked for its successor, with the masks in force now,
\* unless the operator has changed the processor while it waited.
CwaiFrameSaved == cpu.upset \/ WaitSound(cpu)

\* request_irq promises that a masked request is checked "later when the flags
\* change": between instructions no request is both pending and unmasked,
\* unless the end of the next instruction is due to look (cc_changed).
NoUnmaskedPending ==
  \/ cpu.cc_changed
  \/ /\ cpu.irqs  # {} => "I" \in cpu.efi
     /\ cpu.firqs # {} => "F" \in cpu.efi

\* Handlers that leave the masks alone are not re-entered: an IRQ handler is
\* never interrupted by an IRQ, an FIRQ handler by neither (an RTI that pulls
\* no frame of its own, after such a change in CWAI, may bring any mask back).
NoReentry ==
  \/ cpu.upset
  \/ \A i, j \in 1..Len(cpu.entered) :
       i < j => /\ cpu.entered[i].kind = "irq"  => cpu.entered[j].kind # "irq"
                /\ cpu.entered[i].kind = "firq" => cpu.entered[j].kind \notin {"irq", "firq"}
=============================================================================
