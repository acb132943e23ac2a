------------------------- MODULE InterruptsProofs ---------------------------
(***************************************************************************)
(* Proofs about interrupts: about the processor alone, CpuInterrupts, for  *)
(* every program, every set of sources and every stack depth; and about the*)
(* machines that interrupt it.  What is proved of the processor holds for  *)
(* eon2 and multicomp09 as a whole, and the devices' registers and the CPU's*)
(* lines agree, for every period, FIFO size and character set.             *)
(***************************************************************************)
EXTENDS Machines, SequenceTheorems, TLAPS

-----------------------------------------------------------------------------
(* The processor, for every program, set of sources and stack depth. *)

\* A processor no operator has upset: one that waits is still at its CWAI, so
\* its frame, stacked before the wait, returns to the instruction after it.
Good(c) ==
  /\ c \in CpuState
  /\ StackSound(c)
  /\ WaitSound(c)
  /\ c.cwai_state = "WAIT" => c.pc \in CwaiAt

USE DEF CwaiStates, Flags

\* stack_machine_state pushes one well-formed frame and changes only E.
LEMMA StackMachineState ==
  ASSUME NEW c \in CpuState, NEW full \in BOOLEAN
  PROVE  LET s == stack_machine_state(c, full)
             f == [pc |-> c.pc, cc |-> s.efi, full |-> full]
         IN  /\ s \in CpuState
             /\ f \in Frame
             /\ s.stack = Append(c.stack, f)
             /\ FrameReturnsTo(f, c.pc, Mask(c.efi))
             /\ s.pc = c.pc /\ s.irqs = c.irqs /\ s.firqs = c.firqs
             /\ s.cc_changed = c.cc_changed /\ s.cwai_state = c.cwai_state
             /\ s.entered = c.entered /\ s.upset = c.upset
             /\ Mask(s.efi) = Mask(c.efi)
  <1> DEFINE cc == IF full THEN c.efi \cup {"E"} ELSE c.efi \ {"E"}
             f  == [pc |-> c.pc, cc |-> cc, full |-> full]
             s  == stack_machine_state(c, full)
  <1>1. /\ s = [c EXCEPT !.efi = cc, !.stack = Append(c.stack, f)]
        /\ cc \in SUBSET Flags
        /\ f \in Frame
    BY DEF stack_machine_state, CpuState, Frame
  <1>2. Append(c.stack, f) \in Seq(Frame)
    BY <1>1, AppendProperties DEF CpuState
  <1> HIDE DEF f, cc
  <1>3. /\ s \in CpuState
        /\ s.efi = cc
        /\ s.stack = Append(c.stack, f)
        /\ s.pc = c.pc /\ s.irqs = c.irqs /\ s.firqs = c.firqs
        /\ s.cc_changed = c.cc_changed /\ s.cwai_state = c.cwai_state
        /\ s.entered = c.entered /\ s.upset = c.upset
    BY <1>1, <1>2 DEF CpuState
  <1>4. FrameReturnsTo(f, c.pc, Mask(c.efi)) /\ Mask(cc) = Mask(c.efi)
    BY DEF f, cc, FrameReturnsTo, Mask, CpuState
  <1> QED BY <1>1, <1>3, <1>4 DEF f

\* irq() and firq() give the handler they enter a frame that returns to the
\* interrupted context, whether it is stacked now or was stacked by CWAI.
LEMMA TakeInterruptGood ==
  ASSUME NEW c, Good(c), NEW kind \in {"irq", "firq"}, NEW full \in BOOLEAN,
         NEW masked \in SUBSET {"F", "I"}
  PROVE  /\ Good(TakeInterrupt(c, kind, full, masked))
         /\ TakeInterrupt(c, kind, full, masked).cwai_state = "IDLE"
  <1> DEFINE t == TakeInterrupt(c, kind, full, masked)
             s == IF c.cwai_state = "WAIT" THEN [c EXCEPT !.cwai_state = "IDLE"]
                  ELSE stack_machine_state(c, full)
             e == [kind |-> kind,
                   pc   |-> IF c.cwai_state = "WAIT" /\ c.pc \in CwaiAt
                            THEN c.pc + 2 ELSE c.pc,
                   mask |-> Mask(c.efi)]
  <1>1. c \in CpuState /\ kind \in Kinds /\ e \in Entry /\ e.pc \in Code
    BY CodeAssumption DEF Good, CpuState, Entry, Kinds, Mask
  <1>2. /\ s \in CpuState /\ s.cwai_state = "IDLE" /\ s.entered = c.entered
        /\ Len(s.stack) = Len(c.entered) + 1
        /\ FrameReturnsTo(s.stack[Len(c.entered) + 1], e.pc, e.mask)
        /\ \A i \in 1..Len(c.entered) : s.stack[i] = c.stack[i]
    <2>1. CASE c.cwai_state = "WAIT"
      BY <2>1, <1>1 DEF Good, CpuState, StackSound, WaitSound, Top
    <2>2. CASE c.cwai_state # "WAIT"
      <3> DEFINE f == [pc |-> c.pc, cc |-> s.efi, full |-> full]
      <3>1. /\ s \in CpuState /\ s.cwai_state = "IDLE" /\ s.entered = c.entered
            /\ f \in Frame
            /\ s.stack = Append(c.stack, f)
            /\ FrameReturnsTo(f, c.pc, Mask(c.efi))
        BY <2>2, <1>1, StackMachineState DEF CpuState
      <3>2. Len(c.stack) = Len(c.entered) /\ c.stack \in Seq(Frame)
        BY <2>2, <1>1 DEF Good, StackSound, CpuState
      <3> HIDE DEF f, s
      <3>3. /\ Len(s.stack) = Len(c.stack) + 1
            /\ s.stack[Len(c.stack) + 1] = f
            /\ \A i \in 1..Len(c.stack) : s.stack[i] = c.stack[i]
        BY <3>1, <3>2, AppendProperties
      <3> QED BY <2>2, <3>1, <3>2, <3>3
    <2> QED BY <2>1, <2>2
  <1>3. t = [s EXCEPT !.efi = s.efi \cup masked, !.pc = Vector[kind],
                      !.entered = Append(c.entered, e)]
    BY DEF TakeInterrupt, Enter
  <1> HIDE DEF s, e
  <1>4. /\ Append(c.entered, e) \in Seq(Entry)
        /\ Len(Append(c.entered, e)) = Len(c.entered) + 1
        /\ Append(c.entered, e)[Len(c.entered) + 1] = e
        /\ \A i \in 1..Len(c.entered) : Append(c.entered, e)[i] = c.entered[i]
        /\ Len(c.entered) \in Nat
    BY <1>1, AppendProperties DEF CpuState
  <1>5. /\ t \in CpuState /\ t.cwai_state = "IDLE" /\ t.stack = s.stack
        /\ t.entered = Append(c.entered, e)
    <2>1. Vector[kind] \in Code
      BY <1>1, VectorAssumption
    <2>2. s.efi \cup masked \in SUBSET Flags
      BY <1>2 DEF CpuState
    <2> HIDE DEF t
    <2> QED BY <1>2, <1>3, <1>4, <2>1, <2>2 DEF CpuState
  <1>6. StackSound(t)
    <2> HIDE DEF t
    <2>1. \A i \in 1..Len(c.entered) :
            FrameReturnsTo(c.stack[i], c.entered[i].pc, c.entered[i].mask)
      BY DEF Good, StackSound
    <2>2. SUFFICES ASSUME NEW i \in 1..Len(t.entered)
                   PROVE  FrameReturnsTo(t.stack[i], t.entered[i].pc, t.entered[i].mask)
      BY <1>2, <1>4, <1>5 DEF StackSound
    <2> QED BY <1>2, <1>4, <1>5, <2>1
  <1> QED BY <1>5, <1>6 DEF Good, WaitSound

\* Fields the invariant does not read, and, outside CWAI, PC and EFI too, may
\* change freely.
LEMMA GoodKept ==
  ASSUME NEW c, Good(c), NEW d \in CpuState,
         d.stack = c.stack, d.entered = c.entered, d.cwai_state = c.cwai_state,
         \/ c.cwai_state = "IDLE"
         \/ d.pc = c.pc /\ Mask(d.efi) = Mask(c.efi)
  PROVE  Good(d)
  BY DEF Good, StackSound, WaitSound, CpuState

\* irq() and firq() preserve the invariant and end the wait.
LEMMA IrqFirqGood ==
  ASSUME NEW c, Good(c)
  PROVE  /\ Good(irq(c)) /\ irq(c).cwai_state = "IDLE"
         /\ Good(firq(c)) /\ firq(c).cwai_state = "IDLE"
  BY TakeInterruptGood DEF irq, firq

\* Raising a line, with or without an interrupt taken at once.
LEMMA RequestGood ==
  ASSUME NEW c, Good(c), NEW source \in Sources
  PROVE  Good(request_irq(c, source)) /\ Good(request_firq(c, source))
  <1> DEFINE p == [c EXCEPT !.irqs = c.irqs \cup {source}]
             q == [c EXCEPT !.firqs = c.firqs \cup {source}]
  <1>1. c \in CpuState /\ c.irqs \cup {source} \in SUBSET Sources
                       /\ c.firqs \cup {source} \in SUBSET Sources
    BY DEF Good, CpuState
  <1>2. /\ p \in CpuState /\ p.stack = c.stack /\ p.entered = c.entered
        /\ p.cwai_state = c.cwai_state /\ p.pc = c.pc /\ p.efi = c.efi
    BY <1>1 DEF CpuState
  <1>3. /\ q \in CpuState /\ q.stack = c.stack /\ q.entered = c.entered
        /\ q.cwai_state = c.cwai_state /\ q.pc = c.pc /\ q.efi = c.efi
    BY <1>1 DEF CpuState
  <1> HIDE DEF p, q
  <1>4. Good(p) /\ Good(q)
    BY <1>2, <1>3, GoodKept
  <1>5. Good(irq(p)) /\ Good(firq(q))
    BY <1>4, IrqFirqGood
  <1> QED BY <1>4, <1>5 DEF p, q, request_irq, request_firq

\* Dropping a line changes a pending set only.
LEMMA ReleaseGood ==
  ASSUME NEW c, Good(c), NEW source \in Sources
  PROVE  Good(release_irq(c, source)) /\ Good(release_firq(c, source))
  <1> DEFINE p == release_irq(c, source)
             q == release_firq(c, source)
  <1>1. c \in CpuState /\ c.irqs \ {source} \in SUBSET Sources
                       /\ c.firqs \ {source} \in SUBSET Sources
    BY DEF Good, CpuState
  <1>2. /\ p \in CpuState /\ p.stack = c.stack /\ p.entered = c.entered
        /\ p.cwai_state = c.cwai_state /\ p.pc = c.pc /\ p.efi = c.efi
    BY <1>1 DEF CpuState, release_irq
  <1>3. /\ q \in CpuState /\ q.stack = c.stack /\ q.entered = c.entered
        /\ q.cwai_state = c.cwai_state /\ q.pc = c.pc /\ q.efi = c.efi
    BY <1>1 DEF CpuState, release_firq
  <1> HIDE DEF p, q
  <1>4. Good(p) /\ Good(q)
    BY <1>2, <1>3, GoodKept
  <1> QED BY <1>4 DEF p, q

\* The check at the end of an instruction.
LEMMA EndInsnGood ==
  ASSUME NEW c, Good(c)
  PROVE  Good(EndInsn(c))
  <1> DEFINE t == IF c.firqs # {} /\ "F" \notin c.efi THEN firq(c)
                  ELSE IF c.irqs # {} /\ "I" \notin c.efi THEN irq(c)
                  ELSE c
             d == [t EXCEPT !.cc_changed = FALSE]
  <1>1. Good(t)
    BY IrqFirqGood
  <1> HIDE DEF t
  <1>2. /\ d \in CpuState /\ d.stack = t.stack /\ d.entered = t.entered
        /\ d.cwai_state = t.cwai_state /\ d.pc = t.pc /\ d.efi = t.efi
    BY <1>1 DEF Good, CpuState
  <1> HIDE DEF d
  <1>3. Good(d)
    BY <1>1, <1>2, GoodKept
  <1> QED BY <1>3 DEF EndInsn, cc_modified, t, d

\* Moving PC on, and writing CC, outside CWAI.
LEMMA MoveGood ==
  ASSUME NEW c, Good(c), c.cwai_state = "IDLE", NEW next \in Code
  PROVE  /\ Good([c EXCEPT !.pc = next])
         /\ [c EXCEPT !.pc = next].cwai_state = "IDLE"
         /\ [c EXCEPT !.pc = next].entered = c.entered
  <1> DEFINE d == [c EXCEPT !.pc = next]
  <1>1. /\ d \in CpuState /\ d.stack = c.stack /\ d.entered = c.entered
        /\ d.cwai_state = c.cwai_state
    BY DEF Good, CpuState
  <1> HIDE DEF d
  <1> Good(d)
    BY <1>1, GoodKept
  <1> QED BY <1>1 DEF d

LEMMA SetCCGood ==
  ASSUME NEW c, Good(c), c.cwai_state = "IDLE", NEW flags \in SUBSET Flags
  PROVE  Good(set_cc(c, flags))
  <1> DEFINE d == set_cc(c, flags)
  <1>1. /\ d \in CpuState /\ d.stack = c.stack /\ d.entered = c.entered
        /\ d.cwai_state = c.cwai_state
    BY DEF Good, CpuState, set_cc
  <1> HIDE DEF d
  <1> Good(d)
    BY <1>1, GoodKept
  <1> QED BY DEF d

\* What the operator changes outside CWAI is no upset.
LEMMA UpsetGood ==
  ASSUME NEW c, Good(c), c.cwai_state = "IDLE"
  PROVE  Good(Upset(c))
  <1> DEFINE d == Upset(c)
  <1>1. /\ d \in CpuState /\ d.stack = c.stack /\ d.entered = c.entered
        /\ d.cwai_state = c.cwai_state
    BY DEF Good, CpuState, Upset
  <1> HIDE DEF d
  <1> Good(d)
    BY <1>1, GoodKept
  <1> QED BY DEF d

\* A software interrupt stacks a full frame for its handler.
LEMMA SoftwareInterruptGood ==
  ASSUME NEW c, Good(c), c.cwai_state = "IDLE", NEW kind \in Kinds,
         NEW masked \in SUBSET {"F", "I"}
  PROVE  Good(SoftwareInterrupt(c, kind, masked))
  <1> DEFINE s == stack_machine_state(c, TRUE)
             t == SoftwareInterrupt(c, kind, masked)
             e == [kind |-> kind, pc |-> c.pc, mask |-> Mask(c.efi)]
             f == [pc |-> c.pc, cc |-> s.efi, full |-> TRUE]
  <1>1. c \in CpuState /\ e \in Entry /\ Len(c.stack) = Len(c.entered)
    BY DEF Good, CpuState, Entry, Mask, StackSound
  <1>2. /\ s \in CpuState /\ s.cwai_state = "IDLE" /\ s.entered = c.entered
        /\ f \in Frame /\ s.stack = Append(c.stack, f)
        /\ FrameReturnsTo(f, e.pc, e.mask)
    BY <1>1, StackMachineState
  <1>3. t = [s EXCEPT !.efi = s.efi \cup masked, !.pc = Vector[kind],
                      !.entered = Append(s.entered, e)]
    BY DEF SoftwareInterrupt
  <1> HIDE DEF s, e, f, t
  <1>4. Vector[kind] \in Code /\ s.efi \cup masked \in SUBSET Flags
    BY <1>2, VectorAssumption DEF CpuState
  <1>5. /\ Append(c.entered, e) \in Seq(Entry)
        /\ Len(Append(c.entered, e)) = Len(c.entered) + 1
        /\ Append(c.entered, e)[Len(c.entered) + 1] = e
        /\ \A i \in 1..Len(c.entered) : Append(c.entered, e)[i] = c.entered[i]
        /\ Len(c.entered) \in Nat
    BY <1>1, AppendProperties DEF CpuState
  <1>6. /\ Len(Append(c.stack, f)) = Len(c.stack) + 1
        /\ Append(c.stack, f)[Len(c.stack) + 1] = f
        /\ \A i \in 1..Len(c.stack) : Append(c.stack, f)[i] = c.stack[i]
    BY <1>1, <1>2, AppendProperties DEF CpuState
  <1>7. /\ t \in CpuState /\ t.cwai_state = "IDLE" /\ t.stack = Append(c.stack, f)
        /\ t.entered = Append(c.entered, e)
    BY <1>2, <1>3, <1>4, <1>5 DEF CpuState
  <1>8. StackSound(t)
    <2>1. \A i \in 1..Len(c.entered) :
            FrameReturnsTo(c.stack[i], c.entered[i].pc, c.entered[i].mask)
      BY DEF Good, StackSound
    <2>2. SUFFICES ASSUME NEW i \in 1..Len(t.entered)
                   PROVE  FrameReturnsTo(t.stack[i], t.entered[i].pc, t.entered[i].mask)
      BY <1>1, <1>5, <1>6, <1>7 DEF StackSound
    <2> QED BY <1>1, <1>2, <1>5, <1>6, <1>7, <2>1
  <1> QED BY <1>7, <1>8 DEF Good, WaitSound, t

\* RTI pulls the frame of the handler it ends, at its true boundary.
LEMMA RtiGood ==
  ASSUME NEW c, Good(c), c.cwai_state = "IDLE", c.entered # << >>,
         NEW g \in OtherBytes
  PROVE  Good(rti(c, g))
  <1> DEFINE f == IF c.stack = << >> THEN g ELSE Top(c.stack)
             d == rti(c, g)
             n == Len(c.entered)
  <1>1. /\ c \in CpuState /\ Len(c.stack) = n /\ n \in Nat /\ n > 0
        /\ c.stack \in Seq(Frame) /\ c.entered \in Seq(Entry)
    BY EmptySeq DEF Good, CpuState, StackSound
  <1>2. f \in Frame
    BY <1>1, EmptySeq DEF Top
  <1>3. /\ Pop(c.stack) \in Seq(Frame) /\ Pop(c.entered) \in Seq(Entry)
        /\ Len(Pop(c.stack)) = n - 1 /\ Len(Pop(c.entered)) = n - 1
        /\ \A i \in 1..(n - 1) : /\ Pop(c.stack)[i] = c.stack[i]
                                 /\ Pop(c.entered)[i] = c.entered[i]
    BY <1>1, SubSeqProperties DEF Pop
  <1> DEFINE target == IF ("E" \in f.cc) <=> f.full THEN f.pc ELSE g.pc
  <1>4. target \in Code /\ f.cc \in SUBSET Flags
    BY <1>2 DEF Frame, OtherBytes
  <1>5. d = [set_cc(c, f.cc) EXCEPT !.pc = target, !.stack = Pop(c.stack),
                                    !.entered = Pop(c.entered)]
    BY <1>1 DEF rti, set_cc, CpuState
  <1> HIDE DEF f, d, target, n
  <1>6. /\ d \in CpuState /\ d.cwai_state = "IDLE"
        /\ d.stack = Pop(c.stack) /\ d.entered = Pop(c.entered)
    BY <1>1, <1>3, <1>4, <1>5 DEF CpuState, set_cc
  <1>7. StackSound(d)
    <2>1. \A i \in 1..n :
            FrameReturnsTo(c.stack[i], c.entered[i].pc, c.entered[i].mask)
      BY DEF Good, StackSound, n
    <2>2. SUFFICES ASSUME NEW i \in 1..Len(d.entered)
                   PROVE  FrameReturnsTo(d.stack[i], d.entered[i].pc, d.entered[i].mask)
      BY <1>3, <1>6 DEF StackSound
    <2> QED BY <1>1, <1>3, <1>6, <2>1
  <1> QED BY <1>6, <1>7 DEF Good, WaitSound, d

\* CWAI stacks the frame that returns past it, and keeps PC on itself.
LEMMA CwaiGood ==
  ASSUME NEW c, Good(c), c.pc \in CwaiAt, NEW keep \in SUBSET Flags
  PROVE  Good(cwai(c, keep))
  <1>1. CASE c.cwai_state # "IDLE"
    BY <1>1 DEF cwai
  <1>2. CASE c.cwai_state = "IDLE"
    <2> DEFINE b == [c EXCEPT !.pc = c.pc + 2, !.efi = c.efi \cap keep]
               s == stack_machine_state(b, TRUE)
               d == cwai(c, keep)
               f == [pc |-> b.pc, cc |-> s.efi, full |-> TRUE]
    <2>1. c \in CpuState /\ c.pc \in Nat /\ c.pc + 2 \in Code
                         /\ c.efi \cap keep \in SUBSET Flags
      BY CodeAssumption DEF Good, CpuState
    <2>2. /\ b \in CpuState /\ b.pc = c.pc + 2 /\ b.cwai_state = "IDLE"
          /\ b.stack = c.stack /\ b.entered = c.entered
      BY <1>2, <2>1 DEF CpuState
    <2>3. d = [s EXCEPT !.cwai_state = "WAIT", !.pc = s.pc - 2]
      BY <1>2 DEF cwai
    <2> HIDE DEF b, d
    <2>4. /\ s \in CpuState /\ s.pc = c.pc + 2 /\ s.entered = c.entered
          /\ f \in Frame /\ s.stack = Append(c.stack, f)
          /\ FrameReturnsTo(f, c.pc + 2, Mask(s.efi))
      BY <2>2, StackMachineState
    <2> HIDE DEF s
    <2>5. s.pc - 2 = c.pc /\ c.pc \in Code
      BY <2>1, <2>4, CodeAssumption
    <2>6. /\ d \in CpuState /\ d.cwai_state = "WAIT" /\ d.pc = c.pc
          /\ d.stack = s.stack /\ d.entered = c.entered /\ d.efi = s.efi
      BY <2>3, <2>4, <2>5 DEF CpuState
    <2> HIDE DEF f
    <2>7. /\ c.stack \in Seq(Frame) /\ Len(c.stack) = Len(c.entered)
          /\ Len(c.entered) \in Nat
      BY <1>2 DEF Good, StackSound, CpuState
    <2>8. /\ Len(d.stack) = Len(c.stack) + 1
          /\ d.stack[Len(c.stack) + 1] = f
          /\ \A i \in 1..Len(c.stack) : d.stack[i] = c.stack[i]
      BY <2>4, <2>6, <2>7, AppendProperties
    <2>9. StackSound(d)
      BY <2>6, <2>7, <2>8 DEF Good, StackSound
    <2>10. WaitSound(d)
      <3>1. d.stack # << >> /\ Top(d.stack) = f
        BY <2>7, <2>8 DEF Top
      <3>2. f.full
        BY DEF f
      <3> QED BY <2>4, <2>6, <3>1, <3>2 DEF WaitSound
    <2> QED BY <2>6, <2>9, <2>10 DEF Good, d
  <1> QED BY <1>1, <1>2

\* Every step of the system preserves the invariant, except what the operator
\* does to a processor that waits.
LEMMA NextGood ==
  ASSUME cpu.cwai_state = "IDLE" \/ ~cpu'.upset, Good(cpu), [Next]_vars
  PROVE  Good(cpu')
  <1>1. AtInsn => cpu.cwai_state = "IDLE"
    BY DEF AtInsn, Good, CpuState
  <1>2. ASSUME NEW next \in Code, cpu.cwai_state = "IDLE"
        PROVE  /\ Good(Fetched(next)) /\ Fetched(next).cwai_state = "IDLE"
               /\ Fetched(next).entered = cpu.entered
    BY <1>2, MoveGood DEF Fetched
  <1>3. ASSUME NEW next \in Code, PlainInsn(next) PROVE Good(cpu')
    BY <1>1, <1>2, <1>3, EndInsnGood DEF PlainInsn, Becomes
  <1>4. ASSUME NEW next \in Code, SwiInsn(next) PROVE Good(cpu')
    <2>1. Good(Fetched(next)) /\ Fetched(next).cwai_state = "IDLE"
      BY <1>1, <1>2, <1>4 DEF SwiInsn
    <2>2. /\ Good(swi(Fetched(next)))
          /\ Good(swi2(Fetched(next)))
          /\ Good(swi3(Fetched(next)))
      BY <2>1, SoftwareInterruptGood DEF swi, swi2, swi3, Kinds
    <2> QED BY <1>4, <2>2, EndInsnGood DEF SwiInsn, Becomes
  <1>5. ASSUME NEW g \in OtherBytes, RtiInsn(g) PROVE Good(cpu')
    BY <1>1, <1>5, RtiGood, EndInsnGood DEF RtiInsn, Becomes
  <1>6. ASSUME NEW next \in Code, NEW flags \in SUBSET Flags, SetCCInsn(next, flags)
        PROVE  Good(cpu')
    BY <1>1, <1>2, <1>6, SetCCGood, EndInsnGood DEF SetCCInsn, Becomes
  <1>7. ASSUME NEW next \in Code, NEW source \in Sources,
               RaisingStore(next, source) \/ DroppingStore(next, source)
        PROVE  Good(cpu')
    <2>1. Good(Fetched(next))
      BY <1>1, <1>2, <1>7 DEF RaisingStore, DroppingStore
    <2>2. /\ Good(request_irq(Fetched(next), source))
          /\ Good(request_firq(Fetched(next), source))
          /\ Good(release_irq(Fetched(next), source))
          /\ Good(release_firq(Fetched(next), source))
      BY <2>1, RequestGood, ReleaseGood
    <2> QED BY <1>7, <2>2, EndInsnGood DEF RaisingStore, DroppingStore, Becomes
  <1>8. ASSUME NEW keep \in SUBSET Flags, CwaiInsn(keep) PROVE Good(cpu')
    BY <1>8, CwaiGood, EndInsnGood DEF CwaiInsn, Becomes
  <1>9. ASSUME NEW source \in Sources, RaisingUpdate(source) PROVE Good(cpu')
    BY <1>9, RequestGood DEF RaisingUpdate, Becomes
  <1>10. ASSUME NEW next \in Code, DebuggerSetPC(next) PROVE Good(cpu')
    <2>1. cpu' = Upset(Fetched(next)) /\ Fetched(next).cwai_state = cpu.cwai_state
      BY <1>10 DEF DebuggerSetPC, Becomes, Fetched, Good, CpuState
    <2>2. Fetched(next) \in CpuState
      BY DEF Fetched, Good, CpuState
    <2>3. cpu.cwai_state = "IDLE"
      BY <2>1, <2>2 DEF Upset, Good, CpuState
    <2> QED BY <1>2, <2>1, <2>3, UpsetGood
  <1>11. ASSUME NEW flags \in SUBSET Flags, DebuggerSetCC(flags) PROVE Good(cpu')
    <2>1. /\ cpu' = Upset(set_cc(cpu, flags))
          /\ set_cc(cpu, flags).cwai_state = cpu.cwai_state
      BY <1>11 DEF DebuggerSetCC, Becomes, set_cc, Good, CpuState
    <2>2. set_cc(cpu, flags) \in CpuState
      BY DEF set_cc, Good, CpuState
    <2>3. cpu.cwai_state = "IDLE"
      BY <2>1, <2>2 DEF Upset, Good, CpuState
    <2> QED BY <2>1, <2>3, SetCCGood, UpsetGood
  <1>12. CASE DebuggerReset
    <2>1. cpu.cwai_state = "IDLE" /\ cpu \in CpuState /\ cpu' = cpu_reset(cpu)
      BY <1>12 DEF DebuggerReset, cpu_reset, Good, CpuState, Becomes
    <2>2. Vector["reset"] \in Code /\ << >> \in Seq(Frame) /\ << >> \in Seq(Entry)
      BY VectorAssumption
    <2>3. /\ cpu' \in CpuState /\ cpu'.cwai_state = "IDLE"
          /\ cpu'.stack = << >> /\ cpu'.entered = << >>
      BY <2>1, <2>2 DEF cpu_reset, CpuState
    <2> QED BY <2>3 DEF Good, StackSound, WaitSound
  <1>13. CASE UNCHANGED vars
    BY <1>13 DEF vars
  <1> QED
    BY <1>3, <1>4, <1>5, <1>6, <1>7, <1>8, <1>9, <1>10, <1>11, <1>12, <1>13 DEF Next

LEMMA InitGood == Init => Good(cpu)
  <1> SUFFICES ASSUME Init PROVE Good(cpu)
    OBVIOUS
  <1>1. Vector["reset"] \in Code /\ << >> \in Seq(Frame) /\ << >> \in Seq(Entry)
    BY VectorAssumption
  <1>2. /\ cpu \in CpuState /\ cpu.cwai_state = "IDLE"
        /\ cpu.stack = << >> /\ cpu.entered = << >>
    BY <1>1 DEF Init, CpuState
  <1> QED BY <1>2 DEF Good, StackSound, WaitSound

\* The same operations on a processor in any state: each keeps its type and
\* the history "upset".
TypedFrom(d, c) == d \in CpuState /\ d.upset = c.upset

LEMMA TakeInterruptTyped ==
  ASSUME NEW c \in CpuState, NEW kind \in {"irq", "firq"}, NEW full \in BOOLEAN,
         NEW masked \in SUBSET {"F", "I"}
  PROVE  TypedFrom(TakeInterrupt(c, kind, full, masked), c)
  <1> DEFINE t == TakeInterrupt(c, kind, full, masked)
             s == IF c.cwai_state = "WAIT" THEN [c EXCEPT !.cwai_state = "IDLE"]
                  ELSE stack_machine_state(c, full)
             e == [kind |-> kind,
                   pc   |-> IF c.cwai_state = "WAIT" /\ c.pc \in CwaiAt
                            THEN c.pc + 2 ELSE c.pc,
                   mask |-> Mask(c.efi)]
  <1>1. kind \in Kinds /\ e \in Entry
    BY CodeAssumption DEF CpuState, Entry, Kinds, Mask
  <1>2. s \in CpuState /\ s.upset = c.upset
    <2>1. CASE c.cwai_state = "WAIT"
      BY <2>1 DEF CpuState
    <2>2. CASE c.cwai_state # "WAIT"
      BY <2>2, StackMachineState
    <2> QED BY <2>1, <2>2
  <1>3. t = [s EXCEPT !.efi = s.efi \cup masked, !.pc = Vector[kind],
                      !.entered = Append(c.entered, e)]
    BY DEF TakeInterrupt, Enter
  <1> HIDE DEF s, e, t
  <1>4. Append(c.entered, e) \in Seq(Entry) /\ Vector[kind] \in Code
                                          /\ s.efi \cup masked \in SUBSET Flags
    BY <1>1, <1>2, AppendProperties, VectorAssumption DEF CpuState
  <1>5. t \in CpuState /\ t.upset = s.upset
    BY <1>2, <1>3, <1>4 DEF CpuState
  <1> QED BY <1>2, <1>5 DEF TypedFrom, t

LEMMA IrqFirqTyped ==
  ASSUME NEW c \in CpuState
  PROVE  TypedFrom(irq(c), c) /\ TypedFrom(firq(c), c)
  BY TakeInterruptTyped DEF irq, firq

LEMMA LinesTyped ==
  ASSUME NEW c \in CpuState, NEW source \in Sources
  PROVE  /\ TypedFrom(request_irq(c, source), c) /\ TypedFrom(request_firq(c, source), c)
         /\ TypedFrom(release_irq(c, source), c) /\ TypedFrom(release_firq(c, source), c)
  <1> DEFINE p == [c EXCEPT !.irqs = c.irqs \cup {source}]
             q == [c EXCEPT !.firqs = c.firqs \cup {source}]
  <1>1. TypedFrom(p, c) /\ TypedFrom(q, c)
    BY DEF CpuState, TypedFrom
  <1>2. /\ request_irq(c, source) = IF "I" \in p.efi THEN p ELSE irq(p)
        /\ request_firq(c, source) = IF "F" \in q.efi THEN q ELSE firq(q)
    BY DEF request_irq, request_firq
  <1>3. TypedFrom(release_irq(c, source), c) /\ TypedFrom(release_firq(c, source), c)
    BY DEF CpuState, TypedFrom, release_irq, release_firq
  <1> HIDE DEF p, q
  <1>4. TypedFrom(irq(p), c) /\ TypedFrom(firq(q), c)
    BY <1>1, IrqFirqTyped DEF TypedFrom
  <1> QED BY <1>1, <1>2, <1>3, <1>4

LEMMA EndInsnTyped ==
  ASSUME NEW c \in CpuState
  PROVE  TypedFrom(EndInsn(c), c)
  <1> DEFINE t == IF c.firqs # {} /\ "F" \notin c.efi THEN firq(c)
                  ELSE IF c.irqs # {} /\ "I" \notin c.efi THEN irq(c)
                  ELSE c
             d == [t EXCEPT !.cc_changed = FALSE]
  <1>1. TypedFrom(t, c)
    BY IrqFirqTyped DEF TypedFrom
  <1>2. EndInsn(c) = IF c.cc_changed THEN d ELSE c
    BY DEF EndInsn, cc_modified
  <1> HIDE DEF t
  <1>3. d \in CpuState /\ d.upset = t.upset
    BY <1>1 DEF TypedFrom, CpuState
  <1> HIDE DEF d
  <1> QED BY <1>1, <1>2, <1>3 DEF TypedFrom

LEMMA SoftwareInterruptTyped ==
  ASSUME NEW c \in CpuState, NEW kind \in Kinds, NEW masked \in SUBSET {"F", "I"}
  PROVE  TypedFrom(SoftwareInterrupt(c, kind, masked), c)
  <1> DEFINE s == stack_machine_state(c, TRUE)
             t == SoftwareInterrupt(c, kind, masked)
             e == [kind |-> kind, pc |-> c.pc, mask |-> Mask(c.efi)]
  <1>1. e \in Entry /\ s \in CpuState /\ s.upset = c.upset /\ s.entered = c.entered
    BY StackMachineState DEF CpuState, Entry, Mask
  <1>2. t = [s EXCEPT !.efi = s.efi \cup masked, !.pc = Vector[kind],
                      !.entered = Append(s.entered, e)]
    BY DEF SoftwareInterrupt
  <1> HIDE DEF s, e, t
  <1>3. Append(s.entered, e) \in Seq(Entry) /\ Vector[kind] \in Code
                                          /\ s.efi \cup masked \in SUBSET Flags
    BY <1>1, AppendProperties, VectorAssumption DEF CpuState
  <1>4. t \in CpuState /\ t.upset = s.upset
    BY <1>1, <1>2, <1>3 DEF CpuState
  <1> QED BY <1>1, <1>4 DEF TypedFrom, t

\* RTI with a stack that may be empty: it then takes what it finds.
LEMMA RtiTyped ==
  ASSUME NEW c \in CpuState, c.entered # << >>, NEW g \in OtherBytes
  PROVE  TypedFrom(rti(c, g), c)
  <1> DEFINE f == IF c.stack = << >> THEN g ELSE Top(c.stack)
             d == rti(c, g)
             target == IF ("E" \in f.cc) <=> f.full THEN f.pc ELSE g.pc
  <1>1. f.pc \in Code /\ f.cc \in SUBSET Flags /\ g.pc \in Code
    <2>1. CASE c.stack = << >>
      BY <2>1 DEF OtherBytes
    <2>2. CASE c.stack # << >>
      <3>1. c.stack \in Seq(Frame) /\ Len(c.stack) \in 1..Len(c.stack)
        BY <2>2, EmptySeq DEF CpuState
      <3>2. Top(c.stack) \in Frame
        BY <3>1 DEF Top
      <3> QED BY <2>2, <3>2 DEF Frame, OtherBytes
    <2> QED BY <2>1, <2>2
  <1>2. Pop(c.stack) \in Seq(Frame) /\ Pop(c.entered) \in Seq(Entry)
    <2>1. \A S : \A s \in Seq(S) : SubSeq(s, 1, Len(s) - 1) \in Seq(S)
      <3> SUFFICES ASSUME NEW S, NEW s \in Seq(S)
                   PROVE  SubSeq(s, 1, Len(s) - 1) \in Seq(S)
        OBVIOUS
      <3> QED BY SubSeqProperties
    <2> QED BY <2>1 DEF Pop, CpuState
  <1>3. d = [set_cc(c, f.cc) EXCEPT !.pc = target, !.stack = Pop(c.stack),
                                    !.entered = Pop(c.entered)]
    BY DEF rti, set_cc, CpuState
  <1>4. target \in Code
    BY <1>1
  <1> HIDE DEF f, d, target
  <1>5. d \in CpuState /\ d.upset = c.upset
    BY <1>1, <1>2, <1>3, <1>4 DEF CpuState, set_cc
  <1> QED BY <1>5 DEF TypedFrom, d

LEMMA CwaiTyped ==
  ASSUME NEW c \in CpuState, c.pc \in CwaiAt, NEW keep \in SUBSET Flags
  PROVE  TypedFrom(cwai(c, keep), c)
  <1>1. CASE c.cwai_state # "IDLE"
    BY <1>1 DEF cwai, TypedFrom
  <1>2. CASE c.cwai_state = "IDLE"
    <2> DEFINE b == [c EXCEPT !.pc = c.pc + 2, !.efi = c.efi \cap keep]
               s == stack_machine_state(b, TRUE)
               d == cwai(c, keep)
    <2>1. c.pc \in Nat /\ c.pc + 2 \in Code /\ c.efi \cap keep \in SUBSET Flags
      BY CodeAssumption DEF CpuState
    <2>2. b \in CpuState /\ b.pc = c.pc + 2 /\ b.upset = c.upset
      BY <2>1 DEF CpuState
    <2>3. d = [s EXCEPT !.cwai_state = "WAIT", !.pc = s.pc - 2]
      BY <1>2 DEF cwai
    <2> HIDE DEF b, d
    <2>4. s \in CpuState /\ s.pc = c.pc + 2 /\ s.upset = c.upset
      BY <2>2, StackMachineState
    <2> HIDE DEF s
    <2>5. s.pc - 2 = c.pc /\ c.pc \in Code
      BY <2>1, <2>4, CodeAssumption
    <2>6. d \in CpuState /\ d.upset = s.upset
      BY <2>3, <2>4, <2>5 DEF CpuState
    <2> QED BY <2>4, <2>6 DEF TypedFrom, d
  <1> QED BY <1>1, <1>2 DEF CpuState

\* What every step does to the type and to "upset": it stays set until a reset
\* outside CWAI, which leaves the processor as it starts.
LEMMA NextTyped ==
  ASSUME cpu \in CpuState, [Next]_vars
  PROVE  cpu' \in CpuState /\ (cpu.upset => cpu'.upset \/ (Good(cpu') /\ cpu'.entered = << >>))
  <1> DEFINE T(c) == TypedFrom(c, cpu)
  <1>0. T(cpu')  =>  cpu' \in CpuState /\ (cpu.upset => cpu'.upset)
    BY DEF TypedFrom
  <1>1. \A next \in Code : T(Fetched(next))
    BY DEF Fetched, CpuState, TypedFrom
  <1>2. ASSUME NEW c, T(c) PROVE T(EndInsn(c))
    BY <1>2, EndInsnTyped DEF TypedFrom
  <1>3. ASSUME NEW c, T(c), NEW flags \in SUBSET Flags PROVE T(set_cc(c, flags))
    BY <1>3 DEF set_cc, TypedFrom, CpuState
  <1>4. ASSUME NEW c, T(c), NEW source \in Sources
        PROVE  /\ T(request_irq(c, source)) /\ T(request_firq(c, source))
               /\ T(release_irq(c, source)) /\ T(release_firq(c, source))
    BY <1>4, LinesTyped DEF TypedFrom
  <1>5. ASSUME NEW c, T(c) PROVE T(swi(c)) /\ T(swi2(c)) /\ T(swi3(c))
    BY <1>5, SoftwareInterruptTyped DEF swi, swi2, swi3, Kinds, TypedFrom
  <1> T(cpu)
    BY DEF TypedFrom
  <1>6. ASSUME NEW next \in Code, PlainInsn(next) PROVE T(cpu')
    BY <1>1, <1>2, <1>6 DEF PlainInsn, Becomes
  <1>7. ASSUME NEW next \in Code, SwiInsn(next) PROVE T(cpu')
    <2>1. T(swi(Fetched(next))) /\ T(swi2(Fetched(next))) /\ T(swi3(Fetched(next)))
      BY <1>1, <1>5
    <2> QED BY <1>2, <1>7, <2>1 DEF SwiInsn, Becomes
  <1>8. ASSUME NEW g \in OtherBytes, RtiInsn(g) PROVE T(cpu')
    <2>1. T(rti(cpu, g))
      BY <1>8, RtiTyped DEF RtiInsn
    <2> QED BY <1>2, <1>8, <2>1 DEF RtiInsn, Becomes
  <1>9. ASSUME NEW next \in Code, NEW flags \in SUBSET Flags, SetCCInsn(next, flags)
        PROVE  T(cpu')
    <2>1. T(set_cc(Fetched(next), flags))
      BY <1>1, <1>3
    <2> QED BY <1>2, <1>9, <2>1 DEF SetCCInsn, Becomes
  <1>10. ASSUME NEW next \in Code, NEW source \in Sources,
                RaisingStore(next, source) \/ DroppingStore(next, source)
         PROVE  T(cpu')
    <2>1. /\ T(request_irq(Fetched(next), source)) /\ T(request_firq(Fetched(next), source))
          /\ T(release_irq(Fetched(next), source)) /\ T(release_firq(Fetched(next), source))
      BY <1>1, <1>4
    <2> QED BY <1>2, <1>10, <2>1 DEF RaisingStore, DroppingStore, Becomes
  <1>11. ASSUME NEW keep \in SUBSET Flags, CwaiInsn(keep) PROVE T(cpu')
    <2>1. T(cwai(cpu, keep))
      BY <1>11, CwaiTyped DEF CwaiInsn
    <2> QED BY <1>2, <1>11, <2>1 DEF CwaiInsn, Becomes
  <1>12. ASSUME NEW source \in Sources, RaisingUpdate(source) PROVE T(cpu')
    BY <1>4, <1>12 DEF RaisingUpdate, Becomes
  <1>13. ASSUME NEW c, T(c) PROVE Upset(c) \in CpuState /\ (c.upset => Upset(c).upset)
    BY <1>13 DEF Upset, TypedFrom, CpuState
  <1>14. ASSUME NEW next \in Code, DebuggerSetPC(next)
         PROVE  cpu' \in CpuState /\ (cpu.upset => cpu'.upset)
    <2>1. T(Fetched(next)) /\ cpu' = Upset(Fetched(next))
      BY <1>1, <1>14 DEF DebuggerSetPC, Becomes
    <2> QED BY <1>13, <2>1 DEF TypedFrom
  <1>15. ASSUME NEW flags \in SUBSET Flags, DebuggerSetCC(flags)
         PROVE  cpu' \in CpuState /\ (cpu.upset => cpu'.upset)
    <2>1. T(set_cc(cpu, flags)) /\ cpu' = Upset(set_cc(cpu, flags))
      BY <1>3, <1>15 DEF DebuggerSetCC, Becomes
    <2> QED BY <1>13, <2>1 DEF TypedFrom
  <1>16. CASE DebuggerReset
    <2>1. cpu' = cpu_reset(cpu)
      BY <1>16 DEF DebuggerReset, Becomes
    <2>2. Vector["reset"] \in Code /\ << >> \in Seq(Frame) /\ << >> \in Seq(Entry)
      BY VectorAssumption
    <2>3. /\ cpu' \in CpuState /\ cpu'.cwai_state = cpu.cwai_state
          /\ cpu'.stack = << >> /\ cpu'.entered = << >>
          /\ cpu'.upset = (cpu.cwai_state = "WAIT")
      BY <2>1, <2>2 DEF cpu_reset, CpuState
    <2>4. ~cpu'.upset => Good(cpu') /\ cpu'.entered = << >>
      BY <2>3 DEF Good, StackSound, WaitSound, CpuState
    <2> QED BY <2>3, <2>4
  <1>17. CASE UNCHANGED vars
    BY <1>17 DEF vars
  <1> HIDE DEF T
  <1> QED
    BY <1>0, <1>6, <1>7, <1>8, <1>9, <1>10, <1>11, <1>12, <1>14, <1>15, <1>16, <1>17
    DEF Next

\* The inductive invariant of the specification.
Upright(c) == c \in CpuState /\ (c.upset \/ Good(c))

LEMMA AlwaysUpright == Spec => []Upright(cpu)
  <1>1. Init => Upright(cpu)
    BY InitGood DEF Upright, Good
  <1>2. Upright(cpu) /\ [Next]_vars => Upright(cpu)'
    <2> SUFFICES ASSUME Upright(cpu), [Next]_vars PROVE Upright(cpu')
      OBVIOUS
    <2>1. cpu' \in CpuState /\ (cpu.upset => cpu'.upset \/ (Good(cpu') /\ cpu'.entered = << >>))
      BY NextTyped DEF Upright
    <2>2. ~cpu.upset /\ ~cpu'.upset => Good(cpu')
      BY NextGood DEF Upright
    <2> QED BY <2>1, <2>2 DEF Upright
  <1> QED BY <1>1, <1>2, PTL DEF Spec

\* Every field keeps its type: in particular PC is always an address of the
\* program, also after an RTI.
THEOREM TypeCorrect == Spec => []TypeOK
  <1>1. Upright(cpu) => TypeOK
    BY DEF Upright, TypeOK
  <1> QED BY <1>1, AlwaysUpright, PTL

\* Each running handler has exactly one frame on the stack and it returns to
\* the context that was interrupted, for every nesting of irq(), firq(), swi()
\* and cwai(), and whatever the operator does at the prompt, except to a
\* processor that waits in CWAI.
THEOREM HandlersReturn == Spec => []StackDiscipline
  <1>1. Upright(cpu) => StackDiscipline
    BY DEF Upright, Good, StackDiscipline
  <1> QED BY <1>1, AlwaysUpright, PTL

\* A waiting CWAI has saved the state, unless the operator has changed the
\* processor while it waited; a reset outside CWAI restores the promise.
THEOREM CwaiSavesState == Spec => []CwaiFrameSaved
  <1>1. Upright(cpu) => CwaiFrameSaved
    BY DEF Upright, Good, CwaiFrameSaved
  <1> QED BY <1>1, AlwaysUpright, PTL

-----------------------------------------------------------------------------
(* Pending requests. *)

Settled(c) ==
  \/ c.cc_changed
  \/ /\ c.irqs  # {} => "I" \in c.efi
     /\ c.firqs # {} => "F" \in c.efi

\* What an interrupt taken outside CWAI does to the masks and the requests.
LEMMA TakeInterruptEffect ==
  ASSUME NEW c \in CpuState, c.cwai_state = "IDLE", NEW kind \in {"irq", "firq"},
         NEW full \in BOOLEAN, NEW masked \in SUBSET {"F", "I"}
  PROVE  /\ TakeInterrupt(c, kind, full, masked).irqs = c.irqs
         /\ TakeInterrupt(c, kind, full, masked).firqs = c.firqs
         /\ TakeInterrupt(c, kind, full, masked).cc_changed = c.cc_changed
         /\ TakeInterrupt(c, kind, full, masked).cwai_state = "IDLE"
         /\ Mask(c.efi) \cup masked \subseteq TakeInterrupt(c, kind, full, masked).efi
  <1> DEFINE s == stack_machine_state(c, full)
             t == TakeInterrupt(c, kind, full, masked)
  <1>1. /\ s \in CpuState /\ s.irqs = c.irqs /\ s.firqs = c.firqs
        /\ s.cc_changed = c.cc_changed /\ s.cwai_state = c.cwai_state
        /\ Mask(s.efi) = Mask(c.efi)
    BY StackMachineState
  <1>2. t = [s EXCEPT !.efi = s.efi \cup masked, !.pc = Vector[kind],
                      !.entered = Enter(c, kind)]
    BY DEF TakeInterrupt
  <1> HIDE DEF s, t
  <1>3. /\ t.irqs = s.irqs /\ t.firqs = s.firqs /\ t.cc_changed = s.cc_changed
        /\ t.cwai_state = s.cwai_state /\ t.efi = s.efi \cup masked
    BY <1>1, <1>2 DEF CpuState
  <1> QED BY <1>1, <1>3 DEF Mask, t

\* The same for irq() and firq().
LEMMA IrqFirqEffect ==
  ASSUME NEW c \in CpuState, c.cwai_state = "IDLE"
  PROVE  /\ irq(c).irqs = c.irqs /\ irq(c).firqs = c.firqs
         /\ irq(c).cc_changed = c.cc_changed /\ irq(c).cwai_state = "IDLE"
         /\ "I" \in irq(c).efi /\ ("F" \in c.efi => "F" \in irq(c).efi)
         /\ firq(c).irqs = c.irqs /\ firq(c).firqs = c.firqs
         /\ firq(c).cc_changed = c.cc_changed /\ firq(c).cwai_state = "IDLE"
         /\ "I" \in firq(c).efi /\ "F" \in firq(c).efi
  <1>2. /\ irq(c).irqs = c.irqs /\ irq(c).firqs = c.firqs
        /\ irq(c).cc_changed = c.cc_changed /\ irq(c).cwai_state = "IDLE"
        /\ Mask(c.efi) \cup {"I"} \subseteq irq(c).efi
    <2> DEFINE full == TRUE
               masked == {"I"}
    <2>1. irq(c) = TakeInterrupt(c, "irq", full, masked)
      BY DEF irq
    <2>2. full \in BOOLEAN /\ masked \in SUBSET {"F", "I"} /\ masked = {"I"}
      OBVIOUS
    <2> HIDE DEF full, masked
    <2> QED BY <2>1, <2>2, TakeInterruptEffect
  <1>3. /\ firq(c).irqs = c.irqs /\ firq(c).firqs = c.firqs
        /\ firq(c).cc_changed = c.cc_changed /\ firq(c).cwai_state = "IDLE"
        /\ Mask(c.efi) \cup {"F", "I"} \subseteq firq(c).efi
    <2> DEFINE full == FALSE
               masked == {"F", "I"}
    <2>1. firq(c) = TakeInterrupt(c, "firq", full, masked)
      BY DEF firq
    <2>2. full \in BOOLEAN /\ masked \in SUBSET {"F", "I"} /\ masked = {"F", "I"}
      OBVIOUS
    <2> HIDE DEF full, masked
    <2> QED BY <2>1, <2>2, TakeInterruptEffect
  <1> QED BY <1>2, <1>3 DEF Mask

\* Raising or dropping a line leaves no request both pending and unmasked.
LEMMA LinesSettled ==
  ASSUME NEW c \in CpuState, c.cwai_state = "IDLE", Settled(c), NEW source \in Sources
  PROVE  /\ Settled(request_irq(c, source)) /\ Settled(request_firq(c, source))
         /\ Settled(release_irq(c, source)) /\ Settled(release_firq(c, source))
  <1> DEFINE p == [c EXCEPT !.irqs = c.irqs \cup {source}]
             q == [c EXCEPT !.firqs = c.firqs \cup {source}]
  <1>1. /\ p \in CpuState /\ p.cwai_state = "IDLE" /\ p.efi = c.efi
        /\ p.firqs = c.firqs /\ p.cc_changed = c.cc_changed
    BY DEF CpuState
  <1>2. /\ q \in CpuState /\ q.cwai_state = "IDLE" /\ q.efi = c.efi
        /\ q.irqs = c.irqs /\ q.cc_changed = c.cc_changed
    BY DEF CpuState
  <1> HIDE DEF p, q
  <1>3. Settled(request_irq(c, source))
    <2>1. CASE "I" \in c.efi
      BY <1>1, <2>1 DEF Settled, request_irq, p
    <2>2. CASE "I" \notin c.efi
      <3>1. request_irq(c, source) = irq(p)
        BY <1>1, <2>2 DEF request_irq, p
      <3> QED BY <1>1, <3>1, IrqFirqEffect DEF Settled
    <2> QED BY <2>1, <2>2
  <1>4. Settled(request_firq(c, source))
    <2>1. CASE "F" \in c.efi
      BY <1>2, <2>1 DEF Settled, request_firq, q
    <2>2. CASE "F" \notin c.efi
      <3>1. request_firq(c, source) = firq(q)
        BY <1>2, <2>2 DEF request_firq, q
      <3> QED BY <1>2, <3>1, IrqFirqEffect DEF Settled
    <2> QED BY <2>1, <2>2
  <1>5. Settled(release_irq(c, source)) /\ Settled(release_firq(c, source))
    BY DEF Settled, release_irq, release_firq, CpuState
  <1> QED BY <1>3, <1>4, <1>5

\* cc_modified() takes whatever a change of the flags has let through.
LEMMA EndInsnSettled ==
  ASSUME NEW c, Good(c), c.cwai_state = "IDLE", Settled(c)
  PROVE  Settled(EndInsn(c)) /\ EndInsn(c).cwai_state = "IDLE"
  <1> DEFINE t == IF c.firqs # {} /\ "F" \notin c.efi THEN firq(c)
                  ELSE IF c.irqs # {} /\ "I" \notin c.efi THEN irq(c)
                  ELSE c
  <1>1. /\ t.irqs = c.irqs /\ t.firqs = c.firqs /\ t.cwai_state = "IDLE"
        /\ c.irqs # {} => "I" \in t.efi
        /\ c.firqs # {} => "F" \in t.efi
    BY IrqFirqEffect DEF Good
  <1>2. t \in CpuState
    BY IrqFirqGood DEF Good
  <1> HIDE DEF t
  <1>3. cc_modified(c) = [t EXCEPT !.cc_changed = FALSE]
    BY DEF cc_modified, t
  <1>4. /\ cc_modified(c).irqs = t.irqs /\ cc_modified(c).firqs = t.firqs
        /\ cc_modified(c).efi = t.efi /\ cc_modified(c).cwai_state = t.cwai_state
    BY <1>2, <1>3 DEF CpuState
  <1> QED BY <1>1, <1>4 DEF EndInsn, Settled

\* A software interrupt can only add to the masks.
LEMMA SoftwareInterruptSettled ==
  ASSUME NEW c \in CpuState, Settled(c), c.cwai_state = "IDLE", NEW kind \in Kinds,
         NEW masked \in SUBSET {"F", "I"}
  PROVE  /\ Settled(SoftwareInterrupt(c, kind, masked))
         /\ SoftwareInterrupt(c, kind, masked).cwai_state = "IDLE"
  <1> DEFINE s == stack_machine_state(c, TRUE)
             e == [kind |-> kind, pc |-> c.pc, mask |-> Mask(c.efi)]
             t == SoftwareInterrupt(c, kind, masked)
  <1>1. /\ s \in CpuState /\ s.irqs = c.irqs /\ s.firqs = c.firqs
        /\ s.cc_changed = c.cc_changed /\ s.cwai_state = c.cwai_state
        /\ Mask(s.efi) = Mask(c.efi)
    BY StackMachineState
  <1>2. t = [s EXCEPT !.efi = s.efi \cup masked, !.pc = Vector[kind],
                      !.entered = Append(s.entered, e)]
    BY DEF SoftwareInterrupt
  <1> HIDE DEF s, t, e
  <1>3. /\ t.irqs = s.irqs /\ t.firqs = s.firqs /\ t.cc_changed = s.cc_changed
        /\ t.cwai_state = s.cwai_state /\ t.efi = s.efi \cup masked
    BY <1>1, <1>2 DEF CpuState
  <1> QED BY <1>1, <1>3 DEF Mask, t, Settled

\* The interrupt lines of an idle processor, before and after any step of a
\* program that has no CWAI.
IdleSettled(c) == Good(c) /\ c.cwai_state = "IDLE" /\ Settled(c)

LEMMA EndInsnIdleSettled ==
  ASSUME NEW c, IdleSettled(c)
  PROVE  IdleSettled(EndInsn(c))
  BY EndInsnGood, EndInsnSettled DEF IdleSettled

LEMMA NextIdleSettled ==
  ASSUME CwaiAt = {}, IdleSettled(cpu), [Next]_vars
  PROVE  IdleSettled(cpu')
  <1> USE DEF IdleSettled
  <1>1. Good(cpu') /\ cpu \in CpuState
    BY NextGood DEF Good
  <1>2. ASSUME NEW next \in Code
        PROVE  IdleSettled(Fetched(next)) /\ Fetched(next) \in CpuState
    <2>1. Good(Fetched(next)) /\ Fetched(next).cwai_state = "IDLE"
      BY MoveGood DEF Fetched
    <2>2. /\ Fetched(next).irqs = cpu.irqs /\ Fetched(next).firqs = cpu.firqs
          /\ Fetched(next).efi = cpu.efi /\ Fetched(next).cc_changed = cpu.cc_changed
      BY <1>1 DEF Fetched, CpuState
    <2> QED BY <2>1, <2>2 DEF Settled, Good
  <1>3. ASSUME NEW c, IdleSettled(c), NEW source \in Sources
        PROVE  /\ IdleSettled(request_irq(c, source))
               /\ IdleSettled(request_firq(c, source))
               /\ IdleSettled(release_irq(c, source))
               /\ IdleSettled(release_firq(c, source))
    <2>1. c \in CpuState
      BY <1>3 DEF Good
    <2>2. /\ Good(request_irq(c, source)) /\ Good(request_firq(c, source))
          /\ Good(release_irq(c, source)) /\ Good(release_firq(c, source))
      BY <1>3, RequestGood, ReleaseGood
    <2>3. \A d : Good(d) => d.cwai_state = "IDLE"
      BY DEF Good, CpuState
    <2> QED BY <1>3, <2>1, <2>2, <2>3, LinesSettled
  <1>4. ASSUME NEW c, IdleSettled(c), NEW flags \in SUBSET Flags
        PROVE  IdleSettled(set_cc(c, flags))
    <2>1. Good(set_cc(c, flags))
      BY <1>4, SetCCGood
    <2>2. set_cc(c, flags).cc_changed /\ set_cc(c, flags).cwai_state = "IDLE"
      BY <1>4 DEF set_cc, Good, CpuState
    <2> QED BY <2>1, <2>2 DEF Settled
  <1>5. ASSUME NEW next \in Code, PlainInsn(next) PROVE IdleSettled(cpu')
    BY <1>2, <1>5, EndInsnIdleSettled DEF PlainInsn, Becomes
  <1>6. ASSUME NEW next \in Code, SwiInsn(next) PROVE IdleSettled(cpu')
    <2>1. /\ Good(swi(Fetched(next))) /\ Good(swi2(Fetched(next)))
          /\ Good(swi3(Fetched(next)))
      BY <1>2, SoftwareInterruptGood DEF swi, swi2, swi3, Kinds
    <2>2. /\ IdleSettled(swi(Fetched(next))) /\ IdleSettled(swi2(Fetched(next)))
          /\ IdleSettled(swi3(Fetched(next)))
      BY <1>2, <2>1, SoftwareInterruptSettled DEF swi, swi2, swi3, Kinds
    <2> QED BY <1>6, <2>2, EndInsnIdleSettled DEF SwiInsn, Becomes
  <1>7. ASSUME NEW g \in OtherBytes, RtiInsn(g) PROVE IdleSettled(cpu')
    <2>1. Good(rti(cpu, g))
      BY <1>7, RtiGood DEF RtiInsn
    <2>2. rti(cpu, g).cc_changed /\ rti(cpu, g).cwai_state = "IDLE"
      BY <1>1 DEF rti, set_cc, CpuState
    <2> QED BY <1>7, <2>1, <2>2, EndInsnIdleSettled DEF RtiInsn, Becomes, Settled
  <1>8. ASSUME NEW next \in Code, NEW flags \in SUBSET Flags, SetCCInsn(next, flags)
        PROVE  IdleSettled(cpu')
    BY <1>2, <1>4, <1>8, EndInsnIdleSettled DEF SetCCInsn, Becomes
  <1>9. ASSUME NEW next \in Code, NEW source \in Sources,
               RaisingStore(next, source) \/ DroppingStore(next, source)
        PROVE  IdleSettled(cpu')
    <2>1. IdleSettled(Fetched(next))
      BY <1>2
    <2>2. /\ IdleSettled(request_irq(Fetched(next), source))
          /\ IdleSettled(request_firq(Fetched(next), source))
          /\ IdleSettled(release_irq(Fetched(next), source))
          /\ IdleSettled(release_firq(Fetched(next), source))
      BY <1>3, <2>1
    <2> QED
      BY <1>9, <2>2, EndInsnIdleSettled DEF RaisingStore, DroppingStore, Becomes
  <1>10. ASSUME NEW keep \in SUBSET Flags, CwaiInsn(keep) PROVE IdleSettled(cpu')
    BY <1>10 DEF CwaiInsn
  <1>11. ASSUME NEW source \in Sources, RaisingUpdate(source) PROVE IdleSettled(cpu')
    BY <1>3, <1>11 DEF RaisingUpdate, Becomes
  <1>16. ASSUME NEW c, IdleSettled(c) PROVE IdleSettled(Upset(c))
    <2>1. /\ Upset(c).irqs = c.irqs /\ Upset(c).firqs = c.firqs
          /\ Upset(c).cc_changed = c.cc_changed /\ Upset(c).efi = c.efi
          /\ Upset(c).cwai_state = c.cwai_state
      BY <1>16 DEF Upset, Good, CpuState
    <2> QED BY <1>16, <2>1, UpsetGood DEF Settled
  <1>12. ASSUME NEW next \in Code, DebuggerSetPC(next) PROVE IdleSettled(cpu')
    BY <1>2, <1>12, <1>16 DEF DebuggerSetPC, Becomes
  <1>13. ASSUME NEW flags \in SUBSET Flags, DebuggerSetCC(flags) PROVE IdleSettled(cpu')
    BY <1>4, <1>13, <1>16 DEF DebuggerSetCC, Becomes
  <1>14. CASE DebuggerReset
    <2>1. cpu'.efi = {"F", "I"} /\ cpu'.cwai_state = "IDLE"
      BY <1>1, <1>14 DEF DebuggerReset, Becomes, cpu_reset, CpuState
    <2> QED BY <1>1, <2>1 DEF Settled
  <1>15. CASE UNCHANGED vars
    BY <1>15 DEF vars
  <1> QED
    BY <1>5, <1>6, <1>7, <1>8, <1>9, <1>10, <1>11, <1>12, <1>13, <1>14, <1>15 DEF Next

\* In a program without CWAI no interrupt request is ever left behind: one that
\* arrives while masked is taken by the instruction that lifts the mask.
THEOREM PendingIsTaken ==
  ASSUME CwaiAt = {}
  PROVE  Spec => []NoUnmaskedPending
  <1>1. Init => IdleSettled(cpu)
    BY InitGood DEF Init, IdleSettled, Settled
  <1>2. IdleSettled(cpu) /\ [Next]_vars => IdleSettled(cpu)'
    BY NextIdleSettled
  <1>3. IdleSettled(cpu) => NoUnmaskedPending
    BY DEF IdleSettled, Settled, NoUnmaskedPending
  <1> QED BY <1>1, <1>2, <1>3, PTL DEF Spec

-----------------------------------------------------------------------------
(* Handlers that leave the masks alone. *)

\* The masks a running handler of this kind keeps set.
Blocks(kind) ==
  IF kind = "irq" THEN {"I"} ELSE IF kind = "firq" THEN {"F", "I"} ELSE {}

\* An interrupt is taken only with its own mask clear.
Admitted(e) == /\ e.kind = "irq"  => "I" \notin e.mask
               /\ e.kind = "firq" => "F" \notin e.mask

\* What a running handler blocks is blocked now, and was blocked whenever a
\* later handler was entered.
Nested(c) ==
  /\ \A i \in 1..Len(c.entered) :
       Blocks(c.entered[i].kind) \subseteq c.efi /\ Admitted(c.entered[i])
  /\ \A i, j \in 1..Len(c.entered) :
       i < j => Blocks(c.entered[i].kind) \subseteq c.entered[j].mask

LEMMA NestedMeans ==
  ASSUME NEW c, Nested(c)
  PROVE  \A i, j \in 1..Len(c.entered) :
           i < j => /\ c.entered[i].kind = "irq"  => c.entered[j].kind # "irq"
                    /\ c.entered[i].kind = "firq" => c.entered[j].kind \notin {"irq", "firq"}
  BY DEF Nested, Admitted, Blocks

\* Fields other than EFI and "entered" do not matter, and masks may be added.
LEMMA NestedKept ==
  ASSUME NEW c, Nested(c), NEW d, d.entered = c.entered,
         c.entered = << >> \/ Mask(c.efi) \subseteq d.efi
  PROVE  Nested(d)
  <1>1. CASE c.entered = << >>
    BY <1>1 DEF Nested
  <1>2. CASE Mask(c.efi) \subseteq d.efi
    <2>1. \A i \in 1..Len(c.entered) : Blocks(c.entered[i].kind) \subseteq d.efi
      BY <1>2 DEF Nested, Mask, Blocks
    <2> QED BY <2>1 DEF Nested
  <1> QED BY <1>1, <1>2

\* A handler is entered.
LEMMA NestedPush ==
  ASSUME NEW c, Nested(c), c.entered \in Seq(Entry), NEW e \in Entry, e.mask = Mask(c.efi), Admitted(e),
         NEW t, t.entered = Append(c.entered, e), Mask(c.efi) \cup Blocks(e.kind) \subseteq t.efi
  PROVE  Nested(t)
  <1> DEFINE n == Len(c.entered)
  <1>1. /\ n \in Nat /\ Len(t.entered) = n + 1 /\ t.entered[n + 1] = e
        /\ \A i \in 1..n : t.entered[i] = c.entered[i]
    BY AppendProperties
  <1>2. \A i \in 1..n : Blocks(c.entered[i].kind) \subseteq Mask(c.efi)
    BY DEF Nested, Mask, Blocks
  <1> HIDE DEF n
  <1>3. ASSUME NEW i \in 1..(n + 1)
        PROVE  Blocks(t.entered[i].kind) \subseteq t.efi /\ Admitted(t.entered[i])
    <2>1. CASE i = n + 1
      BY <1>1, <2>1
    <2>2. CASE i \in 1..n
      BY <1>1, <1>2, <2>2 DEF Nested, n
    <2> QED BY <1>1, <2>1, <2>2
  <1>4. ASSUME NEW i \in 1..(n + 1), NEW j \in 1..(n + 1), i < j
        PROVE  Blocks(t.entered[i].kind) \subseteq t.entered[j].mask
    <2>1. i \in 1..n
      BY <1>1, <1>4
    <2>2. CASE j = n + 1
      BY <1>1, <1>2, <2>1, <2>2
    <2>3. CASE j \in 1..n
      BY <1>1, <1>4, <2>1, <2>3 DEF Nested, n
    <2> QED BY <1>1, <2>2, <2>3
  <1> QED BY <1>1, <1>3, <1>4 DEF Nested

\* irq() and firq(), called with their own mask clear.
LEMMA TakeInterruptNested ==
  ASSUME NEW c, Good(c), Nested(c), NEW kind \in {"irq", "firq"}, NEW full \in BOOLEAN,
         kind = "irq" => "I" \notin c.efi, kind = "firq" => "F" \notin c.efi
  PROVE  Nested(TakeInterrupt(c, kind, full, Blocks(kind)))
  <1> DEFINE masked == Blocks(kind)
             t == TakeInterrupt(c, kind, full, masked)
             s == IF c.cwai_state = "WAIT" THEN [c EXCEPT !.cwai_state = "IDLE"]
                  ELSE stack_machine_state(c, full)
             e == [kind |-> kind,
                   pc   |-> IF c.cwai_state = "WAIT" /\ c.pc \in CwaiAt
                            THEN c.pc + 2 ELSE c.pc,
                   mask |-> Mask(c.efi)]
  <1>1. c \in CpuState /\ c.entered \in Seq(Entry)
    BY DEF Good, CpuState
  <1>2. e \in Entry /\ e.kind = kind /\ e.mask = Mask(c.efi)
    BY <1>1, CodeAssumption DEF Good, CpuState, Entry, Kinds, Mask
  <1>3. s \in CpuState /\ Mask(s.efi) = Mask(c.efi)
    <2>1. CASE c.cwai_state = "WAIT"
      BY <1>1, <2>1 DEF CpuState
    <2>2. CASE c.cwai_state # "WAIT"
      BY <1>1, <2>2, StackMachineState
    <2> QED BY <2>1, <2>2
  <1>4. t = [s EXCEPT !.efi = s.efi \cup masked, !.pc = Vector[kind],
                      !.entered = Append(c.entered, e)]
    BY DEF TakeInterrupt, Enter
  <1> HIDE DEF s, e, t
  <1>5. t.efi = s.efi \cup masked /\ t.entered = Append(c.entered, e)
    BY <1>3, <1>4 DEF CpuState
  <1>6. Mask(c.efi) \cup Blocks(e.kind) \subseteq t.efi
    BY <1>2, <1>3, <1>5 DEF Mask
  <1>7. Admitted(e)
    BY <1>2 DEF Admitted, Mask
  <1>8. Nested(t)
    BY <1>1, <1>2, <1>5, <1>6, <1>7, NestedPush
  <1> QED BY <1>8 DEF t

LEMMA IrqFirqNested ==
  ASSUME NEW c, Good(c), Nested(c)
  PROVE  /\ "I" \notin c.efi => Nested(irq(c))
         /\ "F" \notin c.efi => Nested(firq(c))
  <1>1. irq(c) = TakeInterrupt(c, "irq", TRUE, Blocks("irq"))
    BY DEF irq, Blocks
  <1>2. firq(c) = TakeInterrupt(c, "firq", FALSE, Blocks("firq"))
    BY DEF firq, Blocks
  <1>3. ASSUME "I" \notin c.efi PROVE Nested(irq(c))
    BY <1>1, <1>3, TakeInterruptNested
  <1>4. ASSUME "F" \notin c.efi PROVE Nested(firq(c))
    BY <1>2, <1>4, TakeInterruptNested
  <1> QED BY <1>3, <1>4

LEMMA LinesNested ==
  ASSUME NEW c, Good(c), Nested(c), NEW source \in Sources
  PROVE  /\ Nested(request_irq(c, source)) /\ Nested(request_firq(c, source))
         /\ Nested(release_irq(c, source)) /\ Nested(release_firq(c, source))
  <1> DEFINE p == [c EXCEPT !.irqs = c.irqs \cup {source}]
             q == [c EXCEPT !.firqs = c.firqs \cup {source}]
  <1>1. c \in CpuState /\ c.irqs \cup {source} \in SUBSET Sources
                       /\ c.firqs \cup {source} \in SUBSET Sources
    BY DEF Good, CpuState
  <1>2. /\ p \in CpuState /\ p.stack = c.stack /\ p.entered = c.entered
        /\ p.cwai_state = c.cwai_state /\ p.pc = c.pc /\ p.efi = c.efi
    BY <1>1 DEF CpuState
  <1>3. /\ q \in CpuState /\ q.stack = c.stack /\ q.entered = c.entered
        /\ q.cwai_state = c.cwai_state /\ q.pc = c.pc /\ q.efi = c.efi
    BY <1>1 DEF CpuState
  <1>4. /\ request_irq(c, source) = IF "I" \in p.efi THEN p ELSE irq(p)
        /\ request_firq(c, source) = IF "F" \in q.efi THEN q ELSE firq(q)
    BY DEF request_irq, request_firq
  <1> HIDE DEF p, q
  <1>5. Good(p) /\ Good(q) /\ Nested(p) /\ Nested(q)
    BY <1>2, <1>3, GoodKept, NestedKept DEF Mask
  <1>6. Nested(request_irq(c, source)) /\ Nested(request_firq(c, source))
    BY <1>4, <1>5, IrqFirqNested
  <1>7. /\ release_irq(c, source).entered = c.entered /\ release_irq(c, source).efi = c.efi
        /\ release_firq(c, source).entered = c.entered /\ release_firq(c, source).efi = c.efi
    BY <1>1 DEF release_irq, release_firq, CpuState
  <1>8. Nested(release_irq(c, source)) /\ Nested(release_firq(c, source))
    BY <1>7, NestedKept DEF Mask
  <1> QED BY <1>6, <1>8

LEMMA EndInsnNested ==
  ASSUME NEW c, Good(c), Nested(c)
  PROVE  Nested(EndInsn(c))
  <1> DEFINE t == IF c.firqs # {} /\ "F" \notin c.efi THEN firq(c)
                  ELSE IF c.irqs # {} /\ "I" \notin c.efi THEN irq(c)
                  ELSE c
             d == [t EXCEPT !.cc_changed = FALSE]
  <1>1. Good(t) /\ Nested(t)
    BY IrqFirqGood, IrqFirqNested
  <1>2. EndInsn(c) = IF c.cc_changed THEN d ELSE c
    BY DEF EndInsn, cc_modified
  <1> HIDE DEF t
  <1>3. d.entered = t.entered /\ d.efi = t.efi
    BY <1>1 DEF Good, CpuState
  <1> HIDE DEF d
  <1>4. Nested(d)
    BY <1>1, <1>3, NestedKept DEF Mask
  <1> QED BY <1>2, <1>4

\* A move of PC, and a write of CC that keeps the discipline.
LEMMA MoveNested ==
  ASSUME NEW c, Good(c), Nested(c), NEW next \in Code
  PROVE  /\ Nested([c EXCEPT !.pc = next])
         /\ [c EXCEPT !.pc = next].efi = c.efi /\ [c EXCEPT !.pc = next].entered = c.entered
  <1>1. [c EXCEPT !.pc = next].efi = c.efi /\ [c EXCEPT !.pc = next].entered = c.entered
    BY DEF Good, CpuState
  <1> QED BY <1>1, NestedKept DEF Mask

LEMMA SetCCNested ==
  ASSUME NEW c, Good(c), Nested(c), NEW flags,
         c.entered = << >> \/ Mask(c.efi) \subseteq flags
  PROVE  Nested(set_cc(c, flags))
  <1>1. set_cc(c, flags).efi = flags /\ set_cc(c, flags).entered = c.entered
    BY DEF Good, CpuState, set_cc
  <1> QED BY <1>1, NestedKept

LEMMA UpsetNested ==
  ASSUME NEW c \in CpuState, Nested(c)
  PROVE  Nested(Upset(c))
  <1>1. Upset(c).efi = c.efi /\ Upset(c).entered = c.entered
    BY DEF CpuState, Upset
  <1> QED BY <1>1, NestedKept DEF Mask

LEMMA SoftwareInterruptNested ==
  ASSUME NEW c, Good(c), Nested(c), NEW kind \in {"swi", "swi2", "swi3"},
         NEW masked \in SUBSET {"F", "I"}
  PROVE  Nested(SoftwareInterrupt(c, kind, masked))
  <1> DEFINE s == stack_machine_state(c, TRUE)
             t == SoftwareInterrupt(c, kind, masked)
             e == [kind |-> kind, pc |-> c.pc, mask |-> Mask(c.efi)]
  <1>1. c \in CpuState /\ c.entered \in Seq(Entry)
    BY DEF Good, CpuState
  <1>2. e \in Entry /\ e.kind = kind /\ e.mask = Mask(c.efi)
    BY <1>1 DEF CpuState, Entry, Mask, Kinds
  <1>3. s \in CpuState /\ s.entered = c.entered /\ Mask(s.efi) = Mask(c.efi)
    BY <1>1, StackMachineState
  <1>4. t = [s EXCEPT !.efi = s.efi \cup masked, !.pc = Vector[kind],
                      !.entered = Append(s.entered, e)]
    BY DEF SoftwareInterrupt
  <1> HIDE DEF s, e, t
  <1>5. t.efi = s.efi \cup masked /\ t.entered = Append(c.entered, e)
    BY <1>3, <1>4 DEF CpuState
  <1>6. Admitted(e) /\ Mask(c.efi) \cup Blocks(e.kind) \subseteq t.efi
    BY <1>2, <1>3, <1>5 DEF Admitted, Blocks, Mask
  <1>7. Nested(t)
    BY <1>1, <1>2, <1>5, <1>6, NestedPush
  <1> QED BY <1>7 DEF t

\* RTI brings back the masks its handler was entered with, under which every
\* handler still running was already blocked.
LEMMA RtiNested ==
  ASSUME NEW c, Good(c), c.cwai_state = "IDLE", Nested(c), c.entered # << >>,
         NEW g \in OtherBytes
  PROVE  Nested(rti(c, g))
  <1> DEFINE f == IF c.stack = << >> THEN g ELSE Top(c.stack)
             d == rti(c, g)
             n == Len(c.entered)
             target == IF ("E" \in f.cc) <=> f.full THEN f.pc ELSE g.pc
  <1>1. /\ c \in CpuState /\ Len(c.stack) = n /\ n \in Nat /\ n > 0
        /\ c.entered \in Seq(Entry)
    BY EmptySeq DEF Good, CpuState, StackSound
  <1>2. /\ Len(Pop(c.entered)) = n - 1
        /\ \A i \in 1..(n - 1) : Pop(c.entered)[i] = c.entered[i]
    BY <1>1, SubSeqProperties DEF Pop
  <1>3. Mask(f.cc) = c.entered[n].mask
    BY <1>1, EmptySeq DEF Good, StackSound, FrameReturnsTo, Top
  <1>4. d = [set_cc(c, f.cc) EXCEPT !.pc = target, !.stack = Pop(c.stack),
                                    !.entered = Pop(c.entered)]
    BY <1>1 DEF rti, set_cc, CpuState
  <1> HIDE DEF f, d, target, n
  <1>5. d.efi = f.cc /\ d.entered = Pop(c.entered)
    BY <1>1, <1>4 DEF CpuState, set_cc
  <1>6. ASSUME NEW i \in 1..(n - 1)
        PROVE  Blocks(d.entered[i].kind) \subseteq d.efi /\ Admitted(d.entered[i])
    <2>1. i \in 1..n /\ n \in 1..n /\ i < n
      BY <1>1
    <2>2. Blocks(c.entered[i].kind) \subseteq c.entered[n].mask /\ Admitted(c.entered[i])
      BY <2>1 DEF Nested, n
    <2> QED BY <1>2, <1>3, <1>5, <2>2 DEF Mask
  <1>7. ASSUME NEW i \in 1..(n - 1), NEW j \in 1..(n - 1), i < j
        PROVE  Blocks(d.entered[i].kind) \subseteq d.entered[j].mask
    <2>1. i \in 1..n /\ j \in 1..n
      BY <1>1
    <2> QED BY <1>2, <1>5, <1>7, <2>1 DEF Nested, n
  <1>8. Nested(d)
    BY <1>2, <1>5, <1>6, <1>7 DEF Nested
  <1> QED BY <1>8 DEF d

LEMMA CwaiNested ==
  ASSUME NEW c, Good(c), Nested(c), NEW keep \in SUBSET Flags, c.pc \in CwaiAt,
         c.entered = << >> \/ Mask(c.efi) \subseteq c.efi \cap keep
  PROVE  Nested(cwai(c, keep))
  <1>1. CASE c.cwai_state # "IDLE"
    BY <1>1 DEF cwai
  <1>2. CASE c.cwai_state = "IDLE"
    <2> DEFINE b == [c EXCEPT !.pc = c.pc + 2, !.efi = c.efi \cap keep]
               s == stack_machine_state(b, TRUE)
               d == cwai(c, keep)
    <2>1. c \in CpuState /\ c.pc + 2 \in Code /\ c.efi \cap keep \in SUBSET Flags
      BY CodeAssumption DEF Good, CpuState
    <2>2. b \in CpuState /\ b.entered = c.entered /\ b.efi = c.efi \cap keep
      BY <2>1 DEF CpuState
    <2>3. d = [s EXCEPT !.cwai_state = "WAIT", !.pc = s.pc - 2]
      BY <1>2 DEF cwai
    <2> HIDE DEF b, d
    <2>4. s \in CpuState /\ s.entered = b.entered /\ Mask(s.efi) = Mask(b.efi)
      BY <2>2, StackMachineState
    <2> HIDE DEF s
    <2>5. d.entered = c.entered /\ d.efi = s.efi
      BY <2>2, <2>3, <2>4 DEF CpuState
    <2>6. c.entered = << >> \/ Mask(c.efi) \subseteq d.efi
      BY <2>2, <2>4, <2>5 DEF Mask
    <2>7. Nested(d)
      BY <2>5, <2>6, NestedKept
    <2> QED BY <2>7 DEF d
  <1> QED BY <1>1, <1>2

LEMMA NextNested ==
  ASSUME ~HandlersMayUnmask, Good(cpu), Nested(cpu), [Next]_vars
  PROVE  Nested(cpu')
  <1>1. AtInsn => cpu.cwai_state = "IDLE"
    BY DEF AtInsn, Good, CpuState
  <1>2. ASSUME NEW next \in Code, cpu.cwai_state = "IDLE"
        PROVE  /\ Good(Fetched(next)) /\ Nested(Fetched(next)) /\ Fetched(next).cwai_state = "IDLE"
               /\ Fetched(next).efi = cpu.efi /\ Fetched(next).entered = cpu.entered
    BY <1>2, MoveGood, MoveNested DEF Fetched
  <1>3. ASSUME NEW next \in Code, PlainInsn(next) PROVE Nested(cpu')
    BY <1>1, <1>2, <1>3, EndInsnNested DEF PlainInsn, Becomes
  <1>4. ASSUME NEW next \in Code, SwiInsn(next) PROVE Nested(cpu')
    <2> DEFINE c == Fetched(next)
    <2>1. Good(c) /\ Nested(c) /\ c.cwai_state = "IDLE"
      BY <1>1, <1>2, <1>4 DEF SwiInsn
    <2> HIDE DEF c
    <2>2. ASSUME NEW kind \in {"swi", "swi2", "swi3"}, NEW masked \in SUBSET {"F", "I"}
          PROVE  Nested(EndInsn(SoftwareInterrupt(c, kind, masked)))
      <3>1. kind \in Kinds
        BY DEF Kinds
      <3>2. Good(SoftwareInterrupt(c, kind, masked)) /\ Nested(SoftwareInterrupt(c, kind, masked))
        BY <2>1, <3>1, SoftwareInterruptGood, SoftwareInterruptNested
      <3> QED BY <3>2, EndInsnNested
    <2> QED BY <1>4, <2>2 DEF SwiInsn, Becomes, swi, swi2, swi3, c
  <1>5. ASSUME NEW g \in OtherBytes, RtiInsn(g) PROVE Nested(cpu')
    <2>1. Good(rti(cpu, g)) /\ Nested(rti(cpu, g))
      BY <1>1, <1>5, RtiGood, RtiNested DEF RtiInsn
    <2> QED BY <1>5, <2>1, EndInsnNested DEF RtiInsn, Becomes
  <1>6. ASSUME NEW next \in Code, NEW flags \in SUBSET Flags, SetCCInsn(next, flags)
        PROVE  Nested(cpu')
    <2> DEFINE c == Fetched(next)
    <2>1. Good(c) /\ Nested(c) /\ c.cwai_state = "IDLE" /\ c.efi = cpu.efi /\ c.entered = cpu.entered
      BY <1>1, <1>2, <1>6 DEF SetCCInsn
    <2>2. c.entered = << >> \/ Mask(c.efi) \subseteq flags
      BY <1>6, <2>1 DEF SetCCInsn, MaskDiscipline
    <2>3. cpu' = EndInsn(set_cc(c, flags))
      BY <1>6 DEF SetCCInsn, Becomes
    <2> HIDE DEF c
    <2>4. Good(set_cc(c, flags)) /\ Nested(set_cc(c, flags))
      BY <2>1, <2>2, SetCCGood, SetCCNested
    <2> QED BY <2>3, <2>4, EndInsnNested
  <1>7. ASSUME NEW next \in Code, NEW source \in Sources,
               RaisingStore(next, source) \/ DroppingStore(next, source)
        PROVE  Nested(cpu')
    <2> DEFINE c == Fetched(next)
    <2>1. Good(c) /\ Nested(c)
      BY <1>1, <1>2, <1>7 DEF RaisingStore, DroppingStore
    <2>2. \/ cpu' = EndInsn(request_irq(c, source)) \/ cpu' = EndInsn(request_firq(c, source))
          \/ cpu' = EndInsn(release_irq(c, source)) \/ cpu' = EndInsn(release_firq(c, source))
      BY <1>7 DEF RaisingStore, DroppingStore, Becomes
    <2> HIDE DEF c
    <2>3. /\ Good(request_irq(c, source)) /\ Good(request_firq(c, source))
          /\ Good(release_irq(c, source)) /\ Good(release_firq(c, source))
      BY <2>1, RequestGood, ReleaseGood
    <2>4. /\ Nested(request_irq(c, source)) /\ Nested(request_firq(c, source))
          /\ Nested(release_irq(c, source)) /\ Nested(release_firq(c, source))
      BY <2>1, LinesNested
    <2> QED BY <2>2, <2>3, <2>4, EndInsnNested
  <1>8. ASSUME NEW keep \in SUBSET Flags, CwaiInsn(keep) PROVE Nested(cpu')
    <2>1. cpu.entered = << >> \/ Mask(cpu.efi) \subseteq cpu.efi \cap keep
      BY <1>8 DEF CwaiInsn, MaskDiscipline
    <2>2. Good(cwai(cpu, keep)) /\ Nested(cwai(cpu, keep))
      BY <1>8, <2>1, CwaiGood, CwaiNested DEF CwaiInsn
    <2> QED BY <1>8, <2>2, EndInsnNested DEF CwaiInsn, Becomes
  <1>9. ASSUME NEW source \in Sources, RaisingUpdate(source) PROVE Nested(cpu')
    BY <1>9, LinesNested DEF RaisingUpdate, Becomes
  <1>10. ASSUME NEW next \in Code, DebuggerSetPC(next) PROVE Nested(cpu')
    <2>1. Nested(Fetched(next)) /\ Fetched(next) \in CpuState
      BY MoveNested DEF Fetched, Good, CpuState
    <2> QED BY <1>10, <2>1, UpsetNested DEF DebuggerSetPC, Becomes
  <1>11. ASSUME NEW flags \in SUBSET Flags, DebuggerSetCC(flags) PROVE Nested(cpu')
    <2>1. Nested(set_cc(cpu, flags)) /\ set_cc(cpu, flags) \in CpuState
      BY <1>11, SetCCNested DEF DebuggerSetCC, MaskDiscipline, set_cc, Good, CpuState
    <2> QED BY <1>11, <2>1, UpsetNested DEF DebuggerSetCC, Becomes
  <1>12. CASE DebuggerReset
    <2>1. cpu'.entered = << >>
      BY <1>12 DEF DebuggerReset, Becomes, cpu_reset, Good, CpuState
    <2> QED BY <2>1 DEF Nested
  <1>13. CASE UNCHANGED vars
    BY <1>13 DEF vars
  <1> QED
    BY <1>3, <1>4, <1>5, <1>6, <1>7, <1>8, <1>9, <1>10, <1>11, <1>12, <1>13 DEF Next

\* Where handlers leave the masks alone, an IRQ handler is never interrupted by
\* an IRQ and an FIRQ handler by neither, however the lines, software
\* interrupts and CWAI are nested.
THEOREM HandlersNotReentered ==
  ASSUME ~HandlersMayUnmask
  PROVE  Spec => []NoReentry
  <1> DEFINE Inv == cpu.upset \/ Nested(cpu)
  <1>1. Init => Inv
    BY DEF Init, Nested
  <1>2. Upright(cpu) /\ Upright(cpu)' /\ Inv /\ [Next]_vars => Inv'
    <2> SUFFICES ASSUME Upright(cpu), Inv, [Next]_vars, ~cpu'.upset
                 PROVE  Nested(cpu')
      OBVIOUS
    <2>1. CASE cpu.upset
      <3>1. cpu'.entered = << >>
        BY <2>1, NextTyped DEF Upright
      <3> QED BY <3>1 DEF Nested
    <2>2. CASE ~cpu.upset
      BY <2>2, NextNested DEF Upright
    <2> QED BY <2>1, <2>2
  <1>3. Inv => NoReentry
    BY NestedMeans DEF NoReentry
  <1> QED BY <1>1, <1>2, <1>3, AlwaysUpright, PTL DEF Spec

-----------------------------------------------------------------------------
(* The machines. *)

\* Between two steps of a machine: no CWAI is in progress, nothing is left
\* pending and unmasked, and handlers are nested as their masks say.
Sound(c) == IdleSettled(c) /\ (~HandlersMayUnmask => Nested(c))

LEMMA SoundLines ==
  ASSUME NEW c, Sound(c), NEW source \in Sources
  PROVE  /\ Sound(request_irq(c, source)) /\ request_irq(c, source).irqs = c.irqs \cup {source}
         /\ Sound(release_irq(c, source)) /\ release_irq(c, source).irqs = c.irqs \ {source}
<1> DEFINE p == [c EXCEPT !.irqs = c.irqs \cup {source}]
           r == release_irq(c, source)
<1>1. c \in CpuState /\ Good(c) /\ c.cwai_state = "IDLE" /\ Settled(c)
  BY DEF Sound, IdleSettled, Good
<1>2. c.irqs \cup {source} \in SUBSET Sources
  BY <1>1 DEF CpuState
<1>3. p \in CpuState /\ p.cwai_state = "IDLE" /\ p.irqs = c.irqs \cup {source}
  BY <1>1, <1>2 DEF CpuState
<1>4. r.cwai_state = "IDLE" /\ r.irqs = c.irqs \ {source}
  BY <1>1 DEF release_irq, CpuState
<1>5. request_irq(c, source) = IF "I" \in p.efi THEN p ELSE irq(p)
  BY DEF request_irq
<1> HIDE DEF p, r
<1>6. /\ request_irq(c, source).cwai_state = "IDLE"
      /\ request_irq(c, source).irqs = c.irqs \cup {source}
  BY <1>3, <1>5, IrqFirqEffect
<1>7. Good(request_irq(c, source)) /\ Good(r)
  BY <1>1, RequestGood, ReleaseGood DEF r
<1>8. Settled(request_irq(c, source)) /\ Settled(r)
  BY <1>1, LinesSettled DEF r
<1>9. ~HandlersMayUnmask => Nested(request_irq(c, source)) /\ Nested(r)
  BY <1>1, LinesNested DEF Sound, r
<1> QED
  BY <1>4, <1>6, <1>7, <1>8, <1>9 DEF Sound, IdleSettled, r

LEMMA SoundEnd ==
  ASSUME NEW c, Sound(c)
  PROVE  Sound(EndInsn(c)) /\ EndInsn(c).irqs = c.irqs
<1> DEFINE t == IF c.firqs # {} /\ "F" \notin c.efi THEN firq(c)
                ELSE IF c.irqs # {} /\ "I" \notin c.efi THEN irq(c)
                ELSE c
           d == [t EXCEPT !.cc_changed = FALSE]
<1>1. Good(c) /\ c \in CpuState /\ c.cwai_state = "IDLE" /\ IdleSettled(c)
  BY DEF Sound, IdleSettled, Good
<1>2. t \in CpuState /\ t.irqs = c.irqs
  BY <1>1, IrqFirqEffect, IrqFirqGood DEF Good
<1>3. EndInsn(c) = IF c.cc_changed THEN d ELSE c
  BY DEF EndInsn, cc_modified
<1> HIDE DEF t
<1>4. d.irqs = t.irqs
  BY <1>2 DEF CpuState
<1> HIDE DEF d
<1>5. EndInsn(c).irqs = c.irqs
  BY <1>2, <1>3, <1>4
<1>6. ~HandlersMayUnmask => Nested(EndInsn(c))
  BY <1>1, EndInsnNested DEF Sound
<1> QED
  BY <1>1, <1>5, <1>6, EndInsnIdleSettled DEF Sound

LEMMA SoundFetched ==
  ASSUME Sound(cpu), NEW next \in Code
  PROVE  LET c == Fetched(next)
         IN  /\ Sound(c) /\ c.irqs = cpu.irqs
             /\ c.efi = cpu.efi /\ c.entered = cpu.entered
<1> DEFINE c == Fetched(next)
<1>1. Good(cpu) /\ cpu \in CpuState /\ cpu.cwai_state = "IDLE" /\ Settled(cpu)
  BY DEF Sound, IdleSettled, Good
<1>2. /\ c.irqs = cpu.irqs /\ c.firqs = cpu.firqs /\ c.efi = cpu.efi
      /\ c.cc_changed = cpu.cc_changed /\ c.cwai_state = "IDLE" /\ c.entered = cpu.entered
  BY <1>1 DEF Fetched, CpuState
<1>3. Good(c)
  BY <1>1, MoveGood DEF Fetched
<1>4. ~HandlersMayUnmask => Nested(c)
  BY <1>1, MoveNested DEF Fetched, Sound
<1> HIDE DEF c
<1>5. Settled(c)
  BY <1>1, <1>2 DEF Settled
<1>6. Sound(c)
  BY <1>2, <1>3, <1>4, <1>5 DEF Sound, IdleSettled
<1> QED
  BY <1>2, <1>6 DEF c

\* The instructions that leave the devices alone.
LEMMA SoundOther ==
  ASSUME Sound(cpu),
         \/ \E next \in Code :
              PlainInsn(next) \/ \E flags \in SUBSET Flags : SetCCInsn(next, flags)
         \/ \E g \in OtherBytes : RtiInsn(g)
  PROVE  Sound(cpu') /\ cpu'.irqs = cpu.irqs
<1>0. Good(cpu) /\ cpu \in CpuState /\ cpu.cwai_state = "IDLE"
  BY DEF Sound, IdleSettled, Good
<1>1. ASSUME NEW next \in Code, PlainInsn(next)
      PROVE  Sound(cpu') /\ cpu'.irqs = cpu.irqs
  <2> DEFINE c == Fetched(next)
  <2>1. Sound(c) /\ c.irqs = cpu.irqs /\ cpu' = EndInsn(c)
    BY <1>1, SoundFetched DEF PlainInsn, Becomes
  <2> HIDE DEF c
  <2> QED
    BY <2>1, SoundEnd
<1>2. ASSUME NEW g \in OtherBytes, RtiInsn(g)
      PROVE  Sound(cpu') /\ cpu'.irqs = cpu.irqs
  <2> DEFINE c == rti(cpu, g)
  <2>1. Good(c) /\ (~HandlersMayUnmask => Nested(c))
    BY <1>0, <1>2, RtiGood, RtiNested DEF RtiInsn, Sound
  <2>2. c.cc_changed /\ c.cwai_state = "IDLE" /\ c.irqs = cpu.irqs
    BY <1>0 DEF rti, set_cc, CpuState
  <2>3. cpu' = EndInsn(c)
    BY <1>2 DEF RtiInsn, Becomes
  <2> HIDE DEF c
  <2>4. Sound(c)
    BY <2>1, <2>2 DEF Sound, IdleSettled, Settled
  <2> QED
    BY <2>2, <2>3, <2>4, SoundEnd
<1>3. ASSUME NEW next \in Code, NEW flags \in SUBSET Flags, SetCCInsn(next, flags)
      PROVE  Sound(cpu') /\ cpu'.irqs = cpu.irqs
  <2> DEFINE c == Fetched(next)
             s == set_cc(c, flags)
  <2>1. Sound(c) /\ c.irqs = cpu.irqs /\ c.efi = cpu.efi /\ c.entered = cpu.entered
    BY SoundFetched
  <2>2. cpu' = EndInsn(s)
    BY <1>3 DEF SetCCInsn, Becomes
  <2>3. ~HandlersMayUnmask => (c.entered = << >> \/ Mask(c.efi) \subseteq flags)
    BY <1>3, <2>1 DEF SetCCInsn, MaskDiscipline
  <2> HIDE DEF c
  <2>4. Good(c) /\ c \in CpuState /\ c.cwai_state = "IDLE"
    BY <2>1 DEF Sound, IdleSettled, Good
  <2>5. Good(s)
    BY <2>4, SetCCGood
  <2>6. ~HandlersMayUnmask => Nested(s)
    BY <2>1, <2>3, <2>4, SetCCNested DEF Sound
  <2>7. s.cc_changed /\ s.cwai_state = "IDLE" /\ s.irqs = c.irqs
    BY <2>4 DEF set_cc, CpuState
  <2> HIDE DEF s
  <2>8. Sound(s)
    BY <2>5, <2>6, <2>7 DEF Sound, IdleSettled, Settled
  <2> QED
    BY <2>1, <2>2, <2>7, <2>8, SoundEnd
<1> QED
  BY <1>1, <1>2, <1>3

-----------------------------------------------------------------------------
(* eon2. *)

\* imux_refresh makes the CPU's line what the registers say.
LEMMA RefreshSound ==
  ASSUME NEW c, Sound(c), NEW pend, NEW enb
  PROVE  LET r == imux_refresh(c, pend, enb)
         IN  Sound(r) /\ ((MuxSource \in r.irqs) <=> (pend \cap enb # {}))
BY SoundLines, LinesAssumption DEF imux_refresh

\* The counter and the pulses it has given account for the cycles elapsed.
OscSound ==
  /\ count \in 0..Reload /\ elapsed \in Nat /\ pulses \in Nat
  /\ elapsed + count <= Reload * pulses + Reload
  /\ count = 0 => elapsed <= Reload * pulses

LEMMA UpdateOsc ==
  ASSUME OscSound, NEW cycles \in 1..MaxSlice, hwtimer_update(cycles)
  PROVE  OscSound'
<1> DEFINE p == Reload * pulses
           q == Reload * pulses'
<1>1. /\ Reload \in Nat /\ Reload > 0 /\ cycles \in Nat /\ cycles >= 1 /\ cycles <= Reload
      /\ count \in 0..Reload /\ elapsed \in Nat /\ pulses \in Nat /\ p \in Nat
  BY ReloadAssumption DEF OscSound
<1>2. /\ elapsed' = elapsed + cycles
      /\ count' = IF count - cycles < 0 THEN count - cycles + Reload ELSE count - cycles
      /\ pulses' = IF count - cycles <= 0 THEN pulses + 1 ELSE pulses
  BY <1>1 DEF hwtimer_update, Reloaded
<1>3. q = IF count - cycles <= 0 THEN p + Reload ELSE p
  BY <1>1, <1>2
<1>4. elapsed + count <= p + Reload /\ (count = 0 => elapsed <= p)
  BY DEF OscSound
<1> HIDE DEF p, q
<1>5. /\ count' \in 0..Reload /\ elapsed' \in Nat /\ pulses' \in Nat
      /\ elapsed' + count' <= q + Reload
      /\ count' = 0 => elapsed' <= q
  BY <1>1, <1>2, <1>3, <1>4
<1> QED
  BY <1>5 DEF OscSound, q

LEMMA DivBound ==
  ASSUME NEW n \in Nat \ {0}, NEW x \in Nat, NEW k \in Nat, x < n * k + n
  PROVE  k >= x \div n
<1> DEFINE d == x \div n
<1>1. d \in Nat /\ n * d <= x
  OBVIOUS
<1> HIDE DEF d
<1>2. ASSUME d >= k + 1 PROVE FALSE
  <2>1. n * d >= n * (k + 1)
    BY <1>1, <1>2
  <2>2. n * (k + 1) = n * k + n
    OBVIOUS
  <2> QED
    BY <1>1, <2>1, <2>2
<1>3. k >= d
  BY <1>1, <1>2
<1> QED
  BY <1>3 DEF d

LEMMA OscMeans ==
  ASSUME OscSound
  PROVE  NoPulseMissed
<1> DEFINE p == Reload * pulses
<1>1. /\ Reload \in Nat \ {0} /\ pulses \in Nat /\ elapsed \in Nat /\ count \in 0..Reload
      /\ p \in Nat
  BY ReloadAssumption DEF OscSound
<1>2. elapsed + count <= p + Reload /\ (count = 0 => elapsed <= p)
  BY DEF OscSound
<1>3. elapsed < p + Reload
  <2> HIDE DEF p
  <2> QED
    BY <1>1, <1>2
<1>4. pulses >= elapsed \div Reload
  BY <1>1, <1>3, DivBound
<1> QED
  BY <1>1, <1>4 DEF NoPulseMissed

Eon2Sound == Sound(cpu) /\ LineFollowsMux /\ OscSound

LEMMA Eon2Keeps ==
  ASSUME Eon2Sound, Eon2Next
  PROVE  Eon2Sound'
<1>1. CASE OtherInsn
  <2>1. Sound(cpu') /\ cpu'.irqs = cpu.irqs
    BY <1>1, SoundOther DEF OtherInsn, Eon2Sound
  <2>2. LineFollowsMux' /\ OscSound'
    BY <1>1, <2>1 DEF OtherInsn, Eon2Sound, LineFollowsMux, OscSound, mux, osc
  <2> QED
    BY <2>1, <2>2 DEF Eon2Sound
<1>2. ASSUME NEW next \in Code, NEW lines \in SUBSET Lines, imux_write(next, lines)
      PROVE  Eon2Sound'
  <2> DEFINE r == imux_refresh(Fetched(next), pending', enabled')
  <2>1. Sound(r) /\ ((MuxSource \in r.irqs) <=> (pending' \cap enabled' # {}))
    BY SoundFetched, RefreshSound DEF Eon2Sound
  <2>2. cpu' = EndInsn(r) /\ UNCHANGED osc
    BY <1>2 DEF imux_write, Becomes
  <2> HIDE DEF r
  <2>3. Sound(cpu') /\ LineFollowsMux'
    BY <2>1, <2>2, SoundEnd DEF LineFollowsMux
  <2>4. OscSound'
    BY <2>2 DEF Eon2Sound, OscSound, osc
  <2> QED
    BY <2>3, <2>4 DEF Eon2Sound
<1>3. ASSUME NEW cycles \in 1..MaxSlice, hwtimer_update(cycles)
      PROVE  Eon2Sound'
  <2>1. OscSound'
    BY <1>3, UpdateOsc DEF Eon2Sound
  <2>2. CASE imux_assert(cpu, Osc)
    <3>1. cpu' = imux_refresh(cpu, pending', enabled')
      BY <2>2 DEF imux_assert, Becomes
    <3>2. Sound(cpu') /\ LineFollowsMux'
      BY <3>1, RefreshSound DEF Eon2Sound, LineFollowsMux
    <3> QED
      BY <2>1, <3>2 DEF Eon2Sound
  <2>3. CASE UNCHANGED <<cpu, mux>>
    BY <2>1, <2>3 DEF Eon2Sound, LineFollowsMux, mux
  <2> QED
    BY <1>3, <2>2, <2>3 DEF hwtimer_update
<1> QED
  BY <1>1, <1>2, <1>3 DEF Eon2Next

-----------------------------------------------------------------------------
(* multicomp09. *)

Slots == 0..CharFIFO_SIZE - 1

\* The receiver: any cursors and either flag, since a master reset sets the flag
\* and clears one cursor only.
UartState == [data : [Slots -> Chars], wr : Slots, rd : Slots, empty : BOOLEAN, irq_enable : BOOLEAN]

Ring(u) == u \in UartState

LEMMA CursorMoves ==
  ASSUME NEW x \in Slots
  PROVE  /\ (x + 1) % CharFIFO_SIZE \in Slots
         /\ (x + 1) % CharFIFO_SIZE = IF x + 1 = CharFIFO_SIZE THEN 0 ELSE x + 1
<1>1. CASE x + 1 = CharFIFO_SIZE
  BY <1>1, FifoAssumption DEF Slots
<1>2. CASE x + 1 # CharFIFO_SIZE
  BY <1>2, FifoAssumption DEF Slots
<1> QED
  BY <1>1, <1>2

LEMMA PushRing ==
  ASSUME NEW u, Ring(u), NEW ch \in Chars
  PROVE  LET p == Push(u, ch)
         IN  /\ Ring(p) /\ p.data = [u.data EXCEPT ![u.wr] = ch] /\ p.rd = u.rd /\ p.empty = FALSE
             /\ p.wr = (u.wr + 1) % CharFIFO_SIZE
<1> DEFINE wr == (u.wr + 1) % CharFIFO_SIZE
           data == [u.data EXCEPT ![u.wr] = ch]
           p == Push(u, ch)
<1>1. u \in UartState /\ u.wr \in Slots
  BY DEF Ring, UartState
<1>2. wr \in Slots /\ data \in [Slots -> Chars]
  BY <1>1, CursorMoves DEF UartState
<1>3. p = [u EXCEPT !.empty = FALSE, !.data = data, !.wr = wr]
  BY DEF Push
<1> HIDE DEF wr, data, p
<1>4. /\ p \in UartState /\ p.data = data /\ p.rd = u.rd /\ p.empty = FALSE /\ p.wr = wr
  BY <1>1, <1>2, <1>3 DEF UartState
<1> QED
  BY <1>4 DEF Ring, wr, data, p

LEMMA PopRing ==
  ASSUME NEW u, Ring(u)
  PROVE  LET p == Popped(u)
         IN  /\ Ring(p) /\ p.data = u.data /\ p.wr = u.wr
             /\ p.rd = (u.rd + 1) % CharFIFO_SIZE /\ p.empty = (p.rd = u.wr)
<1> DEFINE rd == (u.rd + 1) % CharFIFO_SIZE
           e == rd = u.wr
           p == Popped(u)
<1>1. u \in UartState /\ u.rd \in Slots
  BY DEF Ring, UartState
<1>2. rd \in Slots /\ e \in BOOLEAN
  BY <1>1, CursorMoves
<1>3. p = [u EXCEPT !.rd = rd, !.empty = e]
  BY DEF Popped
<1> HIDE DEF rd, e, p
<1>4. /\ p \in UartState /\ p.data = u.data /\ p.rd = rd /\ p.empty = e /\ p.wr = u.wr
  BY <1>1, <1>2, <1>3 DEF UartState
<1>5. p.empty => p.wr = p.rd
  BY <1>4 DEF e
<1> QED
  BY <1>4, <1>5 DEF Ring, rd, e, p

LEMMA ArrivalsTyped ==
  ASSUME NEW u, NEW ch \in Arrivals(u)
  PROVE  ch \in Chars \cup {NoChar}
BY DEF Arrivals

\* A poll stores the character that arrives, or changes nothing.
LEMMA PollRing ==
  ASSUME NEW u, Ring(u), NEW ch \in Chars \cup {NoChar}
  PROVE  LET p == multicomp_console_rxpoll(u, ch)
         IN  /\ Ring(p) /\ (p.empty => p = u)
             /\ p = u \/ (ch \in Chars /\ ~Full(u) /\ p = Push(u, ch))
<1>1. CASE ch = NoChar \/ Full(u)
  BY <1>1 DEF multicomp_console_rxpoll
<1>2. CASE ~(ch = NoChar \/ Full(u))
  <2>1. multicomp_console_rxpoll(u, ch) = Push(u, ch) /\ ch \in Chars
    BY <1>2 DEF multicomp_console_rxpoll
  <2>2. Ring(Push(u, ch)) /\ Push(u, ch).empty = FALSE
    BY <2>1, PushRing
  <2> QED
    BY <1>2, <2>1, <2>2
<1> QED
  BY <1>1, <1>2

McSound == Sound(cpu) /\ LinesFollowDevices /\ Ring(uart)

LEMMA McSources == TimerSource \in Sources /\ UartSource \in Sources /\ TimerSource # UartSource
BY McSourcesAssumption DEF TimerSource, UartSource

LEMMA ReadStatusKeeps ==
  ASSUME McSound, NEW next \in Code, ReadUartStatus(next)
  PROVE  McSound'
<1>1. PICK ch \in Arrivals(uart) : uart' = multicomp_console_rxpoll(uart, ch)
  BY DEF ReadUartStatus
<1>2. ch \in Chars \cup {NoChar}
  BY ArrivalsTyped
<1>3. Ring(uart') /\ (uart'.empty => uart' = uart)
  BY <1>1, <1>2, PollRing DEF McSound
<1>4. Sound(cpu') /\ cpu'.irqs = cpu.irqs
  BY SoundFetched, SoundEnd DEF ReadUartStatus, Becomes, McSound
<1>5. LinesFollowDevices'
  BY <1>3, <1>4 DEF McSound, LinesFollowDevices, ReadUartStatus
<1> QED
  BY <1>3, <1>4, <1>5 DEF McSound

LEMMA ReadDataKeeps ==
  ASSUME McSound, NEW next \in Code, ReadUartData(next)
  PROVE  McSound'
<1> DEFINE c == Fetched(next)
<1>0. Sound(c) /\ c.irqs = cpu.irqs
  BY SoundFetched DEF McSound
<1>1. PICK ch \in Arrivals(uart) :
        LET u == multicomp_console_rxpoll(uart, ch)
        IN  IF u.empty
            THEN uart' = u /\ char' = char /\ Becomes(EndInsn(c))
            ELSE /\ uart' = Popped(u)
                 /\ char' = KeyConversion(u.data[u.rd])
                 /\ Becomes(EndInsn(IF Popped(u).empty THEN release_irq(c, UartSource) ELSE c))
  BY DEF ReadUartData
<1> DEFINE u == multicomp_console_rxpoll(uart, ch)
<1>2. Ring(u) /\ (u.empty => u = uart)
  BY ArrivalsTyped, PollRing DEF McSound
<1> HIDE DEF u, c
<1>3. CASE u.empty
  <2>1. uart' = uart /\ cpu' = EndInsn(c)
    BY <1>1, <1>2, <1>3 DEF u, Becomes
  <2>2. Sound(cpu') /\ cpu'.irqs = cpu.irqs
    BY <1>0, <2>1, SoundEnd
  <2> QED
    BY <2>1, <2>2 DEF McSound, LinesFollowDevices, ReadUartData
<1>4. CASE ~u.empty
  <2> DEFINE d == IF Popped(u).empty THEN release_irq(c, UartSource) ELSE c
  <2>1. uart' = Popped(u) /\ cpu' = EndInsn(d)
    BY <1>1, <1>4 DEF u, Becomes
  <2>2. Sound(d) /\ d.irqs = IF Popped(u).empty THEN cpu.irqs \ {UartSource} ELSE cpu.irqs
    <3>1. CASE Popped(u).empty
      BY <1>0, <3>1, SoundLines, McSources
    <3>2. CASE ~Popped(u).empty
      BY <1>0, <3>2
    <3> QED
      BY <3>1, <3>2
  <2> HIDE DEF d
  <2>3. Sound(cpu') /\ cpu'.irqs = d.irqs
    BY <2>1, <2>2, SoundEnd
  <2>4. Ring(uart')
    BY <1>2, <2>1, PopRing
  <2>5. LinesFollowDevices'
    BY <2>1, <2>2, <2>3, McSources DEF McSound, LinesFollowDevices, ReadUartData
  <2> QED
    BY <2>3, <2>4, <2>5 DEF McSound
<1> QED
  BY <1>3, <1>4

LEMMA UpdateKeeps ==
  ASSUME McSound, multicomp09_console_update
  PROVE  McSound'
<1>1. PICK ch \in Arrivals(uart) :
        LET u == multicomp_console_rxpoll(uart, ch)
        IN  /\ uart' = u
            /\ Becomes(IF ~u.empty /\ u.irq_enable THEN request_irq(cpu, UartSource) ELSE cpu)
  BY DEF multicomp09_console_update
<1>2. ch \in Chars \cup {NoChar}
  BY ArrivalsTyped
<1>3. Ring(uart') /\ (uart'.empty => uart' = uart)
  BY <1>1, <1>2, PollRing DEF McSound
<1>4. cpu' = IF ~uart'.empty /\ uart'.irq_enable THEN request_irq(cpu, UartSource) ELSE cpu
  BY <1>1 DEF Becomes
<1>5. /\ Sound(cpu')
      /\ cpu'.irqs = cpu.irqs \/ (~uart'.empty /\ cpu'.irqs = cpu.irqs \cup {UartSource})
  BY <1>4, SoundLines, McSources DEF McSound
<1>6. LinesFollowDevices'
  BY <1>3, <1>5, McSources DEF McSound, LinesFollowDevices, multicomp09_console_update
<1> QED
  BY <1>3, <1>5, <1>6 DEF McSound

\* Stores to the status register.
LEMMA StoreStatusKeeps ==
  ASSUME McSound, NEW next \in Code,
         ResetUart(next) \/ \E irq_enable \in BOOLEAN : WriteUartStatus(next, irq_enable)
  PROVE  McSound'
<1> DEFINE c == Fetched(next)
<1>0. Sound(c) /\ c.irqs = cpu.irqs /\ uart \in UartState /\ uart.rd \in Slots
  BY SoundFetched DEF McSound, Ring, UartState
<1>1. CASE ResetUart(next)
  <2>1. cpu' = EndInsn(release_irq(c, UartSource))
    BY <1>1 DEF ResetUart, Becomes
  <2>2. 0 \in Slots
    BY FifoAssumption DEF Slots
  <2>3. /\ uart' \in UartState /\ uart'.wr = 0 /\ uart'.rd = uart.rd
    BY <1>0, <1>1, <2>2 DEF ResetUart, UartState
  <2>4. Ring(uart')
    BY <1>1, <2>3 DEF Ring, ResetUart
  <2> HIDE DEF c
  <2>5. Sound(cpu') /\ cpu'.irqs = cpu.irqs \ {UartSource}
    BY <1>0, <2>1, SoundLines, SoundEnd, McSources
  <2>6. LinesFollowDevices'
    BY <1>1, <2>5, McSources DEF McSound, LinesFollowDevices, ResetUart
  <2> QED
    BY <2>4, <2>5, <2>6 DEF McSound
<1>2. ASSUME NEW irq_enable \in BOOLEAN, WriteUartStatus(next, irq_enable)
      PROVE  McSound'
  <2>1. cpu' = EndInsn(c)
    BY <1>2 DEF WriteUartStatus, Becomes
  <2>2. /\ uart' \in UartState /\ uart'.wr = uart.wr /\ uart'.rd = uart.rd /\ uart'.empty = uart.empty
    BY <1>0, <1>2 DEF WriteUartStatus, UartState
  <2> HIDE DEF c
  <2>3. Sound(cpu') /\ cpu'.irqs = cpu.irqs
    BY <1>0, <2>1, SoundEnd
  <2>4. LinesFollowDevices' /\ Ring(uart')
    BY <1>2, <2>2, <2>3 DEF McSound, LinesFollowDevices, WriteUartStatus, Ring
  <2> QED
    BY <2>3, <2>4 DEF McSound
<1> QED
  BY <1>1, <1>2

LEMMA TimerKeeps ==
  ASSUME McSound,
         multicomp09_tick \/ \E next \in Code, bits \in SUBSET {"enable", "irq"} : WriteTimer(next, bits)
  PROVE  McSound'
<1>1. CASE multicomp09_tick
  <2>1. Sound(cpu') /\ cpu'.irqs = cpu.irqs \cup {TimerSource}
    BY <1>1, SoundLines, McSources DEF multicomp09_tick, Becomes, McSound
  <2>2. LinesFollowDevices' /\ Ring(uart')
    BY <1>1, <2>1, McSources DEF multicomp09_tick, McSound, LinesFollowDevices
  <2> QED
    BY <2>1, <2>2 DEF McSound
<1>2. ASSUME NEW next \in Code, NEW bits \in SUBSET {"enable", "irq"}, WriteTimer(next, bits)
      PROVE  McSound'
  <2> DEFINE c == Fetched(next)
  <2>0. Sound(c) /\ c.irqs = cpu.irqs
    BY SoundFetched DEF McSound
  <2>1. /\ cpu' = EndInsn(IF "irq" \in bits THEN release_irq(c, TimerSource) ELSE c)
        /\ "irq" \in mc_timer' <=> "irq" \in mc_timer /\ "irq" \notin bits
        /\ uart' = uart
    BY <1>2 DEF WriteTimer, Becomes
  <2> HIDE DEF c
  <2>2. Sound(cpu') /\ cpu'.irqs = IF "irq" \in bits THEN cpu.irqs \ {TimerSource} ELSE cpu.irqs
    <3>1. CASE "irq" \in bits
      <4> DEFINE d == release_irq(c, TimerSource)
      <4>1. Sound(d) /\ d.irqs = cpu.irqs \ {TimerSource}
        BY <2>0, SoundLines, McSources
      <4>2. cpu' = EndInsn(d)
        BY <2>1, <3>1
      <4> HIDE DEF d
      <4> QED
        BY <3>1, <4>1, <4>2, SoundEnd
    <3>2. CASE "irq" \notin bits
      BY <2>0, <2>1, <3>2, SoundEnd
    <3> QED
      BY <3>1, <3>2
  <2>3. LinesFollowDevices' /\ Ring(uart')
    BY <2>1, <2>2, McSources DEF McSound, LinesFollowDevices
  <2> QED
    BY <2>2, <2>3 DEF McSound
<1> QED
  BY <1>1, <1>2

LEMMA McKeeps ==
  ASSUME McSound, McNext
  PROVE  McSound'
<1>1. CASE McOtherInsn
  <2>1. Sound(cpu') /\ cpu'.irqs = cpu.irqs
    BY <1>1, SoundOther DEF McOtherInsn, McSound
  <2>2. LinesFollowDevices' /\ Ring(uart')
    BY <1>1, <2>1 DEF McOtherInsn, McSound, LinesFollowDevices
  <2> QED
    BY <2>1, <2>2 DEF McSound
<1> QED
  BY <1>1, ReadStatusKeeps, ReadDataKeeps, UpdateKeeps, StoreStatusKeeps, TimerKeeps DEF McNext

-----------------------------------------------------------------------------
(* The machines. *)

MachineSound ==
  /\ machine \in Started
  /\ Sound(cpu) /\ OscSound /\ Ring(uart)
  /\ DevicesDriveLines

LEMMA InitMachine == MachineInit => MachineSound
<1> SUFFICES ASSUME MachineInit PROVE MachineSound
  OBVIOUS
<1>1. Good(cpu) /\ cpu.irqs = {} /\ cpu.firqs = {} /\ cpu.cwai_state = "IDLE" /\ cpu.entered = << >>
  BY InitGood DEF MachineInit, Eon2Init, Init
<1>2. Sound(cpu)
  BY <1>1 DEF Sound, IdleSettled, Settled, Nested
<1>3. OscSound
  BY ReloadAssumption DEF MachineInit, Eon2Init, OscSound
<1>4. Ring(uart)
  <2>1. 0 \in Slots
    BY FifoAssumption DEF Slots
  <2> QED
    BY <2>1 DEF MachineInit, McInit, Ring, UartState, Slots
<1>5. DevicesDriveLines
  BY <1>1 DEF MachineInit, Eon2Init, McInit, DevicesDriveLines, LineFollowsMux, LinesFollowDevices
<1> QED
  BY <1>2, <1>3, <1>4, <1>5 DEF MachineSound, MachineInit

LEMMA NextMachine == MachineSound /\ [MachineNext]_machine_vars => MachineSound'
<1> SUFFICES ASSUME MachineSound, [MachineNext]_machine_vars PROVE MachineSound'
  OBVIOUS
<1>1. CASE machine = "eon2" /\ machine' = machine /\ Eon2Next /\ UNCHANGED <<uart, mc_timer, batch_file, char>>
  <2>1. Eon2Sound
    BY <1>1 DEF MachineSound, Eon2Sound, DevicesDriveLines
  <2>2. Eon2Sound'
    BY <1>1, <2>1, Eon2Keeps
  <2>3. Ring(uart')
    BY <1>1 DEF MachineSound
  <2> QED
    BY <1>1, <2>2, <2>3 DEF MachineSound, Eon2Sound, DevicesDriveLines
<1>2. CASE machine = "multicomp09" /\ machine' = machine /\ McNext /\ UNCHANGED <<mux, osc>>
  <2>1. McSound
    BY <1>2 DEF MachineSound, McSound, DevicesDriveLines
  <2>2. McSound'
    BY <1>2, <2>1, McKeeps
  <2>3. OscSound'
    BY <1>2 DEF MachineSound, OscSound, osc
  <2> QED
    BY <1>2, <2>2, <2>3 DEF MachineSound, McSound, DevicesDriveLines
<1>3. CASE UNCHANGED machine_vars
  BY <1>3 DEF machine_vars, eon2_vars, mc_vars, MachineSound, OscSound, DevicesDriveLines,
              LineFollowsMux, LinesFollowDevices
<1> QED
  BY <1>1, <1>2, <1>3 DEF MachineNext

LEMMA MachineAlways == MachineSpec => []MachineSound
BY InitMachine, NextMachine, PTL DEF MachineSpec

\* The lines the CPU sees are what the registers of the multiplexer, the timer
\* and the UART say, after any order of stores, reads, pulses, ticks and updates.
THEOREM LinesAgree == MachineSpec => []DevicesDriveLines
<1>1. MachineSound => DevicesDriveLines
  BY DEF MachineSound
<1> QED
  BY <1>1, MachineAlways, PTL

\* The oscillator never skips a pulse, for every period and every division of
\* the cycles into slices of at most a period.
THEOREM PulsesKept == MachineSpec => []NoPulseMissed
<1>1. MachineSound => NoPulseMissed
  BY OscMeans DEF MachineSound
<1> QED
  BY <1>1, MachineAlways, PTL

\* A device's request is never left pending and unmasked past the end of an
\* instruction, whoever raised it.
THEOREM MachinePendingIsTaken == MachineSpec => []NoUnmaskedPending
<1>1. MachineSound => NoUnmaskedPending
  BY DEF MachineSound, Sound, IdleSettled, Settled, NoUnmaskedPending
<1> QED
  BY <1>1, MachineAlways, PTL

\* Where handlers leave the masks alone the devices never re-enter one.
THEOREM MachineNotReentered ==
  ASSUME ~HandlersMayUnmask
  PROVE  MachineSpec => []NoReentry
<1>1. MachineSound => NoReentry
  BY NestedMeans DEF MachineSound, Sound, NoReentry
<1> QED
  BY <1>1, MachineAlways, PTL

-----------------------------------------------------------------------------
(* The receiver implements the FIFO. *)

\* Span, Between, Received and Stale for any state of the receiver.
Count(u) == IF u.wr > u.rd THEN u.wr - u.rd
            ELSE IF u.wr = u.rd /\ u.empty THEN 0
            ELSE u.wr - u.rd + CharFIFO_SIZE

Slot(u, i) == (u.rd + i - 1) % CharFIFO_SIZE

View(u) == [i \in 1..Count(u) |-> KeyConversion(u.data[Slot(u, i)])]

Shown(u)  == IF u.empty THEN << >> ELSE View(u)
Hidden(u) == IF u.empty THEN View(u) ELSE << >>

LEMMA ReceivedIsView ==
  /\ Received = Shown(uart) /\ Received' = Shown(uart')
  /\ Stale = Hidden(uart) /\ Stale' = Hidden(uart')
BY DEF Received, Stale, Shown, Hidden, View, Between, Span, Count, Slot

\* Where slot i is, without the remainder.
LEMMA SlotIs ==
  ASSUME NEW r \in Slots, NEW i \in 1..CharFIFO_SIZE
  PROVE  /\ (r + i - 1) % CharFIFO_SIZE \in Slots
         /\ (r + i - 1) % CharFIFO_SIZE = IF r + i - 1 < CharFIFO_SIZE THEN r + i - 1
                                          ELSE r + i - 1 - CharFIFO_SIZE
<1>1. \A n, x \in Nat : n > 0 /\ x < n => x % n = x
  OBVIOUS
<1>2. \A n, x \in Nat : n > 0 /\ n <= x /\ x < n + n => x % n = x - n
  OBVIOUS
<1>3. /\ CharFIFO_SIZE \in Nat /\ CharFIFO_SIZE > 0
      /\ r + i - 1 \in Nat /\ r + i - 1 < CharFIFO_SIZE + CharFIFO_SIZE
  BY FifoAssumption DEF Slots
<1>4. CASE r + i - 1 < CharFIFO_SIZE
  <2>1. (r + i - 1) % CharFIFO_SIZE = r + i - 1
    BY <1>1, <1>3, <1>4, Zenon
  <2> QED
    BY <1>3, <1>4, <2>1 DEF Slots
<1>5. CASE ~(r + i - 1 < CharFIFO_SIZE)
  <2>1. CharFIFO_SIZE <= r + i - 1
    BY <1>3, <1>5
  <2>2. (r + i - 1) % CharFIFO_SIZE = (r + i - 1) - CharFIFO_SIZE
    BY <1>2, <1>3, <2>1, Zenon
  <2> QED
    BY <1>3, <1>5, <2>1, <2>2 DEF Slots
<1> QED
  BY <1>4, <1>5

\* Two cursors and a flag: how many wait, and where the next one goes.
LEMMA CountIs ==
  ASSUME NEW u, Ring(u)
  PROVE  /\ Count(u) \in 0..CharFIFO_SIZE
         /\ Count(u) = 0 <=> u.empty /\ u.wr = u.rd
         /\ ~Full(u) => Count(u) < CharFIFO_SIZE
         /\ u.rd \in Slots /\ u.wr \in Slots
         /\ u.wr = IF u.rd + Count(u) < CharFIFO_SIZE THEN u.rd + Count(u)
                   ELSE u.rd + Count(u) - CharFIFO_SIZE
<1>1. /\ u.rd \in Slots /\ u.wr \in Slots /\ u.empty \in BOOLEAN
      /\ CharFIFO_SIZE \in Nat /\ CharFIFO_SIZE > 0
  BY FifoAssumption DEF Ring, UartState
<1>2. CASE u.empty /\ u.wr = u.rd
  BY <1>1, <1>2 DEF Count, Slots
<1>3. CASE u.wr > u.rd
  BY <1>1, <1>3 DEF Count, Slots, Full
<1>4. CASE ~(u.empty /\ u.wr = u.rd) /\ ~(u.wr > u.rd)
  BY <1>1, <1>4 DEF Count, Slots, Full
<1> QED
  BY <1>2, <1>3, <1>4

Keys == {KeyConversion(ch) : ch \in Chars}

LEMMA ViewIsSeq ==
  ASSUME NEW u, Ring(u)
  PROVE  View(u) \in Seq(Keys) /\ Len(View(u)) = Count(u)
<1>1. Count(u) \in Nat /\ u.data \in [Slots -> Chars]
  BY CountIs, FifoAssumption DEF Ring, UartState
<1>2. ASSUME NEW i \in 1..Count(u)
      PROVE  KeyConversion(u.data[Slot(u, i)]) \in Keys
  <2>1. i \in 1..CharFIFO_SIZE /\ u.rd \in Slots
    BY <1>1, CountIs, FifoAssumption
  <2>2. Slot(u, i) \in Slots
    BY <2>1, SlotIs DEF Slot
  <2>3. u.data[Slot(u, i)] \in Chars
    BY <1>1, <2>2
  <2> QED
    BY <2>3 DEF Keys
<1>3. View(u) \in [1..Count(u) -> Keys]
  BY <1>2 DEF View
<1> QED
  BY <1>1, <1>3

LEMMA PushView ==
  ASSUME NEW u, Ring(u), NEW ch \in Chars, ~Full(u)
  PROVE  View(Push(u, ch)) = Append(View(u), KeyConversion(ch))
<1> DEFINE p == Push(u, ch)
           k == Count(u)
           a == Append(View(u), KeyConversion(ch))
<1>1. /\ Ring(p) /\ p.data = [u.data EXCEPT ![u.wr] = ch] /\ p.rd = u.rd /\ p.empty = FALSE
      /\ p.wr = (u.wr + 1) % CharFIFO_SIZE
  BY PushRing
<1>2. /\ k \in Nat /\ k < CharFIFO_SIZE /\ u.rd \in Slots /\ u.wr \in Slots
      /\ u.wr = IF u.rd + k < CharFIFO_SIZE THEN u.rd + k ELSE u.rd + k - CharFIFO_SIZE
      /\ u.data \in [Slots -> Chars]
  BY CountIs, FifoAssumption DEF Ring, UartState
<1> HIDE DEF p, k
<1>3. Count(p) = k + 1
  <2>1. p.wr = IF u.wr + 1 = CharFIFO_SIZE THEN 0 ELSE u.wr + 1
    BY <1>1, <1>2, CursorMoves
  <2>2. Count(p) = IF p.wr > u.rd THEN p.wr - u.rd ELSE p.wr - u.rd + CharFIFO_SIZE
    BY <1>1 DEF Count
  <2>3. u.rd \in Int /\ u.rd >= 0 /\ u.rd < CharFIFO_SIZE /\ CharFIFO_SIZE \in Nat
    BY <1>2, FifoAssumption DEF Slots
  <2>4. CASE u.rd + k < CharFIFO_SIZE
    BY <1>2, <2>1, <2>2, <2>3, <2>4
  <2>5. CASE ~(u.rd + k < CharFIFO_SIZE)
    BY <1>2, <2>1, <2>2, <2>3, <2>5
  <2> QED
    BY <2>4, <2>5
<1>4. View(u) \in Seq(Keys) /\ Len(View(u)) = k /\ KeyConversion(ch) \in Keys
  BY ViewIsSeq DEF k, Keys
<1>5. /\ a \in Seq(Keys) /\ Len(a) = k + 1 /\ a[k + 1] = KeyConversion(ch)
      /\ \A i \in 1..k : a[i] = View(u)[i]
  BY <1>4, AppendProperties
<1>6. View(p) \in Seq(Keys) /\ Len(View(p)) = k + 1
  BY <1>1, <1>3, ViewIsSeq
<1> HIDE DEF a
<1>7. ASSUME NEW i \in 1..(k + 1)
      PROVE  View(p)[i] = a[i]
  <2>1. i \in 1..CharFIFO_SIZE
    BY <1>2, FifoAssumption
  <2>2. /\ Slot(p, i) = Slot(u, i) /\ Slot(u, i) \in Slots
        /\ Slot(u, i) = IF u.rd + i - 1 < CharFIFO_SIZE THEN u.rd + i - 1
                        ELSE u.rd + i - 1 - CharFIFO_SIZE
    BY <1>1, <1>2, <2>1, SlotIs DEF Slot
  <2>3. View(p)[i] = KeyConversion(p.data[Slot(u, i)])
    BY <1>3, <2>2 DEF View
  <2>4. CASE i = k + 1
    <3>1. Slot(u, i) = u.wr
      BY <1>2, <2>2, <2>4, FifoAssumption DEF Slots
    <3> QED
      BY <1>1, <1>2, <1>5, <2>3, <2>4, <3>1
  <2>5. CASE i \in 1..k
    <3>1. Slot(u, i) # u.wr
      BY <1>2, <2>2, <2>5, FifoAssumption DEF Slots
    <3>2. p.data[Slot(u, i)] = u.data[Slot(u, i)]
      BY <1>1, <1>2, <2>2, <3>1
    <3>3. View(u)[i] = KeyConversion(u.data[Slot(u, i)])
      BY <2>5 DEF View, k
    <3> QED
      BY <1>5, <2>3, <2>5, <3>2, <3>3
  <2> QED
    BY <1>2, <2>4, <2>5
<1>8. View(p) = a
  BY <1>5, <1>6, <1>7, SeqEqual
<1> QED
  BY <1>8 DEF p, a

LEMMA PopView ==
  ASSUME NEW u, Ring(u), ~u.empty
  PROVE  /\ View(u) # << >>
         /\ View(Popped(u)) = Tail(View(u))
         /\ KeyConversion(u.data[u.rd]) = Head(View(u))
<1> DEFINE p == Popped(u)
           k == Count(u)
           t == Tail(View(u))
<1>1. /\ Ring(p) /\ p.data = u.data /\ p.wr = u.wr
      /\ p.rd = (u.rd + 1) % CharFIFO_SIZE /\ p.empty = (p.rd = u.wr)
  BY PopRing
<1>2. /\ k \in 1..CharFIFO_SIZE /\ u.rd \in Slots /\ u.wr \in Slots
      /\ u.wr = IF u.rd + k < CharFIFO_SIZE THEN u.rd + k ELSE u.rd + k - CharFIFO_SIZE
      /\ CharFIFO_SIZE \in Nat /\ CharFIFO_SIZE > 0
  BY CountIs, FifoAssumption
<1> HIDE DEF p, k
<1>3. p.rd = IF u.rd + 1 = CharFIFO_SIZE THEN 0 ELSE u.rd + 1
  BY <1>1, <1>2, CursorMoves
<1>4. Count(p) = k - 1
  <2>1. Count(p) = IF p.rd = u.wr THEN 0 ELSE IF u.wr > p.rd THEN u.wr - p.rd
                   ELSE u.wr - p.rd + CharFIFO_SIZE
    <3>1. CASE p.rd = u.wr
      <4>1. p.empty /\ p.wr = p.rd
        BY <1>1, <3>1
      <4>2. ~(p.wr > p.rd)
        BY <1>2, <3>1, <4>1 DEF Slots
      <4> QED
        BY <3>1, <4>1, <4>2 DEF Count
    <3>2. CASE p.rd # u.wr
      BY <1>1, <3>2 DEF Count
    <3> QED
      BY <3>1, <3>2
  <2>2. u.rd \in Int /\ u.rd >= 0 /\ u.rd < CharFIFO_SIZE
    BY <1>2 DEF Slots
  <2>3. CASE u.rd + k < CharFIFO_SIZE
    BY <1>2, <1>3, <2>1, <2>2, <2>3
  <2>4. CASE ~(u.rd + k < CharFIFO_SIZE)
    BY <1>2, <1>3, <2>1, <2>2, <2>4
  <2> QED
    BY <2>3, <2>4
<1>5. View(u) \in Seq(Keys) /\ Len(View(u)) = k /\ View(u) # << >>
  <2>1. View(u) \in Seq(Keys) /\ Len(View(u)) = k
    BY ViewIsSeq DEF k
  <2> QED
    BY <1>2, <2>1
<1>6. /\ t \in Seq(Keys) /\ Len(t) = k - 1
      /\ \A i \in 1..(k - 1) : t[i] = View(u)[i + 1]
  BY <1>5, HeadTailProperties
<1>7. View(p) \in Seq(Keys) /\ Len(View(p)) = k - 1
  BY <1>1, <1>4, ViewIsSeq
<1>8. ASSUME NEW i \in 1..k
      PROVE  /\ View(u)[i] = KeyConversion(u.data[Slot(u, i)])
             /\ Slot(u, i) = IF u.rd + i - 1 < CharFIFO_SIZE THEN u.rd + i - 1
                             ELSE u.rd + i - 1 - CharFIFO_SIZE
  <2>1. i \in 1..CharFIFO_SIZE
    BY <1>2
  <2>2. View(u)[i] = KeyConversion(u.data[Slot(u, i)])
    BY DEF View, k
  <2> QED
    BY <1>2, <2>1, <2>2, SlotIs DEF Slot
<1> HIDE DEF t
<1>9. ASSUME NEW i \in 1..(k - 1)
      PROVE  View(p)[i] = t[i]
  <2>1. i \in 1..CharFIFO_SIZE /\ i + 1 \in 1..k /\ p.rd \in Slots
    BY <1>1, <1>2, <1>3 DEF Slots
  <2>2. Slot(p, i) = IF p.rd + i - 1 < CharFIFO_SIZE THEN p.rd + i - 1
                     ELSE p.rd + i - 1 - CharFIFO_SIZE
    BY <2>1, SlotIs DEF Slot
  <2>3. Slot(p, i) = Slot(u, i + 1)
    <3>1. Slot(u, i + 1) = IF u.rd + (i + 1) - 1 < CharFIFO_SIZE THEN u.rd + (i + 1) - 1
                           ELSE u.rd + (i + 1) - 1 - CharFIFO_SIZE
      BY <1>8, <2>1
    <3> QED
      BY <1>2, <1>3, <2>1, <2>2, <3>1 DEF Slots
  <2>4. View(p)[i] = KeyConversion(u.data[Slot(p, i)])
    BY <1>1, <1>4 DEF View
  <2>5. View(u)[i + 1] = KeyConversion(u.data[Slot(u, i + 1)])
    BY <1>8, <2>1
  <2> QED
    BY <1>6, <2>3, <2>4, <2>5
<1>10. View(p) = t
  BY <1>6, <1>7, <1>9, SeqEqual
<1>11. KeyConversion(u.data[u.rd]) = Head(View(u))
  <2>1. 1 \in 1..k /\ u.rd + 1 - 1 = u.rd /\ u.rd < CharFIFO_SIZE
    BY <1>2 DEF Slots
  <2>2. Slot(u, 1) = u.rd
    BY <1>8, <2>1
  <2>3. Head(View(u)) = View(u)[1]
    BY <1>5
  <2> QED
    BY <1>8, <2>1, <2>2, <2>3
<1> QED
  BY <1>5, <1>10, <1>11 DEF p, t

\* After a character is taken the flag says again whether any is left.
LEMMA PopShown ==
  ASSUME NEW u, Ring(u), ~u.empty
  PROVE  Shown(Popped(u)) = Tail(View(u)) /\ Hidden(Popped(u)) = << >>
<1> DEFINE p == Popped(u)
<1>1. Ring(p) /\ p.wr = u.wr /\ p.empty = (p.rd = u.wr) /\ View(p) = Tail(View(u))
  BY PopRing, PopView
<1> HIDE DEF p
<1>2. CASE p.empty
  <2>1. Count(p) = 0
    BY <1>1, <1>2, CountIs
  <2>2. View(p) = << >>
    BY <2>1 DEF View
  <2> QED
    BY <1>1, <1>2, <2>2 DEF Shown, Hidden, p
<1>3. CASE ~p.empty
  BY <1>1, <1>3 DEF Shown, Hidden, p
<1> QED
  BY <1>2, <1>3

\* What CharFifo holds in front of the next character lies between the cursors.
LEMMA HeldIsView ==
  ASSUME Ring(uart)
  PROVE  Fifo!Held = View(uart)
<1>1. CASE uart.empty
  BY <1>1, ReceivedIsView DEF Fifo!Held, Shown, Hidden
<1>2. CASE ~uart.empty
  <2>1. View(uart) # << >>
    BY <1>2, PopView
  <2> QED
    BY <1>2, <2>1, ReceivedIsView DEF Fifo!Held, Shown, Hidden
<1> QED
  BY <1>1, <1>2

\* What a poll does to the queue: a character that arrives is put at its end,
\* and a full FIFO drops it.
LEMMA PollView ==
  ASSUME NEW u, Ring(u), NEW ch \in Chars \cup {NoChar}
  PROVE  LET p == multicomp_console_rxpoll(u, ch)
         IN  \/ p = u
             \/ /\ ~p.empty
                /\ \E v \in Keys : Len(View(u)) < CharFIFO_SIZE /\ View(p) = Append(View(u), v)
<1> DEFINE p == multicomp_console_rxpoll(u, ch)
<1>1. CASE p = u
  BY <1>1
<1>2. CASE ch \in Chars /\ ~Full(u) /\ p = Push(u, ch)
  <2>1. KeyConversion(ch) \in Keys
    BY <1>2 DEF Keys
  <2>2. View(p) = Append(View(u), KeyConversion(ch)) /\ ~p.empty
    <3>1. View(Push(u, ch)) = Append(View(u), KeyConversion(ch))
      BY <1>2, PushView
    <3>2. Push(u, ch).empty = FALSE
      BY <1>2, PushRing
    <3> QED
      BY <1>2, <3>1, <3>2
  <2>3. Len(View(u)) < CharFIFO_SIZE
    BY <1>2, CountIs, ViewIsSeq
  <2> QED
    BY <2>1, <2>2, <2>3
<1> QED
  BY <1>1, <1>2, PollRing

FifoStep == [Fifo!CharNext]_<<Received, char, Stale>>

\* A poll alone, from the status register or from the main loop.
LEMMA PollRefines ==
  ASSUME Ring(uart), NEW ch \in Arrivals(uart),
         uart' = multicomp_console_rxpoll(uart, ch), char' = char
  PROVE  FifoStep
<1> DEFINE p == multicomp_console_rxpoll(uart, ch)
<1>1. ch \in Chars \cup {NoChar}
  BY ArrivalsTyped
<1>2. \/ p = uart
      \/ /\ ~p.empty
         /\ \E v \in Keys : Len(View(uart)) < CharFIFO_SIZE /\ View(p) = Append(View(uart), v)
  BY <1>1, PollView
<1> HIDE DEF p
<1>3. uart' = p
  BY DEF p
<1>4. /\ Received = Shown(uart) /\ Received' = Shown(p)
      /\ Stale = Hidden(uart) /\ Stale' = Hidden(p)
  BY <1>3, ReceivedIsView
<1>5. CASE p = uart
  BY <1>4, <1>5 DEF FifoStep
<1>6. CASE /\ ~p.empty
           /\ \E v \in Keys : Len(View(uart)) < CharFIFO_SIZE /\ View(p) = Append(View(uart), v)
  <2>1. Received' = View(p) /\ Stale' = << >>
    BY <1>4, <1>6 DEF Shown, Hidden
  <2>2. PICK v \in Keys : Len(Fifo!Held) < CharFIFO_SIZE /\ Received' = Append(Fifo!Held, v)
    BY <1>6, <2>1, HeldIsView
  <2>3. Fifo!CharPut(v)
    BY <2>1, <2>2 DEF Fifo!CharPut
  <2>4. v \in {KeyConversion(k) : k \in Chars}
    BY <2>2 DEF Keys
  <2> QED
    BY <2>3, <2>4 DEF Fifo!CharNext, FifoStep
<1> QED
  BY <1>2, <1>5, <1>6

\* A read of the data register: a poll, and then the oldest character.
LEMMA ReadDataRefines ==
  ASSUME Ring(uart), NEW next \in Code, ReadUartData(next)
  PROVE  FifoStep
<1>1. PICK ch \in Arrivals(uart) :
        LET u == multicomp_console_rxpoll(uart, ch)
        IN  IF u.empty THEN uart' = u /\ char' = char
            ELSE uart' = Popped(u) /\ char' = KeyConversion(u.data[u.rd])
  BY DEF ReadUartData
<1> DEFINE p == multicomp_console_rxpoll(uart, ch)
<1>2. ch \in Chars \cup {NoChar}
  BY ArrivalsTyped
<1>3. /\ Ring(p) /\ (p.empty => p = uart)
      /\ \/ p = uart
         \/ \E v \in Keys : Len(View(uart)) < CharFIFO_SIZE /\ View(p) = Append(View(uart), v)
  BY <1>2, PollRing, PollView
<1>4. IF p.empty THEN uart' = p /\ char' = char
      ELSE uart' = Popped(p) /\ char' = KeyConversion(p.data[p.rd])
  BY <1>1
<1> HIDE DEF p
<1>5. CASE p.empty
  BY <1>3, <1>4, <1>5, ReceivedIsView DEF FifoStep
<1>6. CASE ~p.empty
  <2>1. /\ View(p) # << >> /\ char' = Head(View(p))
        /\ Received' = Tail(View(p)) /\ Stale' = << >>
    <3>1. uart' = Popped(p) /\ char' = Head(View(p)) /\ View(p) # << >>
      BY <1>3, <1>4, <1>6, PopView
    <3>2. Received' = Shown(Popped(p)) /\ Stale' = Hidden(Popped(p))
      BY <3>1, ReceivedIsView
    <3> QED
      BY <1>3, <1>6, <3>1, <3>2, PopShown
  <2>2. CASE p = uart
    <3>1. Received = View(p)
      BY <1>6, <2>2, ReceivedIsView DEF Shown
    <3>2. Fifo!CharTake
      BY <2>1, <3>1 DEF Fifo!CharTake, Fifo!Take
    <3> QED
      BY <3>2 DEF Fifo!CharNext, FifoStep
  <2>3. CASE \E v \in Keys : Len(View(uart)) < CharFIFO_SIZE /\ View(p) = Append(View(uart), v)
    <3>1. PICK v \in Keys : Len(Fifo!Held) < CharFIFO_SIZE /\ View(p) = Append(Fifo!Held, v)
      BY <2>3, HeldIsView
    <3>2. Fifo!PutTake(v)
      BY <2>1, <3>1 DEF Fifo!PutTake
    <3>3. v \in {KeyConversion(k) : k \in Chars}
      BY <3>1 DEF Keys
    <3> QED
      BY <3>2, <3>3 DEF Fifo!CharNext, FifoStep
  <2> QED
    BY <1>3, <2>2, <2>3
<1> QED
  BY <1>5, <1>6

\* A store to the status register: a master reset empties the queue for the
\* guest, and leaves what lies between rd and slot 0.
LEMMA StoreRefines ==
  ASSUME Ring(uart), Ring(uart'), NEW next \in Code,
         ResetUart(next) \/ \E irq_enable \in BOOLEAN : WriteUartStatus(next, irq_enable)
  PROVE  FifoStep
<1>1. uart \in UartState
  BY DEF Ring
<1>2. CASE ResetUart(next)
  <2>1. uart'.empty = TRUE /\ char' = char
    BY <1>1, <1>2 DEF ResetUart, UartState
  <2>2. Received' = << >> /\ Stale' = View(uart')
    BY <2>1, ReceivedIsView DEF Shown, Hidden
  <2>3. ~Full(uart')
    BY <2>1 DEF Full
  <2>4. Len(Stale') < CharFIFO_SIZE
    BY <2>2, <2>3, CountIs, ViewIsSeq
  <2> QED
    BY <2>1, <2>2, <2>4 DEF Fifo!CharNext, Fifo!Reset, FifoStep
<1>3. CASE \E irq_enable \in BOOLEAN : WriteUartStatus(next, irq_enable)
  <2>1. PICK irq_enable \in BOOLEAN : WriteUartStatus(next, irq_enable)
    BY <1>3
  <2>2. /\ uart'.data = uart.data /\ uart'.rd = uart.rd /\ uart'.wr = uart.wr
        /\ uart'.empty = uart.empty /\ char' = char
    BY <1>1, <2>1 DEF WriteUartStatus, UartState
  <2>3. Shown(uart') = Shown(uart) /\ Hidden(uart') = Hidden(uart)
    BY <2>2 DEF Shown, Hidden, View, Count, Slot
  <2> QED
    BY <2>2, <2>3, ReceivedIsView DEF FifoStep
<1> QED
  BY <1>2, <1>3

\* Every step of a machine is a step of the queue or leaves it alone.
LEMMA MachineRefines ==
  ASSUME MachineSound, MachineSound', [MachineNext]_machine_vars
  PROVE  FifoStep
<1> USE DEF MachineSound
<1>1. ASSUME UNCHANGED <<uart, char>> PROVE FifoStep
  BY <1>1, ReceivedIsView DEF FifoStep
<1>2. CASE McOtherInsn \/ multicomp09_tick \/ UNCHANGED <<uart, mc_timer, batch_file, char>>
  BY <1>1, <1>2 DEF McOtherInsn, multicomp09_tick
<1>3. ASSUME NEW next \in Code, ReadUartStatus(next)
      PROVE  FifoStep
  BY <1>3, PollRefines DEF ReadUartStatus
<1>4. ASSUME NEW next \in Code, NEW bits \in SUBSET {"enable", "irq"}, WriteTimer(next, bits)
      PROVE  FifoStep
  BY <1>1, <1>4 DEF WriteTimer
<1>5. CASE multicomp09_console_update
  BY <1>5, PollRefines DEF multicomp09_console_update
<1>6. CASE McNext
  BY <1>2, <1>3, <1>4, <1>5, <1>6, ReadDataRefines, StoreRefines DEF McNext
<1>7. CASE UNCHANGED machine_vars
  BY <1>1, <1>7 DEF machine_vars, mc_vars
<1> QED
  BY <1>2, <1>6, <1>7 DEF MachineNext

\* Two cursors and a flag are a bounded queue, for every size of the FIFO and
\* whatever polls it; a master reset, wherever the read cursor is, empties it
\* for the guest, and the next character brings back what lay between rd and
\* slot 0, after which it is a queue again.
THEOREM UartIsFifo == MachineSpec => UartImplementsFifo
<1>1. MachineInit => Fifo!Init /\ Stale = << >>
  <2> SUFFICES ASSUME MachineInit PROVE Fifo!Init /\ Stale = << >>
    OBVIOUS
  <2>1. uart.empty = TRUE /\ uart.wr = 0 /\ uart.rd = 0 /\ char = NoChar
    BY DEF MachineInit, McInit
  <2>2. Received = << >> /\ Stale = << >>
    BY <2>1, ReceivedIsView DEF Shown, Hidden, View, Count
  <2> QED
    BY <2>1, <2>2 DEF Fifo!Init
<1>2. MachineSound /\ MachineSound' /\ [MachineNext]_machine_vars
        => [Fifo!CharNext]_<<Received, char, Stale>>
  BY MachineRefines DEF FifoStep
<1> QED
  BY <1>1, <1>2, MachineAlways, PTL DEF MachineSpec, UartImplementsFifo, Fifo!CharSpec

=============================================================================
