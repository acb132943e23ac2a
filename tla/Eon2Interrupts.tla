--------------------------- MODULE Eon2Interrupts ---------------------------
(***************************************************************************)
(* The interrupt path of the eon2 machine: the oscillator (src/src/        *)
(* timer.c), which counts the CPU's cycles and pulses line 0 of the        *)
(* interrupt multiplexer (src/src/imux.c), which drives the IRQ input of   *)
(* the CPU as source 1.  The main loop of src/src/main.c runs the CPU for  *)
(* a slice of cycles and then updates the devices; the guest's stores to   *)
(* the multiplexer change the CPU's lines in the middle of an instruction. *)
(***************************************************************************)
EXTENDS CpuInterrupts

CONSTANTS
  Lines,      \* input lines of the multiplexer; the oscillator is line 0
  Reload,     \* the oscillator's reload register, in cycles
  MaxSlice,   \* most cycles between two calls of machine_update
  MaxCycles   \* cycles counted by the history variables (model bound)

Osc == 0       \* int_line of the oscillator
MuxSource == 1 \* cpu_line given to imux_create: IRQ

ASSUME LinesAssumption  == Osc \in Lines /\ MuxSource \in Sources
ASSUME ReloadAssumption == Reload \in Nat \ {0} /\ MaxSlice \in 1..Reload
ASSUME CyclesAssumption == MaxCycles \in Nat

VARIABLES
  enabled,   \* struct imux
  pending,
  count,     \* struct hwtimer of the oscillator
  elapsed,   \* history: cycles the oscillator has been told of
  pulses     \* history: how often it asserted its line

mux       == <<enabled, pending>>
osc       == <<count, elapsed, pulses>>
eon2_vars == <<cpu, enabled, pending, count, elapsed, pulses>>

-----------------------------------------------------------------------------
(* imux.c *)

\* What imux_refresh does to processor c.
imux_refresh(c, pend, enb) ==
  IF pend \cap enb # {} THEN request_irq(c, MuxSource) ELSE release_irq(c, MuxSource)

imux_assert(c, line) ==
  /\ pending' = pending \cup {line}
  /\ Becomes(imux_refresh(c, pending', enabled))
  /\ UNCHANGED enabled

\* A guest instruction that stores to IMUX_ENB or IMUX_PEND.
imux_write(next, lines) ==
  /\ AtInsn
  /\ \/ enabled' = lines /\ UNCHANGED pending
     \/ pending' = pending \ lines /\ UNCHANGED enabled
  /\ Becomes(EndInsn(imux_refresh(Fetched(next), pending', enabled')))
  /\ UNCHANGED osc

-----------------------------------------------------------------------------
(* timer.c *)

\* Mutant: the cycles by which the slice overran the period are forgotten.
Reloaded_afresh(left) == IF left < 0 THEN Reload ELSE left

\* hwtimer_decrement's new value of the counter: only a negative one has the
\* reload value added.
Reloaded(left) == IF left < 0 THEN left + Reload ELSE left

\* machine_update calls hwtimer_update with the cycles since the last call.
hwtimer_update(cycles) ==
  /\ elapsed + cycles <= MaxCycles
  /\ elapsed' = elapsed + cycles
  /\ count' = Reloaded(count - cycles)
  /\ \/ /\ count - cycles <= 0
        /\ pulses' = pulses + 1
        /\ imux_assert(cpu, Osc)
     \/ /\ count - cycles > 0
        /\ UNCHANGED <<cpu, mux, pulses>>

\* Instructions that leave the multiplexer alone.
OtherInsn ==
  /\ \/ \E next \in Code :
          PlainInsn(next) \/ \E flags \in SUBSET Flags : SetCCInsn(next, flags)
     \/ \E g \in OtherBytes : RtiInsn(g)
  /\ UNCHANGED <<mux, osc>>

\* imux_reset, oscillator_reset and cpu_reset.
Eon2Init ==
  /\ Init
  /\ enabled = {} /\ pending = {}
  /\ count = Reload
  /\ elapsed = 0 /\ pulses = 0

Eon2Next ==
  \/ OtherInsn
  \/ \E next \in Code, lines \in SUBSET Lines : imux_write(next, lines)
  \/ \E cycles \in 1..MaxSlice : hwtimer_update(cycles)

Eon2Spec == Eon2Init /\ [][Eon2Next]_eon2_vars

-----------------------------------------------------------------------------
(* Properties. *)

\* The CPU sees the multiplexer's request exactly while an enabled line is
\* pending, however stores to it and pulses of the oscillator interleave.
LineFollowsMux == (MuxSource \in cpu.irqs) <=> (pending \cap enabled # {})

\* Slices of at most a period never make the oscillator skip a pulse, and its
\* counter stays within one period: the error hwtimer_decrement reports for a
\* count that is still negative after the reload is unreachable.
NoPulseMissed == pulses >= elapsed \div Reload /\ count \in 0..Reload
=============================================================================
