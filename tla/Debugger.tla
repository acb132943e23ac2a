------------------------------ MODULE Debugger ------------------------------
(***************************************************************************)
(* The monitor of the simulator: the table of breakpoints and watchpoints  *)
(* and the commands of src/src/command.c, the hooks the bus and the        *)
(* instruction loop call, and the ways a running guest comes back to the   *)
(* prompt: a breakpoint, a watchpoint, a finished step, an elapsed runfor, *)
(* an error of the simulation, and SIGINT (src/src/monitor.c), which may   *)
(* arrive between any two of the steps below.                              *)
(*                                                                         *)
(* One turn of the loop of cpu_execute (src/src/6809.c) is                 *)
(*   "head"    command_insn_hook, check_break, and monitor6809 if asked;   *)
(*   "prompt"  the command loop inside monitor6809;                        *)
(*   "exec"    the instruction, with its accesses to memory;               *)
(*   "idle"    between two calls of cpu_execute (src/src/main.c).          *)
(* "quit" and "crashed" are final.                                         *)
(*                                                                         *)
(* Abstracted: what the instructions compute, the text of commands and of  *)
(* conditions (an evaluation yields either result), the display list, the  *)
(* trace buffer, and threads (no command makes an entry threaded).  The    *)
(* simulator runs with debugging enabled (-d).                             *)
(***************************************************************************)
EXTENDS Integers, FiniteSets

CONSTANTS
  Addr,           \* absolute addresses in use
  Byte,           \* values the guest stores
  MaxBreaks,      \* MAX_BREAKS, the size of breaktab
  BreakOptions,   \* options the operator gives to "break": "if", "ignore"
  WatchOptions,   \* options given to "watch" and its kin: "print", "mask", "if"
  Counts,         \* arguments given to "step"
  Times           \* arguments given to "runfor", in ms

ASSUME AddrAssumption   == 0 \in Addr
ASSUME ByteAssumption   == 0 \in Byte
ASSUME BreaksAssumption == MaxBreaks \in Nat \ {0}
ASSUME OptionAssumption ==
  BreakOptions \subseteq {"if", "ignore"} /\ WatchOptions \subseteq {"print", "mask", "if"}
ASSUME NumberAssumption == Counts \subseteq Int /\ Times \subseteq Nat

Ids    == 0..(MaxBreaks - 1)
Phases == {"head", "prompt", "exec", "idle", "quit", "crashed"}

\* breakpoint_t; "ignore N" is given with N = 1, "mask" with a mask that tells
\* all values in use apart.
Breakpoint == [used : BOOLEAN, enabled : BOOLEAN, conditional : BOOLEAN,
               on_read : BOOLEAN, on_write : BOOLEAN, on_execute : BOOLEAN,
               keep_running : BOOLEAN, temp : BOOLEAN, write_mask : BOOLEAN,
               last_write : Byte, ignore_count : 0..1, addr : Addr]

VARIABLES
  dbg,     \* the globals of command.c and monitor.c, and three histories
  pc,      \* to_absolute (get_pc ())
  phase,
  asked,   \* history: what the last "step" asked for
  ran,     \* history: instructions executed since, while the step counted
  lost     \* history: turns counted since that executed no instruction

vars == <<dbg, pc, phase, asked, ran, lost>>

\* Histories: "due", a stop was requested since the prompt was last left;
\* "muted", a print-only entry was hit since the last such request; "doubled",
\* the addresses given to an entry while another one in use had them.
Globals == [breaktab : [Ids -> Breakpoint], active_break_count : Int,
            monitor_on : BOOLEAN, auto_break_insn_count : Int,
            stop_after_ms : Int, due : BOOLEAN, muted : BOOLEAN, doubled : SUBSET Addr]

-----------------------------------------------------------------------------
(* The table. *)

\* Every change of "enabled" is counted, a repeated one is not.
brk_enable(d, n, flag) ==
  IF d.breaktab[n].enabled = flag THEN d
  ELSE [d EXCEPT !.breaktab[n].enabled = flag,
                 !.active_break_count = @ + (IF flag THEN 1 ELSE -1)]

Unused(d) == {n \in Ids : ~d.breaktab[n].used}

\* The entry brkalloc takes: the first unused one.
FirstUnused(d, n) == n \in Unused(d) /\ \A m \in Unused(d) : n <= m

\* What brkalloc resets; on_read, on_write, write_mask and last_write keep the
\* values of the entry's previous life.
brkalloc(d, n) ==
  brk_enable([d EXCEPT !.breaktab[n] =
                [@ EXCEPT !.used = TRUE, !.conditional = FALSE, !.keep_running = FALSE,
                          !.ignore_count = 0, !.temp = FALSE, !.on_execute = FALSE]], n, TRUE)

\* The address stays behind.
brkfree(d, n) == [brk_enable(d, n, FALSE) EXCEPT !.breaktab[n].used = FALSE]

\* Mutant: freeing an entry that is not enabled is counted too.
FreeAll_counts_all(d, S) ==
  [d EXCEPT
     !.breaktab = [n \in Ids |-> IF n \in S
                                 THEN [d.breaktab[n] EXCEPT !.used = FALSE, !.enabled = FALSE]
                                 ELSE d.breaktab[n]],
     !.active_break_count = @ - Cardinality(S)]

\* brkfree of every entry of S.
FreeAll(d, S) ==
  [d EXCEPT
     !.breaktab = [n \in Ids |-> IF n \in S
                                 THEN [d.breaktab[n] EXCEPT !.used = FALSE, !.enabled = FALSE]
                                 ELSE d.breaktab[n]],
     !.active_break_count = @ - Cardinality({n \in S : d.breaktab[n].enabled})]

\* Mutant: temporary entries survive.
brkfree_temps_not(d) == d

brkfree_temps(d) == FreeAll(d, {n \in Ids : d.breaktab[n].used /\ d.breaktab[n].temp})

\* Mutant: the last entry with this address.
brkfind_by_addr_last(d, a) ==
  {n \in Ids : /\ d.breaktab[n].addr = a
               /\ \A m \in Ids : d.breaktab[m].addr = a => n >= m}

\* The first entry with this address, in use or not: at most one.
brkfind_by_addr(d, a) ==
  {n \in Ids : /\ d.breaktab[n].addr = a
               /\ \A m \in Ids : d.breaktab[m].addr = a => n <= m}

-----------------------------------------------------------------------------
(* The hooks.  "holds" is what evaluating the entry's condition yields. *)

\* The code asks for the prompt.
Stop(d) == [d EXCEPT !.monitor_on = TRUE, !.due = TRUE, !.muted = FALSE]

\* Mutant: an ignored hit clears monitor_on.
breakpoint_hit_clears(d, n, holds) ==
  LET br == d.breaktab[n]
  IN  IF br.conditional /\ ~holds THEN d
      ELSE IF br.ignore_count > 0
      THEN [d EXCEPT !.breaktab[n].ignore_count = @ - 1, !.monitor_on = FALSE]
      ELSE [d EXCEPT !.monitor_on = ~br.keep_running,
                     !.due = @ \/ ~br.keep_running, !.muted = br.keep_running]

breakpoint_hit(d, n, holds) ==
  LET br == d.breaktab[n]
  IN  IF br.conditional /\ ~holds THEN d
      ELSE IF br.ignore_count > 0 THEN [d EXCEPT !.breaktab[n].ignore_count = @ - 1]
      ELSE [d EXCEPT !.monitor_on = ~br.keep_running,
                     !.due = @ \/ ~br.keep_running, !.muted = br.keep_running]

\* The entry at a that a hook considers, none while nothing is enabled.
Live(d, a) ==
  {n \in brkfind_by_addr(d, a) : d.active_break_count # 0 /\ d.breaktab[n].enabled}

command_insn_hook(d, a, holds) ==
  LET hit == {n \in Live(d, a) : d.breaktab[n].on_execute}
      n   == CHOOSE m \in hit : TRUE
      h   == breakpoint_hit(d, n, holds)
  IN  IF hit = {} THEN d
      ELSE IF h.monitor_on /\ h.breaktab[n].temp THEN brkfree(h, n) ELSE h

command_read_hook(d, a, holds) ==
  LET hit == {n \in Live(d, a) : d.breaktab[n].on_read}
  IN  IF hit = {} THEN d ELSE breakpoint_hit(d, CHOOSE n \in hit : TRUE, holds)

\* A masked watchpoint remembers the value and triggers only on a change.
command_write_hook(d, a, val, holds) ==
  LET hit == {n \in Live(d, a) : d.breaktab[n].on_write}
      n   == CHOOSE m \in hit : TRUE
      br  == d.breaktab[n]
      w   == [d EXCEPT !.breaktab[n].last_write = IF br.write_mask THEN val ELSE @]
  IN  IF hit = {} THEN d
      ELSE IF br.write_mask /\ br.last_write = val THEN w
      ELSE breakpoint_hit(w, n, holds)

\* Mutant: a turn that stops for another reason is not counted.
check_break_uncounted(d) ==
  IF d.auto_break_insn_count <= 0 \/ d.monitor_on THEN d
  ELSE [d EXCEPT !.auto_break_insn_count = @ - 1,
                 !.monitor_on = @ \/ d.auto_break_insn_count = 1]


\* Counts a step down; the instruction loop asks for the prompt at its end.
check_break(d) ==
  IF d.auto_break_insn_count <= 0 THEN d
  ELSE [d EXCEPT !.auto_break_insn_count = @ - 1,
                 !.monitor_on = @ \/ d.auto_break_insn_count = 1]

command_periodic(d) ==
  IF d.stop_after_ms = 0 THEN d
  ELSE IF d.stop_after_ms <= 100
  THEN Stop([d EXCEPT !.stop_after_ms = 0])
  ELSE [d EXCEPT !.stop_after_ms = @ - 100]

-----------------------------------------------------------------------------
(* The loop of cpu_execute and the main loop. *)

\* command_loop begins with brkfree_temps.
LoopHead(holds) ==
  /\ phase = "head"
  /\ LET d == check_break(command_insn_hook(dbg, pc, holds))
     IN  IF d.monitor_on
         THEN phase' = "prompt" /\ dbg' = brkfree_temps(d)
         ELSE phase' = "exec" /\ dbg' = d
  /\ UNCHANGED <<pc, asked, ran, lost>>

\* One access of the instruction in progress, through cpu_read8/16 or cpu_write8.
ReadAccess(a, holds) ==
  /\ phase = "exec"
  /\ dbg' = command_read_hook(dbg, a, holds)
  /\ UNCHANGED <<pc, phase, asked, ran, lost>>

WriteAccess(a, val, holds) ==
  /\ phase = "exec"
  /\ dbg' = command_write_hook(dbg, a, val, holds)
  /\ UNCHANGED <<pc, phase, asked, ran, lost>>

\* sim_error: an access fault, an invalid opcode.
SimError ==
  /\ phase = "exec"
  /\ dbg' = Stop(dbg)
  /\ UNCHANGED <<pc, phase, asked, ran, lost>>

Counting == IF dbg.auto_break_insn_count > 0 THEN 1 ELSE 0

\* The end of the instruction; the loop goes on while cpu_clk > 0.
Retire(next) ==
  /\ phase = "exec"
  /\ pc' = next
  /\ phase' \in {"head", "idle"}
  /\ ran' = ran + Counting
  /\ UNCHANGED <<dbg, asked, lost>>

\* idle_loop calls command_periodic every 100 ms of simulated time.
Idle(elapsed) ==
  /\ phase = "idle"
  /\ dbg' = IF elapsed THEN command_periodic(dbg) ELSE dbg
  /\ phase' = "head"
  /\ UNCHANGED <<pc, asked, ran, lost>>

\* SIGINT.  At the prompt it has no effect that outlives the prompt.
monitor_signal ==
  /\ phase \in {"head", "prompt", "exec", "idle"}
  /\ dbg' = Stop(dbg)
  /\ UNCHANGED <<pc, phase, asked, ran, lost>>

-----------------------------------------------------------------------------
(* The commands. *)

\* monitor6809 returns.
Closed(d) == [d EXCEPT !.monitor_on = FALSE, !.due = FALSE, !.muted = FALSE]

\* exit_command_loop = 0: monitor6809 clears monitor_on and the instruction at
\* PC is executed without another look at the table.
Resume(d) == phase' = "exec" /\ dbg' = Closed(d)

Stay(d) == phase' = "prompt" /\ dbg' = d

\* No entry is left: brkalloc returns NULL, which every caller dereferences.
Crash == Unused(dbg) = {} /\ phase' = "crashed" /\ UNCHANGED dbg

\* The history when an entry is given the address a.
Doubled(d, a) ==
  d.doubled \cup {b \in {a} : \E n \in Ids : d.breaktab[n].used /\ d.breaktab[n].addr = b}

cmd_break(a, option) ==
  /\ phase = "prompt"
  /\ \/ Crash
     \/ \E n \in Ids :
          /\ FirstUnused(dbg, n)
          /\ Stay([brkalloc(dbg, n) EXCEPT !.doubled = Doubled(dbg, a), !.breaktab[n] =
                     [@ EXCEPT !.addr         = a,
                               !.on_execute   = TRUE,
                               !.conditional  = (option = "if"),
                               !.ignore_count = IF option = "ignore" THEN 1 ELSE 0]])
  /\ UNCHANGED <<pc, asked, ran, lost>>

\* watch, rwatch and awatch.
cmd_watch1(a, on_read, on_write, options) ==
  /\ phase = "prompt"
  /\ \/ Crash
     \/ \E n \in Ids :
          LET br == brkalloc(dbg, n).breaktab[n]
          IN  /\ FirstUnused(dbg, n)
              /\ Stay([brkalloc(dbg, n) EXCEPT !.doubled = Doubled(dbg, a), !.breaktab[n] =
                         [br EXCEPT !.addr         = a,
                                    !.on_read      = on_read,
                                    !.on_write     = on_write,
                                    !.keep_running = ("print" \in options),
                                    !.write_mask   = @ \/ "mask" \in options,
                                    !.conditional  = ("if" \in options)]])
  /\ UNCHANGED <<pc, asked, ran, lost>>

\* "delete" of one entry or of all.
cmd_delete(S) ==
  /\ phase = "prompt"
  /\ Stay(FreeAll(dbg, S))
  /\ UNCHANGED <<pc, asked, ran, lost>>

\* A temporary breakpoint at a, in state d, and go.
RunTo(d, a) ==
  \/ Crash
  \/ \E n \in Ids :
       /\ FirstUnused(d, n)
       /\ Resume([brkalloc(d, n) EXCEPT !.doubled = Doubled(d, a), !.breaktab[n] =
                    [@ EXCEPT !.addr = a, !.on_execute = TRUE, !.temp = TRUE]])

\* a is the address of the instruction after the one at PC.
cmd_next(a) ==
  /\ phase = "prompt"
  /\ RunTo(dbg, a)
  /\ UNCHANGED <<pc, asked, ran, lost>>

\* Stacks PC at s, sets a temporary breakpoint there and calls "function".
cmd_measure(s, val, function, holds) ==
  /\ phase = "prompt"
  /\ RunTo(command_write_hook(dbg, s, val, holds), pc)
  /\ pc' = IF phase' = "exec" THEN function ELSE pc
  /\ UNCHANGED <<asked, ran, lost>>

cmd_step(count) ==
  /\ phase = "prompt"
  /\ asked' = IF count = 0 THEN 1 ELSE count
  /\ ran' = 0 /\ lost' = 0
  /\ Resume([dbg EXCEPT !.auto_break_insn_count = asked'])
  /\ UNCHANGED pc

cmd_continue ==
  /\ phase = "prompt"
  /\ Resume(dbg)
  /\ UNCHANGED <<pc, asked, ran, lost>>

\* A time of 0 is refused, after it has replaced the previous one.
cmd_runfor(ms) ==
  /\ phase = "prompt"
  /\ LET d == [dbg EXCEPT !.stop_after_ms = ms]
     IN  IF ms = 0 THEN Stay(d) ELSE Resume(d)
  /\ UNCHANGED <<pc, asked, ran, lost>>

\* "pc", and "reset", which reads the vector at a through the bus.
cmd_pc(addr) ==
  /\ phase = "prompt"
  /\ pc' = addr
  /\ UNCHANGED <<dbg, phase, asked, ran, lost>>

reset(a, addr, holds) ==
  /\ phase = "prompt"
  /\ pc' = addr
  /\ dbg' = command_read_hook(dbg, a, holds)
  /\ UNCHANGED <<phase, asked, ran, lost>>

\* Quit leaves cpu_execute and the main loop.
cmd_quit ==
  /\ phase = "prompt"
  /\ phase' = "quit"
  /\ dbg' = Closed(dbg)
  /\ UNCHANGED <<pc, asked, ran, lost>>

\* End of input: cpu_execute returns as for quit, but the main loop goes on;
\* this turn has executed no instruction.
EndOfInput ==
  /\ phase = "prompt"
  /\ phase' = "idle"
  /\ dbg' = Closed(dbg)
  /\ lost' = lost + Counting
  /\ UNCHANGED <<pc, asked, ran>>

-----------------------------------------------------------------------------
\* breaktab is zero-initialised; monitor_init opens the prompt at once (-d).
Init ==
  /\ dbg = [breaktab |-> [n \in Ids |->
              [used |-> FALSE, enabled |-> FALSE, conditional |-> FALSE,
               on_read |-> FALSE, on_write |-> FALSE, on_execute |-> FALSE,
               keep_running |-> FALSE, temp |-> FALSE, write_mask |-> FALSE,
               last_write |-> 0, ignore_count |-> 0, addr |-> 0]],
            active_break_count |-> 0, monitor_on |-> TRUE,
            auto_break_insn_count |-> 0, stop_after_ms |-> 0, due |-> FALSE, muted |-> FALSE,
            doubled |-> {}]
  /\ pc \in Addr
  /\ phase = "head"
  /\ asked = 0 /\ ran = 0 /\ lost = 0

Commands ==
  \/ \E a \in Addr :
       \/ \E option \in BreakOptions \cup {"none"} : cmd_break(a, option)
       \/ \E rw \in {<<FALSE, TRUE>>, <<TRUE, FALSE>>, <<TRUE, TRUE>>},
             options \in SUBSET WatchOptions : cmd_watch1(a, rw[1], rw[2], options)
       \/ cmd_next(a) \/ cmd_pc(a)
       \/ \E f \in Addr, val \in Byte, holds \in BOOLEAN : cmd_measure(a, val, f, holds)
       \/ \E f \in Addr, holds \in BOOLEAN : reset(a, f, holds)
  \/ \E n \in Ids : cmd_delete({n})
  \/ cmd_delete(Ids)
  \/ \E count \in Counts : cmd_step(count)
  \/ \E ms \in Times : cmd_runfor(ms)
  \/ cmd_continue \/ cmd_quit \/ EndOfInput

Next ==
  \/ Commands
  \/ \E holds \in BOOLEAN :
       \/ LoopHead(holds)
       \/ \E a \in Addr :
            \/ ReadAccess(a, holds)
            \/ \E val \in Byte : WriteAccess(a, val, holds)
  \/ SimError
  \/ \E next \in Addr : Retire(next)
  \/ \E elapsed \in BOOLEAN : Idle(elapsed)
  \/ monitor_signal

Spec == Init /\ [][Next]_vars

\* The loops of cpu_execute and main go on: an instruction ends, its slice of
\* cycles is used up sooner or later, and simulated time passes.
FairSpec ==
  /\ Spec
  /\ WF_vars(\E holds \in BOOLEAN : LoopHead(holds))
  /\ WF_vars(\E next \in Addr : Retire(next))
  /\ SF_vars(\E next \in Addr : Retire(next) /\ phase' = "idle")
  /\ WF_vars(\E elapsed \in BOOLEAN : Idle(elapsed))
  /\ SF_vars(Idle(TRUE))

-----------------------------------------------------------------------------
(* Properties. *)

\* The table, the globals and the phase keep their types.
TypeOK ==
  /\ dbg \in Globals
  /\ pc \in Addr
  /\ phase \in Phases
  /\ asked \in Int /\ ran \in Nat /\ lost \in Nat

\* active_break_count, which lets the hooks return early, is the number of
\* enabled entries after any sequence of commands and hits.
CountAgrees ==
  dbg.active_break_count = Cardinality({n \in Ids : dbg.breaktab[n].enabled})

\* However the guest came to stop, no temporary breakpoint of an earlier "next"
\* or "measure" is left: brkalloc finds the table full, and its caller crashes,
\* only when the operator's own entries fill it.
NoTempAtPrompt ==
  phase \in {"prompt", "crashed"} =>
    \A n \in Ids : dbg.breaktab[n].used => ~dbg.breaktab[n].temp

\* While a step is counted down, what is left of it, the instructions executed
\* since and the turns that ended at the end of input without executing one add
\* up to what was asked for, across breakpoints, prompts and "continue".
StepExact ==
  dbg.auto_break_insn_count > 0 =>
    ran + lost + dbg.auto_break_insn_count = asked + (IF phase \in {"head", "idle"} THEN 1 ELSE 0)

\* A requested stop (breakpoint, watchpoint, SIGINT, runfor, error) is not
\* forgotten: unless a print-only watchpoint is hit after it, the head of the
\* loop leads to the prompt and never to the execution of another instruction.
NoStopLost == [][phase = "head" /\ dbg.due /\ ~dbg.muted => phase' # "exec"]_vars

\* A listed breakpoint, neither conditional nor ignored, that sits at PC.
Armed(n) ==
  LET br == dbg.breaktab[n]
  IN  br.used /\ br.on_execute /\ ~br.conditional /\ br.ignore_count = 0 /\ br.addr = pc

\* The guest does not run through a breakpoint that "blist" shows, whatever
\* entries were freed and taken again, unless its address was at some time
\* given to two entries.
BreakpointStops ==
  [][phase = "head" /\ (\E n \in Ids : Armed(n)) /\ pc \notin dbg.doubled => phase' # "exec"]_vars

=============================================================================
