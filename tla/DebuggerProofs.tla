--------------------------- MODULE DebuggerProofs ---------------------------
(***************************************************************************)
(* Proofs about the debugger, for every size of the breakpoint table and   *)
(* every sequence of commands, accesses and signals.                       *)
(***************************************************************************)
EXTENDS Debugger, FiniteSetTheorems, TLAPS

Enabled(d) == {n \in Ids : d.breaktab[n].enabled}

\* What the functions of command.c preserve.  An entry is enabled exactly while
\* it is in use, which is why the count can be kept by brkalloc and brkfree; a
\* breakpoint is never print-only, so the head of the loop takes back no stop;
\* and where an address was never given to two entries the first entry at the
\* address of one in use is that one, also among those that are freed, since
\* brkalloc takes the lowest entry.
Good(d) ==
  /\ d \in Globals
  /\ d.active_break_count = Cardinality(Enabled(d))
  /\ \A n \in Ids : d.breaktab[n].enabled <=> d.breaktab[n].used
  /\ \A n \in Ids : d.breaktab[n].used /\ d.breaktab[n].on_execute => ~d.breaktab[n].keep_running
  /\ d.due /\ ~d.muted => d.monitor_on
  /\ \A m, n \in Ids : m < n /\ d.breaktab[n].used /\ d.breaktab[m].addr = d.breaktab[n].addr
                        => d.breaktab[n].addr \in d.doubled

\* The inductive invariant.
Inv ==
  /\ Good(dbg)
  /\ pc \in Addr /\ phase \in Phases /\ asked \in Int /\ ran \in Nat /\ lost \in Nat
  /\ NoTempAtPrompt
  /\ StepExact

-----------------------------------------------------------------------------
(* The functions. *)

LEMMA FiniteIds ==
  ASSUME NEW S \in SUBSET Ids
  PROVE  IsFiniteSet(S) /\ Cardinality(S) \in Nat
<1>1. IsFiniteSet(Ids)
  BY BreaksAssumption, FS_Interval DEF Ids
<1>2. IsFiniteSet(S)
  BY <1>1, FS_Subset
<1> QED
  BY <1>2, FS_CardinalityType

\* What a hook may do without freeing an entry: it leaves alone what tells the
\* entries apart, and either leaves monitor_on alone or sets it for one entry.
Touched(d, e) ==
  /\ e \in Globals
  /\ e.active_break_count = d.active_break_count
  /\ e.auto_break_insn_count = d.auto_break_insn_count
  /\ e.doubled = d.doubled
  /\ \A n \in Ids :
       /\ e.breaktab[n].used = d.breaktab[n].used
       /\ e.breaktab[n].enabled = d.breaktab[n].enabled
       /\ e.breaktab[n].temp = d.breaktab[n].temp
       /\ e.breaktab[n].on_execute = d.breaktab[n].on_execute
       /\ e.breaktab[n].keep_running = d.breaktab[n].keep_running
       /\ e.breaktab[n].addr = d.breaktab[n].addr
  /\ \/ e.monitor_on = d.monitor_on /\ e.due = d.due /\ e.muted = d.muted
     \/ \E n \in Ids : /\ e.monitor_on = ~d.breaktab[n].keep_running
                       /\ e.due = (d.due \/ ~d.breaktab[n].keep_running)
                       /\ e.muted = d.breaktab[n].keep_running

LEMMA TouchedGood ==
  ASSUME NEW d, Good(d), NEW e, Touched(d, e)
  PROVE  Good(e)
<1>1. Enabled(e) = Enabled(d)
  BY DEF Touched, Enabled
<1>2. e \in Globals /\ e.active_break_count = Cardinality(Enabled(e))
  BY <1>1 DEF Good, Touched
<1>3. /\ \A n \in Ids : e.breaktab[n].enabled <=> e.breaktab[n].used
      /\ \A n \in Ids : e.breaktab[n].used /\ e.breaktab[n].on_execute => ~e.breaktab[n].keep_running
  BY DEF Good, Touched
<1>4. e.due /\ ~e.muted => e.monitor_on
  BY DEF Good, Touched
<1>5. ASSUME NEW m \in Ids, NEW n \in Ids, m < n, e.breaktab[n].used,
             e.breaktab[m].addr = e.breaktab[n].addr
      PROVE  e.breaktab[n].addr \in e.doubled
  BY <1>5 DEF Good, Touched
<1> QED
  BY <1>2, <1>3, <1>4, <1>5 DEF Good

\* A change of the other fields of one entry.
LEMMA EntryTouched ==
  ASSUME NEW d \in Globals, NEW n \in Ids, NEW b \in Breakpoint,
         LET br == d.breaktab[n]
         IN  /\ b.used = br.used /\ b.enabled = br.enabled /\ b.temp = br.temp
             /\ b.on_execute = br.on_execute /\ b.keep_running = br.keep_running
             /\ b.addr = br.addr
  PROVE  Touched(d, [d EXCEPT !.breaktab[n] = b])
<1> DEFINE e == [d EXCEPT !.breaktab[n] = b]
<1>1. e \in Globals
  BY DEF Globals
<1>2. \A m \in Ids : e.breaktab[m] = IF m = n THEN b ELSE d.breaktab[m]
  BY DEF Globals
<1>3. /\ e.active_break_count = d.active_break_count
      /\ e.auto_break_insn_count = d.auto_break_insn_count
      /\ e.monitor_on = d.monitor_on /\ e.due = d.due
      /\ e.muted = d.muted /\ e.doubled = d.doubled
  BY DEF Globals
<1> HIDE DEF e
<1>4. Touched(d, e)
  BY <1>1, <1>2, <1>3 DEF Touched
<1> QED
  BY <1>4 DEF e

LEMMA TouchedTwice ==
  ASSUME NEW d, NEW w, NEW e, Touched(d, w), Touched(w, e),
         w.monitor_on = d.monitor_on, w.due = d.due, w.muted = d.muted
  PROVE  Touched(d, e)
<1>1. \/ e.monitor_on = d.monitor_on /\ e.due = d.due /\ e.muted = d.muted
      \/ \E n \in Ids : /\ e.monitor_on = ~d.breaktab[n].keep_running
                        /\ e.due = (d.due \/ ~d.breaktab[n].keep_running)
                        /\ e.muted = d.breaktab[n].keep_running
  <2>1. CASE e.monitor_on = w.monitor_on /\ e.due = w.due /\ e.muted = w.muted
    BY <2>1
  <2>2. CASE \E n \in Ids : /\ e.monitor_on = ~w.breaktab[n].keep_running
                            /\ e.due = (w.due \/ ~w.breaktab[n].keep_running)
                            /\ e.muted = w.breaktab[n].keep_running
    <3>1. PICK n \in Ids : /\ e.monitor_on = ~w.breaktab[n].keep_running
                           /\ e.due = (w.due \/ ~w.breaktab[n].keep_running)
                           /\ e.muted = w.breaktab[n].keep_running
      BY <2>2
    <3>2. w.breaktab[n].keep_running = d.breaktab[n].keep_running
      BY DEF Touched
    <3> QED
      BY <3>1, <3>2
  <2> QED
    BY <2>1, <2>2 DEF Touched
<1>2. \A n \in Ids :
        /\ e.breaktab[n].used = d.breaktab[n].used
        /\ e.breaktab[n].enabled = d.breaktab[n].enabled
        /\ e.breaktab[n].temp = d.breaktab[n].temp
        /\ e.breaktab[n].on_execute = d.breaktab[n].on_execute
        /\ e.breaktab[n].keep_running = d.breaktab[n].keep_running
        /\ e.breaktab[n].addr = d.breaktab[n].addr
  BY DEF Touched
<1> QED
  BY <1>1, <1>2 DEF Touched

LEMMA HitTouches ==
  ASSUME NEW d \in Globals, NEW n \in Ids, NEW holds \in BOOLEAN
  PROVE  Touched(d, breakpoint_hit(d, n, holds))
<1> DEFINE br == d.breaktab[n]
<1>0. br \in Breakpoint
  BY DEF Globals
<1>1. CASE br.conditional /\ ~holds
  BY <1>1 DEF breakpoint_hit, Touched
<1>2. CASE ~(br.conditional /\ ~holds) /\ br.ignore_count > 0
  <2> DEFINE b == [br EXCEPT !.ignore_count = @ - 1]
  <2>1. breakpoint_hit(d, n, holds) = [d EXCEPT !.breaktab[n] = b]
    BY <1>2 DEF breakpoint_hit
  <2>2. br.ignore_count - 1 \in 0..1
    BY <1>0, <1>2 DEF Breakpoint
  <2>3. b \in Breakpoint
    BY <1>0, <2>2 DEF Breakpoint
  <2>4. /\ b.used = br.used /\ b.enabled = br.enabled /\ b.temp = br.temp
        /\ b.on_execute = br.on_execute /\ b.keep_running = br.keep_running
        /\ b.addr = br.addr
    BY <1>0 DEF Breakpoint
  <2> HIDE DEF b
  <2>5. Touched(d, [d EXCEPT !.breaktab[n] = b])
    BY <2>3, <2>4, EntryTouched
  <2> QED
    BY <2>1, <2>5
<1>3. CASE ~(br.conditional /\ ~holds) /\ ~(br.ignore_count > 0)
  <2> DEFINE e == [d EXCEPT !.monitor_on = ~br.keep_running, !.due = @ \/ ~br.keep_running,
                       !.muted = br.keep_running]
  <2>1. breakpoint_hit(d, n, holds) = e
    BY <1>3 DEF breakpoint_hit
  <2>2. e \in Globals
    BY <1>0 DEF Globals, Breakpoint
  <2> QED
    BY <2>1, <2>2 DEF Touched, Globals
<1> QED
  BY <1>1, <1>2, <1>3

\* An entry that is not print-only takes back no stop.
LEMMA HitKeepsStop ==
  ASSUME NEW d \in Globals, NEW n \in Ids, NEW holds \in BOOLEAN, ~d.breaktab[n].keep_running
  PROVE  LET h == breakpoint_hit(d, n, holds)
         IN  d.due /\ ~d.muted => h.due /\ ~h.muted
<1> DEFINE br == d.breaktab[n]
<1>1. CASE br.conditional /\ ~holds
  BY <1>1 DEF breakpoint_hit
<1>2. CASE ~(br.conditional /\ ~holds) /\ br.ignore_count > 0
  <2>1. breakpoint_hit(d, n, holds) = [d EXCEPT !.breaktab[n].ignore_count = @ - 1]
    BY <1>2 DEF breakpoint_hit
  <2> QED
    BY <2>1 DEF Globals
<1>3. CASE ~(br.conditional /\ ~holds) /\ ~(br.ignore_count > 0)
  <2>1. breakpoint_hit(d, n, holds)
        = [d EXCEPT !.monitor_on = ~br.keep_running, !.due = @ \/ ~br.keep_running,
                    !.muted = br.keep_running]
    BY <1>3 DEF breakpoint_hit
  <2> QED
    BY <2>1 DEF Globals
<1> QED
  BY <1>1, <1>2, <1>3

\* At most one entry is the first at an address.
LEMMA LiveEntry ==
  ASSUME NEW d, NEW a, NEW n \in Live(d, a)
  PROVE  /\ n \in Ids /\ d.breaktab[n].enabled /\ d.breaktab[n].addr = a
         /\ \A m \in Live(d, a) : m = n
<1>1. \A m \in Live(d, a) : m <= n /\ n <= m /\ m \in Int
  BY BreaksAssumption DEF Live, brkfind_by_addr, Ids
<1> QED
  BY <1>1 DEF Live, brkfind_by_addr

LEMMA ReadHookTouches ==
  ASSUME NEW d \in Globals, NEW a, NEW holds \in BOOLEAN
  PROVE  Touched(d, command_read_hook(d, a, holds))
<1> DEFINE hit == {n \in Live(d, a) : d.breaktab[n].on_read}
<1>1. CASE hit = {}
  BY <1>1 DEF command_read_hook, Touched
<1>2. CASE hit # {}
  <2>1. (CHOOSE n \in hit : TRUE) \in Ids
    BY <1>2, LiveEntry
  <2> QED
    BY <1>2, <2>1, HitTouches DEF command_read_hook
<1> QED
  BY <1>1, <1>2

LEMMA WriteHookTouches ==
  ASSUME NEW d \in Globals, NEW a, NEW val \in Byte, NEW holds \in BOOLEAN
  PROVE  Touched(d, command_write_hook(d, a, val, holds))
<1> DEFINE hit == {n \in Live(d, a) : d.breaktab[n].on_write}
           n   == CHOOSE m \in hit : TRUE
           br  == d.breaktab[n]
           w   == [d EXCEPT !.breaktab[n].last_write = IF br.write_mask THEN val ELSE @]
<1>1. CASE hit = {}
  <2>1. command_write_hook(d, a, val, holds) = d
    BY <1>1, ZenonT(60) DEF command_write_hook
  <2> QED
    BY <2>1 DEF Touched
<1>2. CASE hit # {}
  <2>1. n \in Ids
    BY <1>2, LiveEntry
  <2> HIDE DEF n
  <2> DEFINE b == [br EXCEPT !.last_write = IF br.write_mask THEN val ELSE @]
  <2>2. br \in Breakpoint /\ b \in Breakpoint
    BY <2>1 DEF Globals, Breakpoint
  <2>3. /\ b.used = br.used /\ b.enabled = br.enabled /\ b.temp = br.temp
        /\ b.on_execute = br.on_execute /\ b.keep_running = br.keep_running
        /\ b.addr = br.addr
    BY <2>2 DEF Breakpoint
  <2>5. w = [d EXCEPT !.breaktab[n] = b]
    OBVIOUS
  <2>6. Touched(d, w)
    BY <2>1, <2>2, <2>3, <2>5, EntryTouched
  <2>4. Touched(w, breakpoint_hit(w, n, holds))
    <3>1. w \in Globals
      BY <2>6 DEF Touched
    <3> HIDE DEF w
    <3> QED
      BY <2>1, <3>1, HitTouches
  <2>7. Touched(d, breakpoint_hit(w, n, holds))
    <3>1. w.monitor_on = d.monitor_on /\ w.due = d.due /\ w.muted = d.muted
      BY DEF Globals
    <3> QED
      BY <2>6, <2>4, <3>1, TouchedTwice
  <2> QED
    <3>1. command_write_hook(d, a, val, holds) \in {w, breakpoint_hit(w, n, holds)}
      BY <1>2, ZenonT(60) DEF command_write_hook, n
    <3> QED
      BY <2>6, <2>7, <3>1, ZenonT(60)
<1> QED
  BY <1>1, <1>2

\* What freeing the entries of S leaves.
Freed(d, S, e) ==
  /\ e \in Globals
  /\ e.active_break_count = d.active_break_count - Cardinality({n \in S : d.breaktab[n].enabled})
  /\ e.auto_break_insn_count = d.auto_break_insn_count
  /\ e.monitor_on = d.monitor_on /\ e.due = d.due /\ e.muted = d.muted /\ e.doubled = d.doubled
  /\ \A n \in Ids :
       /\ e.breaktab[n].used <=> d.breaktab[n].used /\ n \notin S
       /\ e.breaktab[n].enabled <=> d.breaktab[n].enabled /\ n \notin S
       /\ e.breaktab[n].temp = d.breaktab[n].temp
       /\ e.breaktab[n].on_execute = d.breaktab[n].on_execute
       /\ e.breaktab[n].keep_running = d.breaktab[n].keep_running
       /\ e.breaktab[n].addr = d.breaktab[n].addr

LEMMA FreeAllFrees ==
  ASSUME NEW d \in Globals, NEW S \in SUBSET Ids
  PROVE  Freed(d, S, FreeAll(d, S))
<1> DEFINE e == FreeAll(d, S)
           freed(n) == [d.breaktab[n] EXCEPT !.used = FALSE, !.enabled = FALSE]
           table == [n \in Ids |-> IF n \in S THEN freed(n) ELSE d.breaktab[n]]
           count == d.active_break_count - Cardinality({n \in S : d.breaktab[n].enabled})
<1>1. \A n \in Ids : d.breaktab[n] \in Breakpoint
  BY DEF Globals
<1>2. \A n \in Ids : /\ freed(n) \in Breakpoint
                     /\ ~freed(n).used /\ ~freed(n).enabled
                     /\ freed(n).temp = d.breaktab[n].temp
                     /\ freed(n).on_execute = d.breaktab[n].on_execute
                     /\ freed(n).keep_running = d.breaktab[n].keep_running
                     /\ freed(n).addr = d.breaktab[n].addr
  BY <1>1 DEF Breakpoint
<1> HIDE DEF freed
<1>3. table \in [Ids -> Breakpoint]
  BY <1>1, <1>2
<1>4. count \in Int
  <2>1. {n \in S : d.breaktab[n].enabled} \in SUBSET Ids
    OBVIOUS
  <2>2. Cardinality({n \in S : d.breaktab[n].enabled}) \in Nat
    BY <2>1, FiniteIds
  <2> QED
    BY <2>2 DEF Globals
<1>5. e = [d EXCEPT !.breaktab = table, !.active_break_count = count]
  BY DEF FreeAll, freed
<1> HIDE DEF table, count
<1>6. /\ e \in Globals
      /\ e.breaktab = table /\ e.active_break_count = count
      /\ e.auto_break_insn_count = d.auto_break_insn_count
      /\ e.monitor_on = d.monitor_on /\ e.due = d.due /\ e.muted = d.muted /\ e.doubled = d.doubled
  BY <1>3, <1>4, <1>5 DEF Globals
<1> HIDE DEF e
<1>7. ASSUME NEW n \in Ids
      PROVE  /\ e.breaktab[n].used <=> d.breaktab[n].used /\ n \notin S
             /\ e.breaktab[n].enabled <=> d.breaktab[n].enabled /\ n \notin S
             /\ e.breaktab[n].temp = d.breaktab[n].temp
             /\ e.breaktab[n].on_execute = d.breaktab[n].on_execute
             /\ e.breaktab[n].keep_running = d.breaktab[n].keep_running
             /\ e.breaktab[n].addr = d.breaktab[n].addr
  <2>1. CASE n \in S
    <3>1. e.breaktab[n] = freed(n)
      BY <1>6, <2>1 DEF table
    <3> QED
      BY <1>2, <2>1, <3>1
  <2>2. CASE n \notin S
    <3>1. e.breaktab[n] = d.breaktab[n]
      BY <1>6, <2>2 DEF table
    <3> QED
      BY <2>2, <3>1
  <2> QED
    BY <2>1, <2>2
<1>8. Freed(d, S, e)
  BY <1>6, <1>7 DEF count, Freed
<1> QED
  BY <1>8 DEF e

LEMMA FreedGood ==
  ASSUME NEW d, Good(d), NEW S \in SUBSET Ids, NEW e, Freed(d, S, e)
  PROVE  Good(e)
<1>2. /\ e \in Globals
      /\ e.active_break_count = d.active_break_count - Cardinality({n \in S : d.breaktab[n].enabled})
      /\ e.monitor_on = d.monitor_on /\ e.due = d.due /\ e.muted = d.muted /\ e.doubled = d.doubled
  BY DEF Freed
<1>3. \A n \in Ids :
        /\ e.breaktab[n].used <=> d.breaktab[n].used /\ n \notin S
        /\ e.breaktab[n].enabled <=> d.breaktab[n].enabled /\ n \notin S
        /\ e.breaktab[n].on_execute = d.breaktab[n].on_execute
        /\ e.breaktab[n].keep_running = d.breaktab[n].keep_running
        /\ e.breaktab[n].addr = d.breaktab[n].addr
  BY DEF Freed
<1>4. e.active_break_count = Cardinality(Enabled(e))
  <2>1. Enabled(e) = Enabled(d) \ S /\ {n \in S : d.breaktab[n].enabled} = Enabled(d) \cap S
    BY <1>3 DEF Enabled
  <2>2. IsFiniteSet(Enabled(d))
    BY FiniteIds DEF Enabled
  <2>3. Cardinality(Enabled(d) \ S) = Cardinality(Enabled(d)) - Cardinality(Enabled(d) \cap S)
    BY <2>2, FS_Difference
  <2> QED
    BY <1>2, <2>1, <2>3 DEF Good
<1>5. /\ \A n \in Ids : e.breaktab[n].enabled <=> e.breaktab[n].used
      /\ \A n \in Ids : e.breaktab[n].used /\ e.breaktab[n].on_execute => ~e.breaktab[n].keep_running
  BY <1>3 DEF Good
<1>6. e.due /\ ~e.muted => e.monitor_on
  BY <1>2 DEF Good
<1>7. ASSUME NEW m \in Ids, NEW n \in Ids, m < n, e.breaktab[n].used,
             e.breaktab[m].addr = e.breaktab[n].addr
      PROVE  e.breaktab[n].addr \in e.doubled
  BY <1>2, <1>3, <1>7 DEF Good
<1> QED
  BY <1>2, <1>4, <1>5, <1>6, <1>7 DEF Good

\* brkfree of an entry in use is FreeAll of it alone.
LEMMA BrkfreeIsFreeAll ==
  ASSUME NEW d \in Globals, NEW n \in Ids, d.breaktab[n].enabled
  PROVE  brkfree(d, n) = FreeAll(d, {n})
<1> DEFINE freed == [d.breaktab[n] EXCEPT !.used = FALSE, !.enabled = FALSE]
<1>1. brkfree(d, n) = [d EXCEPT !.breaktab = [d.breaktab EXCEPT ![n] = freed],
                                !.active_break_count = d.active_break_count - 1]
  BY DEF brkfree, brk_enable, Globals, Breakpoint
<1>2. {m \in {n} : d.breaktab[m].enabled} = {n}
  OBVIOUS
<1>3. Cardinality({n}) = 1
  BY FS_Singleton
<1>4. [d.breaktab EXCEPT ![n] = freed]
      = [m \in Ids |-> IF m \in {n} THEN [d.breaktab[m] EXCEPT !.used = FALSE, !.enabled = FALSE]
                       ELSE d.breaktab[m]]
  BY DEF Globals
<1> QED
  BY <1>1, <1>2, <1>3, <1>4 DEF FreeAll

\* An entry taken by brkalloc and filled in by a command.
LEMMA AllocGood ==
  ASSUME NEW d, Good(d), NEW n \in Ids, FirstUnused(d, n),
         NEW b \in Breakpoint, b.used, b.enabled,
         b.on_execute => ~b.keep_running
  PROVE  Good([d EXCEPT !.breaktab[n] = b, !.active_break_count = @ + 1,
                        !.doubled = Doubled(d, b.addr)])
<1> DEFINE D == Doubled(d, b.addr)
           e == [d EXCEPT !.breaktab[n] = b, !.active_break_count = @ + 1, !.doubled = D]
<1>0. d \in Globals
  BY DEF Good
<1>1. /\ e \in Globals
      /\ e.active_break_count = d.active_break_count + 1
      /\ e.monitor_on = d.monitor_on /\ e.due = d.due /\ e.muted = d.muted /\ e.doubled = D
  <2>1. [d.breaktab EXCEPT ![n] = b] \in [Ids -> Breakpoint] /\ d.active_break_count + 1 \in Int
    BY <1>0 DEF Globals
  <2>2. b.addr \in Addr
    BY DEF Breakpoint
  <2>3. D \in SUBSET Addr
    BY <1>0, <2>2 DEF Globals, Doubled
  <2> HIDE DEF D
  <2> QED
    BY <1>0, <2>1, <2>3 DEF Globals
<1>2. \A m \in Ids : e.breaktab[m] = IF m = n THEN b ELSE d.breaktab[m]
  BY <1>0 DEF Globals
<1> HIDE DEF e
<1>3. ~d.breaktab[n].used /\ \A m \in Ids : m < n => d.breaktab[m].used
  BY BreaksAssumption DEF FirstUnused, Unused, Ids
<1>4. e.active_break_count = Cardinality(Enabled(e))
  <2>1. n \notin Enabled(d) /\ Enabled(e) = Enabled(d) \cup {n}
    BY <1>2, <1>3 DEF Enabled, Good
  <2>2. IsFiniteSet(Enabled(d))
    BY FiniteIds DEF Enabled
  <2>3. Cardinality(Enabled(d) \cup {n}) = Cardinality(Enabled(d)) + 1
    BY <2>1, <2>2, FS_AddElement
  <2> QED
    BY <1>1, <2>1, <2>3 DEF Good
<1>5. /\ \A m \in Ids : e.breaktab[m].enabled <=> e.breaktab[m].used
      /\ \A m \in Ids : e.breaktab[m].used /\ e.breaktab[m].on_execute => ~e.breaktab[m].keep_running
  BY <1>2 DEF Good
<1>6. e.due /\ ~e.muted => e.monitor_on
  BY <1>1 DEF Good
<1>7. ASSUME NEW l \in Ids, NEW m \in Ids, l < m, e.breaktab[m].used,
             e.breaktab[l].addr = e.breaktab[m].addr
      PROVE  e.breaktab[m].addr \in e.doubled
  <2>1. CASE m = n
    <3>1. l # n /\ d.breaktab[l].used
      BY <1>3, <1>7, <2>1, BreaksAssumption DEF Ids
    <3>2. e.breaktab[m].addr = b.addr /\ d.breaktab[l].addr = b.addr
      BY <1>2, <1>7, <2>1, <3>1
    <3> QED
      BY <1>1, <3>1, <3>2 DEF Doubled
  <2>2. CASE l = n
    <3>1. m # n /\ d.breaktab[m].used /\ d.breaktab[m].addr = b.addr /\ e.breaktab[m].addr = b.addr
      BY <1>2, <1>7, <2>2, BreaksAssumption DEF Ids
    <3> QED
      BY <1>1, <3>1 DEF Doubled
  <2>3. CASE l # n /\ m # n
    <3>1. d.breaktab[m].addr \in d.doubled /\ e.breaktab[m] = d.breaktab[m]
      BY <1>2, <1>7, <2>3 DEF Good
    <3> QED
      BY <1>1, <3>1 DEF Doubled
  <2> QED
    BY <2>1, <2>2, <2>3
<1>8. Good(e)
  BY <1>1, <1>4, <1>5, <1>6, <1>7 DEF Good
<1> QED
  BY <1>8 DEF e

\* What is left when the table is not touched at all.
LEMMA TableKept ==
  ASSUME NEW d, Good(d), NEW e \in Globals, e.breaktab = d.breaktab,
         e.active_break_count = d.active_break_count,
         e.doubled = d.doubled, e.due /\ ~e.muted => e.monitor_on
  PROVE  Good(e)
<1>1. Enabled(e) = Enabled(d)
  BY DEF Enabled
<1> QED
  BY <1>1 DEF Good

LEMMA CheckBreakGood ==
  ASSUME NEW d, Good(d)
  PROVE  LET e == check_break(d)
         IN  /\ Good(e)
             /\ e.auto_break_insn_count =
                  IF d.auto_break_insn_count > 0 THEN d.auto_break_insn_count - 1
                                                 ELSE d.auto_break_insn_count
             /\ d.monitor_on => e.monitor_on
<1>1. d \in Globals /\ d.auto_break_insn_count \in Int /\ d.monitor_on \in BOOLEAN
  BY DEF Good, Globals
<1>2. CASE d.auto_break_insn_count <= 0
  BY <1>1, <1>2 DEF check_break
<1>3. CASE d.auto_break_insn_count > 0
  <2> DEFINE on == d.monitor_on \/ d.auto_break_insn_count = 1
             e  == [d EXCEPT !.auto_break_insn_count = d.auto_break_insn_count - 1, !.monitor_on = on]
  <2>1. check_break(d) = e
    BY <1>1, <1>3 DEF check_break
  <2>2. on \in BOOLEAN /\ d.auto_break_insn_count - 1 \in Int /\ (d.monitor_on => on)
    BY <1>1
  <2> HIDE DEF on
  <2>3. /\ e \in Globals /\ e.breaktab = d.breaktab /\ e.active_break_count = d.active_break_count
        /\ e.auto_break_insn_count = d.auto_break_insn_count - 1
        /\ e.monitor_on = on /\ e.due = d.due /\ e.muted = d.muted /\ e.doubled = d.doubled
    BY <1>1, <2>2 DEF Globals
  <2> HIDE DEF e
  <2>4. e.due /\ ~e.muted => e.monitor_on
    BY <2>2, <2>3 DEF Good
  <2>5. Good(e)
    BY <2>3, <2>4, TableKept
  <2> QED
    BY <1>1, <1>3, <2>1, <2>2, <2>3, <2>5
<1> QED
  BY <1>1, <1>2, <1>3

\* A stop is requested.
LEMMA SignalGood ==
  ASSUME NEW d, Good(d)
  PROVE  Good(Stop(d)) /\ Stop(d).auto_break_insn_count = d.auto_break_insn_count
         /\ Stop(d).breaktab = d.breaktab
<1> DEFINE e == Stop(d)
<1>1. d \in Globals
  BY DEF Good
<1>2. /\ e \in Globals /\ e.breaktab = d.breaktab /\ e.active_break_count = d.active_break_count
      /\ e.monitor_on = TRUE /\ e.doubled = d.doubled
      /\ e.auto_break_insn_count = d.auto_break_insn_count
  BY <1>1 DEF Globals, Stop
<1> HIDE DEF e
<1>3. Good(e)
  BY <1>2, TableKept
<1> QED
  BY <1>2, <1>3 DEF e

\* monitor6809 returns, perhaps after a new count or time was set.
LEMMA ClosedGood ==
  ASSUME NEW d, Good(d)
  PROVE  Good(Closed(d)) /\ Closed(d).auto_break_insn_count = d.auto_break_insn_count
<1>1. d \in Globals
  BY DEF Good
<1>2. /\ Closed(d) \in Globals /\ Closed(d).breaktab = d.breaktab
      /\ Closed(d).active_break_count = d.active_break_count /\ Closed(d).due = FALSE
      /\ Closed(d).doubled = d.doubled
      /\ Closed(d).auto_break_insn_count = d.auto_break_insn_count
  BY <1>1 DEF Globals, Closed
<1> QED
  BY <1>2, TableKept

LEMMA CountSetGood ==
  ASSUME NEW d, Good(d), NEW count \in Int
  PROVE  /\ Good([d EXCEPT !.auto_break_insn_count = count])
         /\ Good([d EXCEPT !.stop_after_ms = count])
<1>1. d \in Globals
  BY DEF Good
<1>2. ASSUME NEW e \in {[d EXCEPT !.auto_break_insn_count = count], [d EXCEPT !.stop_after_ms = count]}
      PROVE  Good(e)
  <2>1. /\ e \in Globals /\ e.breaktab = d.breaktab /\ e.active_break_count = d.active_break_count
        /\ e.monitor_on = d.monitor_on /\ e.due = d.due /\ e.muted = d.muted /\ e.doubled = d.doubled
    BY <1>1, <1>2 DEF Globals
  <2>2. e.due /\ ~e.muted => e.monitor_on
    BY <2>1 DEF Good
  <2> QED
    BY <2>1, <2>2, TableKept
<1> QED
  BY <1>2

LEMMA PeriodicGood ==
  ASSUME NEW d, Good(d)
  PROVE  /\ Good(command_periodic(d))
         /\ command_periodic(d).auto_break_insn_count = d.auto_break_insn_count
<1>1. d \in Globals /\ d.stop_after_ms \in Int
  BY DEF Good, Globals
<1>2. CASE d.stop_after_ms = 0
  BY <1>2 DEF command_periodic
<1>3. CASE d.stop_after_ms # 0 /\ d.stop_after_ms <= 100
  <2> DEFINE c == [d EXCEPT !.stop_after_ms = 0]
  <2>1. command_periodic(d) = Stop(c)
    BY <1>3 DEF command_periodic
  <2>2. Good(c) /\ c.auto_break_insn_count = d.auto_break_insn_count
    <3>1. 0 \in Int
      OBVIOUS
    <3>2. Good(c)
      BY <3>1, CountSetGood
    <3>3. c.auto_break_insn_count = d.auto_break_insn_count
      BY <1>1 DEF Globals
    <3> QED
      BY <3>2, <3>3
  <2> HIDE DEF c
  <2> QED
    BY <2>1, <2>2, SignalGood
<1>4. CASE d.stop_after_ms # 0 /\ ~(d.stop_after_ms <= 100)
  <2> DEFINE e == [d EXCEPT !.stop_after_ms = d.stop_after_ms - 100]
  <2>1. command_periodic(d) = e
    BY <1>4 DEF command_periodic
  <2>2. /\ e \in Globals /\ e.breaktab = d.breaktab /\ e.active_break_count = d.active_break_count
        /\ e.monitor_on = d.monitor_on /\ e.due = d.due /\ e.muted = d.muted /\ e.doubled = d.doubled
        /\ e.auto_break_insn_count = d.auto_break_insn_count
    BY <1>1 DEF Globals
  <2> HIDE DEF e
  <2>3. e.due /\ ~e.muted => e.monitor_on
    BY <2>2 DEF Good
  <2> QED
    BY <2>1, <2>2, <2>3, TableKept
<1> QED
  BY <1>2, <1>3, <1>4

\* The hook before an instruction: a stop that is due stays due, and if a
\* breakpoint that is neither conditional nor ignored is at the address, and
\* the address was not given to two entries, it is found and asks for the prompt.
LEMMA InsnHookGood ==
  ASSUME NEW d, Good(d), NEW a \in Addr, NEW holds \in BOOLEAN
  PROVE  LET e == command_insn_hook(d, a, holds)
         IN  /\ Good(e)
             /\ e.auto_break_insn_count = d.auto_break_insn_count
             /\ d.due /\ ~d.muted => e.monitor_on
             /\ (a \notin d.doubled /\ \E n \in Ids :
                    /\ d.breaktab[n].used /\ d.breaktab[n].on_execute /\ ~d.breaktab[n].conditional
                    /\ d.breaktab[n].ignore_count = 0 /\ d.breaktab[n].addr = a) => e.monitor_on
<1> DEFINE hit == {n \in Live(d, a) : d.breaktab[n].on_execute}
           n   == CHOOSE m \in hit : TRUE
           h   == breakpoint_hit(d, n, holds)
           e   == command_insn_hook(d, a, holds)
<1>0. d \in Globals
  BY DEF Good
<1>1. CASE hit = {}
  <2>1. e = d
    BY <1>1 DEF command_insn_hook
  <2>2. ASSUME a \notin d.doubled, NEW m \in Ids, d.breaktab[m].used, d.breaktab[m].on_execute,
               d.breaktab[m].addr = a
        PROVE  FALSE
    <3>1. m \in brkfind_by_addr(d, a)
      <4>1. \A l \in Ids : l < m => d.breaktab[l].addr # a
        BY <2>2 DEF Good
      <4> QED
        BY <2>2, <4>1, BreaksAssumption DEF brkfind_by_addr, Ids
    <3>2. m \in Enabled(d) /\ IsFiniteSet(Enabled(d))
      BY <2>2, FiniteIds DEF Good, Enabled
    <3>3. d.active_break_count # 0
      BY <3>2, FS_EmptySet DEF Good
    <3>4. m \in Live(d, a)
      BY <3>1, <3>2, <3>3 DEF Live, Enabled
    <3> QED
      BY <1>1, <2>2, <3>4
  <2> QED
    BY <2>1, <2>2 DEF Good
<1>2. CASE hit # {}
  <2>1. n \in hit
    BY <1>2
  <2>2. n \in Ids /\ d.breaktab[n].enabled /\ d.breaktab[n].addr = a /\ d.breaktab[n].on_execute
    BY <2>1, LiveEntry
  <2>3. e = IF h.monitor_on /\ h.breaktab[n].temp THEN brkfree(h, n) ELSE h
    BY <1>2 DEF command_insn_hook
  <2> HIDE DEF n, h, e
  <2>4. Touched(d, h)
    BY <1>0, <2>2, HitTouches DEF h
  <2>5. Good(h) /\ h \in Globals /\ h.breaktab[n].enabled
    BY <2>2, <2>4, TouchedGood DEF Touched
  <2>6. h.auto_break_insn_count = d.auto_break_insn_count /\ (d.due /\ ~d.muted => h.monitor_on)
    <3>1. ~d.breaktab[n].keep_running
      BY <2>2 DEF Good
    <3>2. d.due /\ ~d.muted => h.due /\ ~h.muted
      BY <1>0, <2>2, <3>1, HitKeepsStop DEF h
    <3> QED
      BY <2>4, <2>5, <3>2 DEF Touched, Good
  <2>7. ASSUME a \notin d.doubled, NEW m \in Ids, d.breaktab[m].used, d.breaktab[m].on_execute,
               ~d.breaktab[m].conditional, d.breaktab[m].ignore_count = 0, d.breaktab[m].addr = a
        PROVE  h.monitor_on
    <3>1. m = n
      <4>1. d.breaktab[n].used /\ m \in Int /\ n \in Int
        BY <2>2, BreaksAssumption DEF Good, Ids
      <4>2. ~(m < n) /\ ~(n < m)
        BY <2>2, <2>7, <4>1 DEF Good
      <4> QED
        BY <4>1, <4>2
    <3>2. ~d.breaktab[n].keep_running
      BY <2>7, <3>1 DEF Good
    <3>3. h = [d EXCEPT !.monitor_on = ~d.breaktab[n].keep_running,
                        !.due = @ \/ ~d.breaktab[n].keep_running,
                        !.muted = d.breaktab[n].keep_running]
      BY <2>7, <3>1 DEF h, breakpoint_hit
    <3> QED
      BY <1>0, <3>2, <3>3 DEF Globals
  <2>8. CASE h.monitor_on /\ h.breaktab[n].temp
    <3>1. e = FreeAll(h, {n}) /\ {n} \in SUBSET Ids
      BY <2>2, <2>3, <2>5, <2>8, BrkfreeIsFreeAll
    <3>2. Freed(h, {n}, e)
      BY <2>5, <3>1, FreeAllFrees
    <3>3. Good(e)
      BY <2>5, <3>1, <3>2, FreedGood
    <3>4. /\ e.auto_break_insn_count = h.auto_break_insn_count
          /\ e.monitor_on = h.monitor_on /\ e.due = h.due
      BY <3>2 DEF Freed
    <3> QED
      BY <2>6, <2>7, <3>3, <3>4 DEF e
  <2>9. CASE ~(h.monitor_on /\ h.breaktab[n].temp)
    BY <2>3, <2>5, <2>6, <2>7, <2>9 DEF e
  <2> QED
    BY <2>8, <2>9
<1> QED
  BY <1>1, <1>2

\* The entry brkalloc hands out.
Fresh(b) ==
  [b EXCEPT !.used = TRUE, !.conditional = FALSE, !.keep_running = FALSE,
            !.ignore_count = 0, !.temp = FALSE, !.on_execute = FALSE]

LEMMA FreshEntry ==
  ASSUME NEW b \in Breakpoint
  PROVE  LET f == [Fresh(b) EXCEPT !.enabled = TRUE]
         IN  /\ Fresh(b).enabled = b.enabled
             /\ f \in Breakpoint
             /\ f.used /\ f.enabled /\ ~f.keep_running /\ ~f.temp /\ ~f.on_execute
<1> DEFINE c == [b EXCEPT !.used = TRUE, !.conditional = FALSE, !.keep_running = FALSE]
           f == [Fresh(b) EXCEPT !.enabled = TRUE]
<1>1. Fresh(b) = [c EXCEPT !.ignore_count = 0, !.temp = FALSE, !.on_execute = FALSE]
  BY DEF Fresh
<1>2. c \in Breakpoint /\ c.used /\ ~c.keep_running /\ c.enabled = b.enabled
  BY DEF Breakpoint
<1> HIDE DEF c
<1>3. 0 \in 0..1
  OBVIOUS
<1>4. Fresh(b) \in Breakpoint
  BY <1>1, <1>2, <1>3 DEF Breakpoint
<1>5. /\ Fresh(b).used /\ ~Fresh(b).keep_running /\ ~Fresh(b).temp /\ ~Fresh(b).on_execute
      /\ Fresh(b).enabled = b.enabled
  BY <1>1, <1>2 DEF Breakpoint
<1>6. f \in Breakpoint
  BY <1>4 DEF Breakpoint
<1>7. f.used /\ f.enabled /\ ~f.keep_running /\ ~f.temp /\ ~f.on_execute
  BY <1>4, <1>5 DEF Breakpoint
<1> QED
  BY <1>5, <1>6, <1>7

LEMMA AllocForm ==
  ASSUME NEW d, Good(d), NEW n \in Ids, FirstUnused(d, n)
  PROVE  /\ d.breaktab[n] \in Breakpoint
         /\ brkalloc(d, n) = [d EXCEPT !.breaktab[n] = [Fresh(d.breaktab[n]) EXCEPT !.enabled = TRUE],
                                       !.active_break_count = d.active_break_count + 1]
<1> DEFINE b == d.breaktab[n]
           x == [d EXCEPT !.breaktab[n] = Fresh(b)]
<1>1. d \in Globals /\ b \in Breakpoint /\ ~b.enabled
  BY DEF Good, Globals, FirstUnused, Unused
<1>2. ~Fresh(b).enabled
  BY <1>1, FreshEntry
<1>3. brkalloc(d, n) = brk_enable(x, n, TRUE)
  BY DEF brkalloc, Fresh
<1>4. x.breaktab[n] = Fresh(b) /\ x.active_break_count = d.active_break_count
  BY <1>1 DEF Globals
<1>5. brk_enable(x, n, TRUE)
      = [x EXCEPT !.breaktab[n].enabled = TRUE, !.active_break_count = d.active_break_count + 1]
  BY <1>2, <1>4 DEF brk_enable
<1>6. [x EXCEPT !.breaktab[n].enabled = TRUE, !.active_break_count = d.active_break_count + 1]
      = [d EXCEPT !.breaktab[n] = [Fresh(b) EXCEPT !.enabled = TRUE],
                  !.active_break_count = d.active_break_count + 1]
  BY <1>1 DEF Globals
<1> QED
  BY <1>1, <1>3, <1>5, <1>6

\* What a command is given.
LEMMA AllocGives ==
  ASSUME NEW d, Good(d), NEW n \in Ids, FirstUnused(d, n)
  PROVE  LET f == brkalloc(d, n).breaktab[n]
         IN  /\ f \in Breakpoint /\ f.used /\ f.enabled
             /\ ~f.keep_running /\ ~f.temp /\ ~f.on_execute
<1> DEFINE g == [Fresh(d.breaktab[n]) EXCEPT !.enabled = TRUE]
<1>1. /\ d \in Globals /\ d.breaktab[n] \in Breakpoint
      /\ brkalloc(d, n) = [d EXCEPT !.breaktab[n] = g, !.active_break_count = d.active_break_count + 1]
  BY AllocForm DEF Good
<1>2. /\ g \in Breakpoint /\ g.used /\ g.enabled
      /\ ~g.keep_running /\ ~g.temp /\ ~g.on_execute
  BY <1>1, FreshEntry
<1> HIDE DEF g
<1>3. brkalloc(d, n).breaktab[n] = g
  BY <1>1 DEF Globals
<1> QED
  BY <1>2, <1>3

\* The globals when a command has filled the entry n in as b.
Filled(d, n, b) ==
  [brkalloc(d, n) EXCEPT !.doubled = Doubled(d, b.addr), !.breaktab[n] = b]

LEMMA AllocFill ==
  ASSUME NEW d, Good(d), NEW n \in Ids, FirstUnused(d, n), NEW b
  PROVE  Filled(d, n, b)
         = [d EXCEPT !.breaktab[n] = b, !.active_break_count = @ + 1, !.doubled = Doubled(d, b.addr)]
<1> DEFINE g == [Fresh(d.breaktab[n]) EXCEPT !.enabled = TRUE]
           count == d.active_break_count + 1
           D == Doubled(d, b.addr)
<1>1. d \in Globals /\ brkalloc(d, n) = [d EXCEPT !.breaktab[n] = g, !.active_break_count = count]
  BY AllocForm DEF Good
<1> HIDE DEF g, count, D
<1>2. [brkalloc(d, n) EXCEPT !.doubled = D, !.breaktab[n] = b]
      = [d EXCEPT !.breaktab[n] = b, !.active_break_count = count, !.doubled = D]
  BY <1>1 DEF Globals
<1> QED
  BY <1>2 DEF count, D, Filled

\* What a command makes of the entry it was given.
LEMMA AllocEntry ==
  ASSUME NEW d, Good(d), NEW n \in Ids, FirstUnused(d, n),
         NEW b \in Breakpoint, b.used, b.enabled, b.on_execute => ~b.keep_running
  PROVE  LET e == Filled(d, n, b)
         IN  /\ Good(e)
             /\ e.auto_break_insn_count = d.auto_break_insn_count
             /\ \A m \in Ids : e.breaktab[m] = IF m = n THEN b ELSE d.breaktab[m]
<1> DEFINE D == Doubled(d, b.addr)
           e == [d EXCEPT !.breaktab[n] = b, !.active_break_count = @ + 1, !.doubled = D]
<1>1. Good(e)
  BY AllocGood
<1>2. d \in Globals
  BY DEF Good
<1>3. e.auto_break_insn_count = d.auto_break_insn_count
  BY <1>2 DEF Globals
<1>4. \A m \in Ids : e.breaktab[m] = IF m = n THEN b ELSE d.breaktab[m]
  BY <1>2 DEF Globals
<1>5. Filled(d, n, b) = e
  BY AllocFill, Zenon
<1> HIDE DEF e
<1> QED
  BY <1>1, <1>3, <1>4, <1>5

-----------------------------------------------------------------------------
(* The actions. *)

\* A step that is not counted.
LEMMA Uncounted ==
  ASSUME Inv, Good(dbg'), pc' \in Addr, phase' \in Phases, asked' = asked, ran' = ran, lost' = lost,
         dbg'.auto_break_insn_count = dbg.auto_break_insn_count,
         phase \in {"head", "idle"} <=> phase' \in {"head", "idle"},
         NoTempAtPrompt'
  PROVE  Inv'
BY DEF Inv, StepExact

LEMMA CrashKeeps ==
  ASSUME Inv, phase = "prompt", Crash, pc' \in Addr, UNCHANGED <<asked, ran, lost>>
  PROVE  Inv'
<1>1. NoTempAtPrompt'
  BY DEF Inv, NoTempAtPrompt, Crash
<1> QED
  BY <1>1, Uncounted DEF Inv, Crash, Phases

\* A command that fills in an entry and stays at the prompt.
LEMMA FilledKeeps ==
  ASSUME Inv, NEW a \in Addr, phase = "prompt", NEW n \in Ids, FirstUnused(dbg, n),
         NEW b \in Breakpoint, b.used, b.enabled, b.addr = a, ~b.temp,
         b.on_execute => ~b.keep_running,
         Stay([brkalloc(dbg, n) EXCEPT !.doubled = Doubled(dbg, a), !.breaktab[n] = b]),
         UNCHANGED <<pc, asked, ran, lost>>
  PROVE  Inv'
<1>1. Good(dbg)
  BY DEF Inv
<1>2. phase' = "prompt" /\ dbg' = Filled(dbg, n, b)
  BY Zenon DEF Stay, Filled
<1>4. /\ Good(dbg') /\ dbg'.auto_break_insn_count = dbg.auto_break_insn_count
      /\ \A m \in Ids : dbg'.breaktab[m] = IF m = n THEN b ELSE dbg.breaktab[m]
  BY <1>1, <1>2, AllocEntry
<1>5. NoTempAtPrompt'
  BY <1>4 DEF NoTempAtPrompt, Inv
<1> QED
  BY <1>2, <1>4, <1>5, Uncounted DEF Inv, Phases

LEMMA BreakKeeps ==
  ASSUME Inv, NEW a \in Addr, NEW option \in BreakOptions \cup {"none"}, cmd_break(a, option)
  PROVE  Inv'
<1>1. CASE Crash
  BY <1>1, CrashKeeps DEF cmd_break, Inv
<1>2. ASSUME NEW n \in Ids, FirstUnused(dbg, n),
             Stay([brkalloc(dbg, n) EXCEPT !.doubled = Doubled(dbg, a), !.breaktab[n] =
                     [@ EXCEPT !.addr = a, !.on_execute = TRUE,
                               !.conditional = (option = "if"),
                               !.ignore_count = IF option = "ignore" THEN 1 ELSE 0]])
      PROVE  Inv'
  <2> DEFINE f == brkalloc(dbg, n).breaktab[n]
             ignored == IF option = "ignore" THEN 1 ELSE 0
             given   == option = "if"
             b == [f EXCEPT !.addr = a, !.on_execute = TRUE,
                            !.conditional = given, !.ignore_count = ignored]
  <2>1. f \in Breakpoint /\ f.used /\ f.enabled /\ ~f.keep_running /\ ~f.temp
    BY <1>2, AllocGives DEF Inv
  <2>2. Stay([brkalloc(dbg, n) EXCEPT !.doubled = Doubled(dbg, a), !.breaktab[n] = b])
    BY <1>2
  <2> HIDE DEF f
  <2>3. given \in BOOLEAN /\ ignored \in 0..1
    OBVIOUS
  <2> HIDE DEF given, ignored
  <2>4. b \in Breakpoint
    BY <2>1, <2>3 DEF Breakpoint
  <2>5. b.used /\ b.enabled /\ b.addr = a /\ ~b.keep_running /\ ~b.temp
    BY <2>1 DEF Breakpoint
  <2> HIDE DEF b
  <2> QED
    BY <1>2, <2>2, <2>4, <2>5, FilledKeeps DEF cmd_break
<1> QED
  BY <1>1, <1>2 DEF cmd_break

LEMMA WatchKeeps ==
  ASSUME Inv, NEW a \in Addr, NEW on_read \in BOOLEAN, NEW on_write \in BOOLEAN,
         NEW options \in SUBSET WatchOptions, cmd_watch1(a, on_read, on_write, options)
  PROVE  Inv'
<1>1. CASE Crash
  BY <1>1, CrashKeeps DEF cmd_watch1, Inv
<1>2. ASSUME NEW n \in Ids, FirstUnused(dbg, n),
             Stay([brkalloc(dbg, n) EXCEPT !.doubled = Doubled(dbg, a), !.breaktab[n] =
                     [brkalloc(dbg, n).breaktab[n] EXCEPT
                        !.addr = a, !.on_read = on_read, !.on_write = on_write,
                        !.keep_running = ("print" \in options),
                        !.write_mask   = @ \/ "mask" \in options,
                        !.conditional  = ("if" \in options)]])
      PROVE  Inv'
  <2> DEFINE f == brkalloc(dbg, n).breaktab[n]
             print == "print" \in options
             mask  == f.write_mask \/ "mask" \in options
             given == "if" \in options
             c == [f EXCEPT !.addr = a, !.on_read = on_read, !.on_write = on_write]
             b == [c EXCEPT !.keep_running = print, !.write_mask = mask, !.conditional = given]
  <2>1. f \in Breakpoint /\ f.used /\ f.enabled /\ ~f.on_execute /\ ~f.temp
    BY <1>2, AllocGives DEF Inv
  <2>2. Stay([brkalloc(dbg, n) EXCEPT !.doubled = Doubled(dbg, a), !.breaktab[n] = b])
    <3>1. b = [f EXCEPT !.addr = a, !.on_read = on_read, !.on_write = on_write,
                        !.keep_running = ("print" \in options),
                        !.write_mask   = @ \/ "mask" \in options,
                        !.conditional  = ("if" \in options)]
      BY <2>1 DEF Breakpoint
    <3>2. Stay([brkalloc(dbg, n) EXCEPT !.doubled = Doubled(dbg, a), !.breaktab[n] =
                  [f EXCEPT !.addr = a, !.on_read = on_read, !.on_write = on_write,
                            !.keep_running = ("print" \in options),
                            !.write_mask   = @ \/ "mask" \in options,
                            !.conditional  = ("if" \in options)]])
      BY <1>2
    <3> HIDE DEF b, f
    <3> QED
      BY <3>1, <3>2
  <2>3. print \in BOOLEAN /\ mask \in BOOLEAN /\ given \in BOOLEAN
    OBVIOUS
  <2> HIDE DEF f, print, mask, given
  <2>4. /\ c \in Breakpoint /\ c.used /\ c.enabled /\ ~c.on_execute /\ ~c.temp /\ c.addr = a
    BY <2>1 DEF Breakpoint
  <2> HIDE DEF c
  <2>5. b \in Breakpoint
    BY <2>3, <2>4 DEF Breakpoint
  <2>6. b.used /\ b.enabled /\ b.addr = a /\ ~b.on_execute /\ ~b.temp /\ b.keep_running = print
    BY <2>4 DEF Breakpoint
  <2> HIDE DEF b
  <2> QED
    BY <1>2, <2>2, <2>3, <2>5, <2>6, FilledKeeps DEF cmd_watch1
<1> QED
  BY <1>1, <1>2 DEF cmd_watch1

LEMMA DeleteKeeps ==
  ASSUME Inv, NEW S \in SUBSET Ids, cmd_delete(S)
  PROVE  Inv'
<1>1. Good(dbg) /\ dbg \in Globals /\ dbg' = FreeAll(dbg, S) /\ phase = "prompt" /\ phase' = "prompt"
  BY DEF Inv, Good, cmd_delete, Stay
<1>2. Freed(dbg, S, dbg')
  BY <1>1, FreeAllFrees
<1>3. Good(dbg')
  BY <1>1, <1>2, FreedGood
<1>4. NoTempAtPrompt'
  BY <1>1, <1>2 DEF Inv, NoTempAtPrompt, Freed
<1>5. dbg'.auto_break_insn_count = dbg.auto_break_insn_count
  BY <1>2 DEF Freed
<1> QED
  BY <1>1, <1>3, <1>4, <1>5, Uncounted DEF Inv, cmd_delete, Phases

\* Leaving the prompt for the instruction at PC, or for good.
LEMMA ClosedKeeps ==
  ASSUME Inv, phase = "prompt", phase' \in {"exec", "quit"}, pc' \in Addr,
         UNCHANGED <<asked, ran, lost>>,
         NEW d, Good(d), d.auto_break_insn_count = dbg.auto_break_insn_count, dbg' = Closed(d)
  PROVE  Inv'
<1>1. Good(dbg') /\ dbg'.auto_break_insn_count = dbg.auto_break_insn_count
  BY ClosedGood
<1>2. NoTempAtPrompt'
  BY DEF NoTempAtPrompt
<1> QED
  BY <1>1, <1>2, Uncounted DEF Phases

LEMMA RunToKeeps ==
  ASSUME Inv, phase = "prompt", NEW a \in Addr, pc' \in Addr, UNCHANGED <<asked, ran, lost>>,
         NEW d, Good(d), d.auto_break_insn_count = dbg.auto_break_insn_count,
         RunTo(d, a)
  PROVE  Inv'
<1>1. CASE Crash
  BY <1>1, CrashKeeps
<1>2. ASSUME NEW n \in Ids, FirstUnused(d, n),
             Resume([brkalloc(d, n) EXCEPT !.doubled = Doubled(d, a), !.breaktab[n] =
                       [@ EXCEPT !.addr = a, !.on_execute = TRUE, !.temp = TRUE]])
      PROVE  Inv'
  <2> DEFINE f == brkalloc(d, n).breaktab[n]
             b == [f EXCEPT !.addr = a, !.on_execute = TRUE, !.temp = TRUE]
  <2>1. f \in Breakpoint /\ f.used /\ f.enabled /\ ~f.keep_running
    BY <1>2, AllocGives
  <2>2. Resume([brkalloc(d, n) EXCEPT !.doubled = Doubled(d, a), !.breaktab[n] = b])
    BY <1>2
  <2> HIDE DEF f
  <2>3. b \in Breakpoint
    BY <2>1 DEF Breakpoint
  <2>4. b.used /\ b.enabled /\ b.addr = a /\ ~b.keep_running
    BY <2>1 DEF Breakpoint
  <2> HIDE DEF b
  <2>5. phase' = "exec" /\ dbg' = Closed(Filled(d, n, b))
    BY <2>2, <2>4, Zenon DEF Resume, Filled
  <2>7. Good(Filled(d, n, b)) /\ Filled(d, n, b).auto_break_insn_count = dbg.auto_break_insn_count
    BY <1>2, <2>3, <2>4, AllocEntry
  <2> QED
    BY <2>5, <2>7, ClosedKeeps
<1> QED
  BY <1>1, <1>2 DEF RunTo

LEMMA NextKeeps ==
  ASSUME Inv, NEW a \in Addr, cmd_next(a)
  PROVE  Inv'
<1>1. Good(dbg) /\ pc' \in Addr
  BY DEF Inv, cmd_next
<1> QED
  BY <1>1, RunToKeeps DEF cmd_next

LEMMA MeasureKeeps ==
  ASSUME Inv, NEW s \in Addr, NEW val \in Byte, NEW function \in Addr, NEW holds \in BOOLEAN,
         cmd_measure(s, val, function, holds)
  PROVE  Inv'
<1> DEFINE d == command_write_hook(dbg, s, val, holds)
<1>1. Good(dbg) /\ dbg \in Globals /\ pc \in Addr /\ pc' \in Addr
  BY DEF Inv, Good, cmd_measure
<1>2. Touched(dbg, d)
  BY <1>1, WriteHookTouches
<1>3. phase = "prompt" /\ RunTo(d, pc) /\ UNCHANGED <<asked, ran, lost>>
  BY DEF cmd_measure
<1> HIDE DEF d
<1>4. Good(d)
  BY <1>1, <1>2, TouchedGood
<1>5. d.auto_break_insn_count = dbg.auto_break_insn_count
  BY <1>2 DEF Touched
<1> QED
  BY <1>1, <1>3, <1>4, <1>5, RunToKeeps

LEMMA StepKeeps ==
  ASSUME Inv, NEW count \in Counts, cmd_step(count)
  PROVE  Inv'
<1> DEFINE d == [dbg EXCEPT !.auto_break_insn_count = asked']
<1>1. Good(dbg) /\ dbg \in Globals /\ asked' \in Int
  BY NumberAssumption DEF Inv, Good, cmd_step
<1>2. Good(d)
  BY <1>1, CountSetGood
<1>3. d.auto_break_insn_count = asked'
  BY <1>1 DEF Globals
<1>4. phase' = "exec" /\ dbg' = Closed(d) /\ ran' = 0 /\ lost' = 0 /\ pc' = pc
  BY DEF cmd_step, Resume
<1> HIDE DEF d
<1>5. Good(dbg') /\ dbg'.auto_break_insn_count = asked'
  BY <1>2, <1>3, <1>4, ClosedGood
<1>6. NoTempAtPrompt' /\ StepExact'
  BY <1>1, <1>4, <1>5 DEF NoTempAtPrompt, StepExact
<1> QED
  BY <1>1, <1>4, <1>5, <1>6 DEF Inv, Phases

LEMMA RunforKeeps ==
  ASSUME Inv, NEW ms \in Times, cmd_runfor(ms)
  PROVE  Inv'
<1> DEFINE d == [dbg EXCEPT !.stop_after_ms = ms]
<1>1. Good(dbg) /\ dbg \in Globals /\ ms \in Int
  BY NumberAssumption DEF Inv, Good
<1>2. Good(d)
  BY <1>1, CountSetGood
<1>3. d.auto_break_insn_count = dbg.auto_break_insn_count /\ d.breaktab = dbg.breaktab
  BY <1>1 DEF Globals
<1>4. /\ phase = "prompt" /\ UNCHANGED <<pc, asked, ran, lost>>
      /\ \/ phase' = "prompt" /\ dbg' = d
         \/ phase' = "exec" /\ dbg' = Closed(d)
  BY DEF cmd_runfor, Stay, Resume
<1> HIDE DEF d
<1>5. CASE phase' = "prompt" /\ dbg' = d
  <2>1. NoTempAtPrompt'
    BY <1>3, <1>4, <1>5 DEF Inv, NoTempAtPrompt
  <2> QED
    BY <1>2, <1>3, <1>4, <1>5, <2>1, Uncounted DEF Inv, Phases
<1>6. CASE phase' = "exec" /\ dbg' = Closed(d)
  BY <1>2, <1>3, <1>4, <1>6, ClosedKeeps DEF Inv
<1> QED
  BY <1>4, <1>5, <1>6

LEMMA ContinueKeeps ==
  ASSUME Inv, cmd_continue
  PROVE  Inv'
<1>1. Good(dbg) /\ phase = "prompt" /\ phase' = "exec" /\ dbg' = Closed(dbg) /\ pc' \in Addr
  BY DEF Inv, cmd_continue, Resume
<1> QED
  BY <1>1, ClosedKeeps DEF cmd_continue

LEMMA QuitKeeps ==
  ASSUME Inv, cmd_quit
  PROVE  Inv'
<1>1. Good(dbg) /\ phase = "prompt" /\ phase' = "quit" /\ dbg' = Closed(dbg) /\ pc' \in Addr
  BY DEF Inv, cmd_quit
<1> QED
  BY <1>1, ClosedKeeps DEF cmd_quit

LEMMA PcKeeps ==
  ASSUME Inv, NEW addr \in Addr, cmd_pc(addr)
  PROVE  Inv'
BY DEF Inv, cmd_pc, NoTempAtPrompt, StepExact

\* An access that leaves the phase alone.
LEMMA TouchedKeeps ==
  ASSUME Inv, Touched(dbg, dbg'), pc' \in Addr, UNCHANGED <<phase, asked, ran, lost>>
  PROVE  Inv'
<1>1. Good(dbg')
  BY TouchedGood DEF Inv
<1>2. dbg'.auto_break_insn_count = dbg.auto_break_insn_count /\ NoTempAtPrompt'
  BY DEF Touched, Inv, NoTempAtPrompt
<1> QED
  BY <1>1, <1>2, Uncounted DEF Inv

LEMMA ResetKeeps ==
  ASSUME Inv, NEW a \in Addr, NEW addr \in Addr, NEW holds \in BOOLEAN, reset(a, addr, holds)
  PROVE  Inv'
<1>1. Touched(dbg, dbg')
  BY ReadHookTouches DEF Inv, Good, reset
<1> QED
  BY <1>1, TouchedKeeps DEF reset

LEMMA ReadKeeps ==
  ASSUME Inv, NEW a \in Addr, NEW holds \in BOOLEAN, ReadAccess(a, holds)
  PROVE  Inv'
<1>1. Touched(dbg, dbg')
  BY ReadHookTouches DEF Inv, Good, ReadAccess
<1> QED
  BY <1>1, TouchedKeeps DEF ReadAccess, Inv

LEMMA WriteKeeps ==
  ASSUME Inv, NEW a \in Addr, NEW val \in Byte, NEW holds \in BOOLEAN, WriteAccess(a, val, holds)
  PROVE  Inv'
<1>1. Touched(dbg, dbg')
  BY WriteHookTouches DEF Inv, Good, WriteAccess
<1> QED
  BY <1>1, TouchedKeeps DEF WriteAccess, Inv

\* SIGINT, and an error of the simulation.
LEMMA StopKeeps ==
  ASSUME Inv, dbg' = Stop(dbg), UNCHANGED <<pc, phase, asked, ran, lost>>
  PROVE  Inv'
<1>1. Good(dbg')
  BY SignalGood DEF Inv
<1>3. dbg'.auto_break_insn_count = dbg.auto_break_insn_count /\ dbg'.breaktab = dbg.breaktab
  BY SignalGood DEF Inv
<1>4. NoTempAtPrompt'
  BY <1>3 DEF Inv, NoTempAtPrompt
<1> QED
  BY <1>1, <1>3, <1>4, Uncounted DEF Inv

\* A turn of the instruction loop ends, with or without an instruction.
LEMMA TurnKeeps ==
  ASSUME Inv, \/ ran' = ran + Counting /\ lost' = lost
              \/ ran' = ran /\ lost' = lost + Counting,
         phase \notin {"head", "idle"}, phase' \in {"head", "idle"}, pc' \in Addr,
         asked' = asked, Good(dbg'), dbg'.auto_break_insn_count = dbg.auto_break_insn_count
  PROVE  Inv'
<1>1. dbg.auto_break_insn_count \in Int
  BY DEF Inv, Good, Globals
<1>2. ran' \in Nat /\ lost' \in Nat /\ StepExact'
  BY <1>1 DEF Inv, StepExact, Counting
<1>3. NoTempAtPrompt'
  BY DEF NoTempAtPrompt
<1> QED
  BY <1>2, <1>3 DEF Inv, Phases

LEMMA EndOfInputKeeps ==
  ASSUME Inv, EndOfInput
  PROVE  Inv'
<1>1. Good(dbg') /\ dbg'.auto_break_insn_count = dbg.auto_break_insn_count
  BY ClosedGood DEF Inv, EndOfInput
<1> QED
  BY <1>1, TurnKeeps DEF EndOfInput, Inv

LEMMA RetireKeeps ==
  ASSUME Inv, NEW next \in Addr, Retire(next)
  PROVE  Inv'
BY TurnKeeps DEF Retire, Inv

LEMMA IdleKeeps ==
  ASSUME Inv, NEW elapsed \in BOOLEAN, Idle(elapsed)
  PROVE  Inv'
<1>1. Good(dbg') /\ dbg'.auto_break_insn_count = dbg.auto_break_insn_count
  BY PeriodicGood DEF Inv, Idle
<1>2. NoTempAtPrompt'
  BY DEF NoTempAtPrompt, Idle
<1> QED
  BY <1>1, <1>2, Uncounted DEF Idle, Inv, Phases

\* The head of the loop, and why it does not run past a stop that is due or a
\* breakpoint that is armed.
LEMMA HeadKeeps ==
  ASSUME Inv, NEW holds \in BOOLEAN, LoopHead(holds)
  PROVE  /\ Inv'
         /\ dbg.due /\ ~dbg.muted => phase' = "prompt"
         /\ (\E n \in Ids : Armed(n)) /\ pc \notin dbg.doubled => phase' = "prompt"
<1> DEFINE h == command_insn_hook(dbg, pc, holds)
           d == check_break(h)
<1>1. Good(dbg) /\ pc \in Addr /\ dbg \in Globals
  BY DEF Inv, Good
<1>2. /\ Good(h) /\ h.auto_break_insn_count = dbg.auto_break_insn_count
      /\ dbg.due /\ ~dbg.muted => h.monitor_on
      /\ (\E n \in Ids : Armed(n)) /\ pc \notin dbg.doubled => h.monitor_on
  BY <1>1, InsnHookGood DEF Armed
<1> HIDE DEF h
<1>3. /\ Good(d) /\ (h.monitor_on => d.monitor_on)
      /\ d.auto_break_insn_count = IF h.auto_break_insn_count > 0 THEN h.auto_break_insn_count - 1
                                                                  ELSE h.auto_break_insn_count
  BY <1>2, CheckBreakGood
<1>4. /\ phase = "head" /\ UNCHANGED <<pc, asked, ran, lost>>
      /\ IF d.monitor_on THEN phase' = "prompt" /\ dbg' = brkfree_temps(d)
                         ELSE phase' = "exec" /\ dbg' = d
  BY DEF LoopHead, h
<1> HIDE DEF d
<1>5. /\ dbg.due /\ ~dbg.muted => phase' = "prompt"
      /\ (\E n \in Ids : Armed(n)) /\ pc \notin dbg.doubled => phase' = "prompt"
  BY <1>2, <1>3, <1>4
<1>6. Good(dbg') /\ dbg'.auto_break_insn_count = d.auto_break_insn_count /\ NoTempAtPrompt'
  <2> DEFINE S == {n \in Ids : d.breaktab[n].used /\ d.breaktab[n].temp}
  <2>1. CASE d.monitor_on
    <3>1. dbg' = FreeAll(d, S) /\ S \in SUBSET Ids /\ d \in Globals
      BY <1>3, <1>4, <2>1 DEF brkfree_temps, Good
    <3>2. Freed(d, S, dbg')
      BY <3>1, FreeAllFrees
    <3>3. Good(dbg')
      BY <1>3, <3>1, <3>2, FreedGood
    <3>4. \A n \in Ids : dbg'.breaktab[n].used => ~dbg'.breaktab[n].temp
      BY <3>2 DEF Freed
    <3> QED
      BY <3>2, <3>3, <3>4 DEF Freed, NoTempAtPrompt
  <2>2. CASE ~d.monitor_on
    BY <1>3, <1>4, <2>2 DEF NoTempAtPrompt
  <2> QED
    BY <2>1, <2>2
<1>7. StepExact'
  <2>1. dbg.auto_break_insn_count \in Int /\ asked \in Int /\ ran \in Nat /\ lost \in Nat
    BY <1>1 DEF Globals, Inv
  <2>2. phase' \notin {"head", "idle"}
    BY <1>4
  <2> QED
    BY <1>2, <1>3, <1>4, <1>6, <2>1, <2>2 DEF Inv, StepExact
<1>8. Inv'
  BY <1>4, <1>6, <1>7 DEF Inv, Phases
<1> QED
  BY <1>5, <1>8

-----------------------------------------------------------------------------
(* The specification. *)

LEMMA InitInv == Init => Inv
<1> SUFFICES ASSUME Init PROVE Inv
  OBVIOUS
<1> DEFINE zero == [used |-> FALSE, enabled |-> FALSE, conditional |-> FALSE,
                    on_read |-> FALSE, on_write |-> FALSE, on_execute |-> FALSE,
                    keep_running |-> FALSE, temp |-> FALSE, write_mask |-> FALSE,
                    last_write |-> 0, ignore_count |-> 0, addr |-> 0]
           table == [n \in Ids |-> zero]
<1>1. zero \in Breakpoint
  BY AddrAssumption, ByteAssumption DEF Breakpoint
<1>2. ~zero.used /\ ~zero.enabled /\ ~zero.keep_running
  OBVIOUS
<1>3. /\ dbg = [breaktab |-> table, active_break_count |-> 0, monitor_on |-> TRUE,
                auto_break_insn_count |-> 0, stop_after_ms |-> 0, due |-> FALSE, muted |-> FALSE,
                doubled |-> {}]
      /\ pc \in Addr /\ phase = "head" /\ asked = 0 /\ ran = 0 /\ lost = 0
  BY DEF Init
<1> HIDE DEF zero
<1>4. /\ dbg \in Globals /\ dbg.breaktab = table /\ dbg.active_break_count = 0
      /\ dbg.auto_break_insn_count = 0 /\ dbg.due = FALSE
  BY <1>1, <1>3 DEF Globals
<1>5. \A n \in Ids : dbg.breaktab[n] = zero
  BY <1>4
<1>6. Enabled(dbg) = {}
  BY <1>2, <1>5 DEF Enabled
<1>7. Good(dbg)
  BY <1>2, <1>4, <1>5, <1>6, FS_EmptySet DEF Good
<1>8. NoTempAtPrompt /\ StepExact
  BY <1>3, <1>4 DEF NoTempAtPrompt, StepExact
<1> QED
  BY <1>3, <1>7, <1>8 DEF Inv, Phases

LEMMA NextInv == Inv /\ [Next]_vars => Inv'
<1> SUFFICES ASSUME Inv, [Next]_vars PROVE Inv'
  OBVIOUS
<1>1. CASE Commands
  <2>1. ASSUME NEW a \in Addr, NEW option \in BreakOptions \cup {"none"}, cmd_break(a, option)
        PROVE  Inv'
    BY <2>1, BreakKeeps
  <2>2. ASSUME NEW a \in Addr, NEW rw \in {<<FALSE, TRUE>>, <<TRUE, FALSE>>, <<TRUE, TRUE>>},
               NEW options \in SUBSET WatchOptions, cmd_watch1(a, rw[1], rw[2], options)
        PROVE  Inv'
    <3>1. CASE rw = <<FALSE, TRUE>>
      BY <2>2, <3>1, WatchKeeps
    <3>2. CASE rw = <<TRUE, FALSE>>
      BY <2>2, <3>2, WatchKeeps
    <3>3. CASE rw = <<TRUE, TRUE>>
      BY <2>2, <3>3, WatchKeeps
    <3> QED
      BY <2>2, <3>1, <3>2, <3>3
  <2>3. ASSUME NEW a \in Addr, cmd_next(a) \/ cmd_pc(a)
        PROVE  Inv'
    BY <2>3, NextKeeps, PcKeeps
  <2>4. ASSUME NEW a \in Addr, NEW f \in Addr, NEW val \in Byte, NEW holds \in BOOLEAN,
               cmd_measure(a, val, f, holds)
        PROVE  Inv'
    BY <2>4, MeasureKeeps
  <2>5. ASSUME NEW a \in Addr, NEW f \in Addr, NEW holds \in BOOLEAN, reset(a, f, holds)
        PROVE  Inv'
    BY <2>5, ResetKeeps
  <2>6. ASSUME NEW S \in SUBSET Ids, cmd_delete(S)
        PROVE  Inv'
    BY <2>6, DeleteKeeps
  <2>7. ASSUME NEW count \in Counts, cmd_step(count)
        PROVE  Inv'
    BY <2>7, StepKeeps
  <2>8. ASSUME NEW ms \in Times, cmd_runfor(ms)
        PROVE  Inv'
    BY <2>8, RunforKeeps
  <2>9. ASSUME cmd_continue \/ cmd_quit \/ EndOfInput
        PROVE  Inv'
    BY <2>9, ContinueKeeps, QuitKeeps, EndOfInputKeeps
  <2> QED
    BY <1>1, <2>1, <2>2, <2>3, <2>4, <2>5, <2>6, <2>7, <2>8, <2>9 DEF Commands
<1>2. ASSUME NEW holds \in BOOLEAN, LoopHead(holds)
      PROVE  Inv'
  BY <1>2, HeadKeeps
<1>3. ASSUME NEW holds \in BOOLEAN, NEW a \in Addr,
             ReadAccess(a, holds) \/ \E val \in Byte : WriteAccess(a, val, holds)
      PROVE  Inv'
  BY <1>3, ReadKeeps, WriteKeeps
<1>4. CASE SimError \/ monitor_signal
  BY <1>4, StopKeeps DEF SimError, monitor_signal
<1>5. ASSUME NEW next \in Addr, Retire(next)
      PROVE  Inv'
  BY <1>5, RetireKeeps
<1>6. ASSUME NEW elapsed \in BOOLEAN, Idle(elapsed)
      PROVE  Inv'
  BY <1>6, IdleKeeps
<1>7. CASE UNCHANGED vars
  BY <1>7 DEF vars, Inv, NoTempAtPrompt, StepExact
<1> QED
  BY <1>1, <1>2, <1>3, <1>4, <1>5, <1>6, <1>7 DEF Next

\* Inv is an invariant of every behaviour of the debugger.
THEOREM DebuggerInv == Spec => []Inv
BY InitInv, NextInv, PTL DEF Spec

\* The table, the globals and the phase keep their types.
THEOREM TypeCorrect == Spec => []TypeOK
<1>1. Inv => TypeOK
  BY DEF Inv, Good, TypeOK
<1> QED
  BY <1>1, DebuggerInv, PTL

\* active_break_count, the hooks' reason to return early, is the number of
\* enabled entries, however commands and hits alternate and whatever the size
\* of the table: brkalloc, brkfree and brk_enable never count one twice.
THEOREM CountCorrect == Spec => []CountAgrees
<1>1. Inv => CountAgrees
  BY DEF Inv, Good, Enabled, CountAgrees
<1> QED
  BY <1>1, DebuggerInv, PTL

\* No temporary breakpoint of "next" or "measure" is left at a prompt, whichever
\* stop opened it.
THEOREM TempsFreed == Spec => []NoTempAtPrompt
<1>1. Inv => NoTempAtPrompt
  BY DEF Inv
<1> QED
  BY <1>1, DebuggerInv, PTL

\* A step counts every instruction it executes once, and besides only the turns
\* that the end of the prompt's input cuts short, for every count and across
\* breakpoints, prompts and "continue".
THEOREM StepCorrect == Spec => []StepExact
<1>1. Inv => StepExact
  BY DEF Inv
<1> QED
  BY <1>1, DebuggerInv, PTL

\* A requested stop is lost to nothing but the later hit of a print-only
\* watchpoint: the next head of the loop opens the prompt, whichever other
\* entries are hit, ignored, freed or print-only.
THEOREM StopsKept == Spec => NoStopLost
<1>1. ASSUME Inv, [Next]_vars
      PROVE  [phase = "head" /\ dbg.due /\ ~dbg.muted => phase' # "exec"]_vars
  <2>1. ASSUME NEW holds \in BOOLEAN, LoopHead(holds), dbg.due, ~dbg.muted
        PROVE  phase' # "exec"
    BY <1>1, <2>1, HeadKeeps
  <2>2. ASSUME Next, phase = "head", ~ \E holds \in BOOLEAN : LoopHead(holds)
        PROVE  phase' # "exec"
    BY <2>2 DEF Next, Commands, cmd_break, cmd_watch1, cmd_next, cmd_pc, cmd_measure, reset,
                cmd_delete, cmd_step, cmd_runfor, cmd_continue, cmd_quit, EndOfInput,
                ReadAccess, WriteAccess, SimError, Retire, Idle, monitor_signal
  <2> QED
    BY <1>1, <2>1, <2>2
<1>2. Inv /\ [Next]_vars => [phase = "head" /\ dbg.due /\ ~dbg.muted => phase' # "exec"]_vars
  BY <1>1
<1> QED
  BY <1>2, DebuggerInv, PTL DEF Spec, NoStopLost

\* The guest never runs through a listed breakpoint whose address was not given
\* to two entries, also after entries before it were freed and taken again and
\* whatever was done at the other addresses.
THEOREM BreakpointsStop == Spec => BreakpointStops
<1>1. ASSUME Inv, [Next]_vars
      PROVE  [phase = "head" /\ (\E n \in Ids : Armed(n)) /\ pc \notin dbg.doubled
                => phase' # "exec"]_vars
  <2>1. ASSUME NEW holds \in BOOLEAN, LoopHead(holds), \E n \in Ids : Armed(n), pc \notin dbg.doubled
        PROVE  phase' # "exec"
    BY <1>1, <2>1, HeadKeeps
  <2>2. ASSUME Next, phase = "head", ~ \E holds \in BOOLEAN : LoopHead(holds)
        PROVE  phase' # "exec"
    BY <2>2 DEF Next, Commands, cmd_break, cmd_watch1, cmd_next, cmd_pc, cmd_measure, reset,
                cmd_delete, cmd_step, cmd_runfor, cmd_continue, cmd_quit, EndOfInput,
                ReadAccess, WriteAccess, SimError, Retire, Idle, monitor_signal
  <2> QED
    BY <1>1, <2>1, <2>2
<1>2. Inv /\ [Next]_vars => [phase = "head" /\ (\E n \in Ids : Armed(n)) /\ pc \notin dbg.doubled
                              => phase' # "exec"]_vars
  BY <1>1
<1> QED
  BY <1>2, DebuggerInv, PTL DEF Spec, BreakpointStops
=============================================================================
