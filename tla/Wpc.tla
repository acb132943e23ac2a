-------------------------------- MODULE Wpc ---------------------------------
(***************************************************************************)
(* The two stateful parts of the WPC pinball machine (src/src/wpc.c): the  *)
(* switches, which wpc_periodic closes and opens for the keys of the host, *)
(* and the dot matrix display, whose three visible pages are collected     *)
(* from the guest's stores to WPC_DMD_ACTIVE_PAGE and sent to a viewer.    *)
(*                                                                         *)
(* Abstracted: the time between two stores to what the code tells apart,   *)
(* and the pixels of a page.  The other registers are plain bytes.         *)
(***************************************************************************)
EXTENDS Integers, Sequences

CONSTANTS
  Keys,             \* the switches with a key
  BUTTON_DURATION,  \* 200
  PERIOD,           \* 100, what a call of wpc_periodic takes off
  Pages,            \* display pages the guest shows
  REPEAT            \* 100, the frames after which the viewer is told again

AlwaysClosed == 19
NoKey        == -1
Phases       == 0..2

ASSUME WpcAssumption ==
  /\ Keys \subseteq Nat \ {AlwaysClosed}
  /\ PERIOD \in Nat /\ BUTTON_DURATION \in Nat /\ PERIOD < BUTTON_DURATION
  /\ 0 \in Pages /\ REPEAT \in Nat \ {0}

VARIABLES
  switch_mx,  \* the closed switches
  curr_sw,
  curr_sw_time,
  key,        \* history: the key the last call of wpc_periodic found, or NoKey
  overtaken,  \* history: the keys that were down when another one was pressed
  dmd,        \* dmd_visibles, dmd_phase, dmd_last_visibles and no_change_count
  frames,     \* history: the last three pages that were accepted, oldest first
  viewer      \* history: the pages last sent to the viewer, or none

switch_vars == <<switch_mx, curr_sw, curr_sw_time, key, overtaken>>
dmd_vars == <<dmd, frames, viewer>>
wpc_vars == <<switch_vars, dmd_vars>>

-----------------------------------------------------------------------------
(* Switches. *)

\* wpc_keypoll and wpc_press_switch.
Pressed(k) ==
  IF k = NoKey
  THEN [closed |-> switch_mx, sw |-> curr_sw, time |-> curr_sw_time]
  ELSE [closed |-> switch_mx \cup {k}, sw |-> k, time |-> BUTTON_DURATION]

\* Mutant: a call takes off two periods.
Ticked_early(s) ==
  IF s.time = 0 THEN s
  ELSE IF s.time > 2 * PERIOD THEN [s EXCEPT !.time = @ - 2 * PERIOD]
  ELSE [s EXCEPT !.time = 0, !.closed = @ \ {s.sw}]

\* The switch is opened when its time is up.
Ticked(s) ==
  IF s.time = 0 THEN s
  ELSE IF s.time > PERIOD THEN [s EXCEPT !.time = @ - PERIOD]
  ELSE [s EXCEPT !.time = 0, !.closed = @ \ {s.sw}]

\* A key is polled first.  There is one curr_sw: a key pressed while another one
\* is down takes its place, and that one is not opened any more.
wpc_periodic(k) ==
  LET s == Ticked(Pressed(k))
  IN  /\ switch_mx' = s.closed
      /\ curr_sw' = s.sw
      /\ curr_sw_time' = s.time
      /\ key' = k
      /\ overtaken' = IF k = NoKey THEN overtaken
                      ELSE (IF curr_sw_time > 0 THEN overtaken \cup {curr_sw} ELSE overtaken) \ {k}
      /\ UNCHANGED dmd_vars

-----------------------------------------------------------------------------
(* The display. *)

\* Mutant: the phases are gone through backwards.
Collected_late(val) == [dmd EXCEPT !.visibles[dmd.phase] = val, !.phase = (@ + 2) % 3]

Collected(val) == [dmd EXCEPT !.visibles[dmd.phase] = val, !.phase = (@ + 1) % 3]

\* A long pause starts anew with one page in all phases.
Restarted(val) == [dmd EXCEPT !.visibles = [i \in Phases |-> val], !.phase = 0]

\* The viewer is told of new pages, and of the same ones now and then.
Send(d) ==
  IF d.visibles = d.last_visibles /\ d.no_change_count + 1 < REPEAT
  THEN /\ dmd' = [d EXCEPT !.no_change_count = @ + 1]
       /\ UNCHANGED viewer
  ELSE /\ dmd' = [d EXCEPT !.no_change_count = 0, !.last_visibles = d.visibles]
       /\ viewer' = d.visibles

\* A store to WPC_DMD_ACTIVE_PAGE.  One that comes too soon after the last one
\* is ignored and is not a step.
wpc_dmd_set_visible(val, pause) ==
  /\ \/ /\ pause = "frame"
        /\ Send(Collected(val))
        /\ frames' = Append(Tail(frames), val)
     \/ /\ pause = "late"
        /\ Send(Restarted(val))
        /\ frames' = <<val, val, val>>
  /\ UNCHANGED switch_vars

\* What wpc_asic_reset leaves.
WpcInit ==
  /\ switch_mx = {AlwaysClosed}
  /\ curr_sw = 0
  /\ curr_sw_time = 0
  /\ key = NoKey
  /\ overtaken = {}
  /\ dmd = [visibles |-> [i \in Phases |-> 0], phase |-> 0,
            last_visibles |-> [i \in Phases |-> 0], no_change_count |-> 0]
  /\ frames = <<0, 0, 0>>
  /\ viewer = << >>

WpcNext ==
  \/ \E k \in Keys \cup {NoKey} : wpc_periodic(k)
  \/ \E val \in Pages, pause \in {"frame", "late"} : wpc_dmd_set_visible(val, pause)

WpcSpec == WpcInit /\ [][WpcNext]_wpc_vars

-----------------------------------------------------------------------------
(* Properties. *)

\* A key pressed at any moment is closed when the guest runs next, and a switch
\* is closed only while its key counts as down or because another key was
\* pressed before it was opened.
SwitchesFollowKeys ==
  /\ key # NoKey => key \in switch_mx
  /\ switch_mx = {AlwaysClosed} \cup overtaken \cup (IF curr_sw_time > 0 THEN {curr_sw} ELSE {})

\* The phase counter makes a ring of the last three pages, whatever the pauses
\* between them were, and the viewer has them: only before the first message
\* may it be behind, for fewer than REPEAT frames.
ViewerIsCurrent ==
  /\ \A i \in Phases : dmd.visibles[(dmd.phase + i) % 3] = frames[i + 1]
  /\ viewer # dmd.visibles => viewer = << >> /\ dmd.no_change_count < REPEAT
=============================================================================
