------------------------------ MODULE Machines ------------------------------
(***************************************************************************)
(* The machines whose devices interrupt the CPU, one of which is started   *)
(* by machine_init (src/src/machine.c): eon2 with its multiplexer and      *)
(* oscillator, and multicomp09 with its UART and timer.  What one machine  *)
(* keeps in its registers stays as it was while the other one runs.        *)
(***************************************************************************)
EXTENDS Eon2Interrupts, Multicomp09

VARIABLE machine

machine_vars == <<machine, eon2_vars, mc_vars>>

Started == {"eon2", "multicomp09"}

MachineInit ==
  /\ machine \in Started
  /\ Eon2Init
  /\ McInit
  /\ machine = "eon2" => batch_file = CHOOSE b \in BatchFile : TRUE

MachineNext ==
  /\ \/ machine = "eon2" /\ Eon2Next /\ UNCHANGED <<uart, mc_timer, batch_file, char>>
     \/ machine = "multicomp09" /\ McNext /\ UNCHANGED <<mux, osc>>
  /\ UNCHANGED machine

\* machine_update is called in every round of the main loop of src/src/main.c.
UpdateOfUart ==
  machine = "multicomp09" /\ multicomp09_console_update /\ UNCHANGED <<machine, mux, osc>>

MachineSpec == MachineInit /\ [][MachineNext]_machine_vars /\ WF_machine_vars(UpdateOfUart)

-----------------------------------------------------------------------------
(* Properties. *)

\* What the CPU sees of its lines is what the devices' registers say, whatever
\* stores, reads, pulses, ticks and updates came in which order.  eon2: there is
\* a request of the multiplexer exactly while an enabled line of it is pending
\* (imux_refresh).  multicomp09: the timer's request is bit 7 of its register,
\* and the UART's is there only while a character waits.
DevicesDriveLines ==
  /\ machine = "eon2" => LineFollowsMux
  /\ machine = "multicomp09" => LinesFollowDevices
=============================================================================
