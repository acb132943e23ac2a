--------------------------- MODULE MCCpuInterrupts ---------------------------
(* Small instances of CpuInterrupts for TLC. *)
EXTENDS CpuInterrupts

\* A main program at 0 that may reach a CWAI at 2, and handlers at 4.
MCCode   == {0, 2, 4}
MCCwaiAt == {2}
MCVector == [k \in Kinds \cup {"reset"} |-> IF k = "reset" THEN 0 ELSE 4]
=============================================================================
