----------------------------- MODULE MCMachines -----------------------------
(* A program at 0 and an IRQ handler at 4.  eon2: two lines, a period of    *)
(* four cycles in slices of up to three.  multicomp09: a FIFO of two        *)
(* characters, so that it wraps, fills up and refuses; LF is one of them.   *)
EXTENDS Machines

MCVector == [k \in Kinds \cup {"reset"} |-> IF k = "reset" THEN 0 ELSE 4]
=============================================================================
