----------------------------- MODULE MCDebugger -----------------------------
(* Small instances of Debugger for TLC: two addresses, a table of two       *)
(* entries, so that it fills up and its entries are used again. *)
EXTENDS Debugger

\* "step -1" runs on, "step 0" is "step 1".
MCCounts == {-1, 0, 2}
=============================================================================
