---------------------------- MODULE MCSerialPort ----------------------------
(* Small instances of SerialPort for TLC: a ring of three bytes and two byte *)
(* values, so that it wraps, fills up and refuses. *)
EXTENDS SerialPort
=============================================================================
