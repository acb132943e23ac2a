------------------------------ MODULE HostFile ------------------------------
(***************************************************************************)
(* A file of the host in units of one block, as the C library keeps it:    *)
(* "view" is what fread returns, "disk" what is left if the simulator is   *)
(* killed.  Written blocks reach the latter when the library likes, and    *)
(* all of them at an fflush.  A block past the end of the file is Absent;  *)
(* writing further out leaves Zero blocks in between.                      *)
(***************************************************************************)
EXTENDS Integers

CONSTANTS LastBlock, Absent, Zero

Blocks == 0..LastBlock

ASSUME BlocksAssumption   == LastBlock \in Nat
ASSUME ContentsAssumption == Absent # Zero

\* Contents f after block b has been written.
Extended(f, b, data) ==
  [c \in Blocks |-> IF c = b THEN data ELSE IF c < b /\ f[c] = Absent THEN Zero ELSE f[c]]

fwrite(file, b, data) == [file EXCEPT !.view = Extended(@, b, data)]

fflush(file) == [file EXCEPT !.disk = file.view]

\* The library writes a block back.
WriteBack(file, b) ==
  IF file.view[b] = Absent THEN file ELSE [file EXCEPT !.disk = Extended(@, b, file.view[b])]

\* The simulator is killed, and the file opened again.
Reopened(file) == [file EXCEPT !.view = file.disk]
=============================================================================
