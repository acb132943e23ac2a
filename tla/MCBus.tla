------------------------------- MODULE MCBus --------------------------------
(* Four pages of eight maps of 32 bytes.  eon: page 2 has the MMU, the      *)
(* console, the disk and some ROM, page 3 the rest of the ROM.  eon2: page  *)
(* 3 has the ROM and the I/O.                                               *)
EXTENDS Bus

\* eon: registers of pages 1 and 2, the end of page 1, the ROM.
\* eon2: the registers of the MMU, a byte and the end of page 1, the ROM.
MCAddrs == [m \in {"simple", "eon", "eon2"} |->
  CASE m = "simple" -> {0, 287, 992}
    [] m = "eon"    -> {512 + 4, 512 + 5, 512 + 6, 512 + 8, 511, 736}
    [] m = "eon2"   -> {992 + 16, 992 + 22, 992 + 23, 256, 511, 960}]
=============================================================================
