-------------------------------- MODULE Dasm --------------------------------
(***************************************************************************)
(* The disassembler of src/src/monitor.c: the addressing modes its three   *)
(* tables give to the opcodes, and the number of bytes dasm() returns.     *)
(* The mnemonics and the text are left out.  "os9call" is off, as it is    *)
(* unless the machine runs OS-9.                                           *)
(***************************************************************************)
EXTENDS Integers

codes_00_7F(op) ==
  LET row == op \div 16
      n   == op % 16
  IN  CASE row \in {0, 4, 5, 6, 7} /\ n \in {1, 2, 5, 11} -> "illegal"
        [] row = 0 /\ n \notin {1, 2, 5, 11} -> "direct"
        [] row = 1 -> CASE n \in {2, 3, 9, 13} -> "implied"   [] n \in {6, 7} -> "rel_word"
                        [] n \in {10, 12}      -> "imm_byte"  [] n \in {14, 15} -> "reg_post"
                        [] OTHER               -> "illegal"
        [] row = 2 -> "rel_byte"
        [] row = 3 -> CASE n \in 0..3     -> "indexed"   [] n \in {4, 5} -> "sys_post"
                        [] n \in {6, 7}   -> "usr_post"  [] n = 8 -> "illegal"
                        [] n = 12         -> "imm_byte"  [] OTHER -> "implied"
        [] row \in {4, 5} /\ n \notin {1, 2, 5, 11} -> IF n = 14 THEN "illegal" ELSE "implied"
        [] row = 6 /\ n \notin {1, 2, 5, 11} -> "indexed"
        [] row = 7 /\ n \notin {1, 2, 5, 11} -> "extended"

MemoryMode == <<"direct", "indexed", "extended">>

codes_80_FF(op) ==
  LET col == (op \div 16) % 4   \* immediate, direct, indexed, extended
      n   == op % 16
  IN  CASE col # 0 -> MemoryMode[col]
        [] col = 0 /\ (op \in {135, 143, 199, 205, 207}) -> "illegal"
        [] op = 141 -> "rel_byte"
        [] col = 0 /\ n \in {3, 12, 14} /\ op # 205 -> "imm_word"
        [] col = 0 /\ n \notin {3, 7, 12, 13, 14, 15} -> "imm_byte"

codes10_00_7F(op) == CASE op \in 33..47 -> "rel_word" [] op = 63 -> "implied"
                       [] OTHER -> "illegal"

codes10_80_FF(op) ==
  LET col == (op \div 16) % 4
      n   == op % 16
      used == IF op < 192 THEN {3, 12, 14, 15} ELSE {14, 15}
  IN  CASE n \notin used \/ op \in {143, 207} -> "illegal"
        [] n \in used /\ col # 0 -> MemoryMode[col]
        [] n \in used \ {15} /\ col = 0 -> "imm_word"

codes11_00_7F(op) == IF op = 63 THEN "implied" ELSE "illegal"

codes11_80_FF(op) ==
  CASE op >= 192 \/ (op % 16) \notin {3, 12} -> "illegal"
    [] op < 192 /\ (op % 16) \in {3, 12} ->
         IF op < 144 THEN "imm_word" ELSE MemoryMode[(op \div 16) % 4]

\* The addressing mode dasm() looks up.
DasmMode(op, op2) ==
  CASE op = 16 -> IF op2 < 128 THEN codes10_00_7F(op2) ELSE codes10_80_FF(op2)
    [] op = 17 -> IF op2 < 128 THEN codes11_00_7F(op2) ELSE codes11_80_FF(op2)
    [] OTHER   -> IF op < 128 THEN codes_00_7F(op) ELSE codes_80_FF(op)

\* Bytes after the post-byte of an indexed operand.
DasmIndexed(post) ==
  CASE post >= 128 /\ (post % 32) \in {8, 12, 24, 28}     -> 1
    [] post >= 128 /\ (post % 32) \in {9, 13, 25, 29, 31} -> 2
    [] OTHER -> 0

\* dasm() "Returns the number of bytes that compose it".  b1, b2 and b3 are
\* the bytes at the address.
dasm(b1, b2, b3) ==
  LET prefixed == b1 \in {16, 17}
      mode     == DasmMode(b1, b2)
  IN  (IF prefixed THEN 2 ELSE 1)
      + CASE mode \in {"illegal", "implied"} -> 0
          [] mode \in {"imm_word", "extended", "rel_word"} -> 2
          [] mode = "indexed" -> 1 + DasmIndexed(IF prefixed THEN b3 ELSE b2)
          [] OTHER -> 1
=============================================================================
