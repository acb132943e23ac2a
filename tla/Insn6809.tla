------------------------------ MODULE Insn6809 ------------------------------
(***************************************************************************)
(* The instructions of the 6809 as cpu_execute (src/src/6809.c) fetches,   *)
(* decodes and runs them, with their registers, stacks, effective          *)
(* addresses and cycle counts, over 64 KB of RAM.                          *)
(*                                                                         *)
(* A behaviour is one program run: Init loads a program and the registers, *)
(* and each step is one turn of the loop in cpu_execute.  Requests for     *)
(* interrupts and the check of cc_changed that ends a turn are those of    *)
(* CpuInterrupts, and the debugger's hooks those of Debugger: neither acts *)
(* here, no device raises a line and no breakpoint is set.                 *)
(***************************************************************************)
EXTENDS Alu, Dasm, Sequences

CONSTANTS
  Loads,     \* the programs and registers to start from
  MaxInsns   \* bound on the instructions of one run (model bound)

\* A load: the bytes of the program, those of the handler all software
\* interrupts go to, and the registers.
RegFile == [A : Byte, B : Byte, DP : Byte, X : Word, Y : Word, U : Word, S : Word,
            CC : Byte]

Origin  == 1024   \* where programs are loaded
Handler == 2048   \* where the interrupt vectors point

ASSUME LoadsAssumption ==
  \A l \in Loads : /\ l \in [code : Seq(Byte), handler : Seq(Byte), regs : RegFile]
                   /\ Len(l.code) <= Handler - Origin
                   /\ Len(l.handler) <= 65522 - Handler
ASSUME MaxInsnsAssumption == MaxInsns \in Nat \ {0}

VARIABLES cpu,    \* the processor and its memory
          load,   \* the load this run started from
          count,  \* instructions executed
          last    \* history: the operands of the last subtraction, if it was
                  \* the last instruction

vars == <<cpu, load, count, last>>

-----------------------------------------------------------------------------
(* Memory and the instruction stream. *)

\* RAM is zero where nothing was stored.
read8(c, a)  == IF a % 65536 \in DOMAIN c.mem THEN c.mem[a % 65536] ELSE 0
RDMEM16(c, a) == 256 * read8(c, a) + read8(c, a + 1)

write8(c, a, v) ==
  [c EXCEPT !.mem = [x \in DOMAIN c.mem \cup {a} |-> IF x = a THEN v ELSE c.mem[x]]]
WRMEM16(c, a, v) == write8(write8(c, a, v \div 256), (a + 1) % 65536, v % 256)

Clock(c, n)   == [c EXCEPT !.cycles = @ + n]
Advance(c, n) == [c EXCEPT !.PC = @ + n]
change_pc(c, pc) == [c EXCEPT !.PC = pc % 65536]

sim_error(c) == [c EXCEPT !.stopped = TRUE]

\* The immediate operand; whoever uses it advances PC.
imm_byte(c) == read8(c, c.PC)
imm_word(c) == RDMEM16(c, c.PC)

get_d(c) == 256 * c.A + c.B

-----------------------------------------------------------------------------
(* Registers. *)

set_CC(c, v) == [c EXCEPT !.EFI = v & EFI_FLAGS, !.f = set_cc(v)]

\* A register by the name the instructions use for it.
Get(c, r) == CASE r = "D"  -> get_d(c)
               [] r = "PC" -> c.PC % 65536
               [] r = "DP" -> c.DP \div 256
               [] r = "CC" -> get_cc(c.EFI, c.f)
               [] OTHER    -> c[r]

Set(c, r, v) == CASE r = "D"  -> [c EXCEPT !.A = v \div 256, !.B = v % 256]
                  [] r = "DP" -> [c EXCEPT !.DP = 256 * v]
                  [] r = "CC" -> set_CC(c, v)
                  [] OTHER    -> [c EXCEPT ![r] = v]

WordRegs == {"D", "X", "Y", "U", "S", "PC"}

RegNumber(nro) ==
  CASE nro = 0 -> "D" [] nro = 1 -> "X" [] nro = 2 -> "Y"   [] nro = 3 -> "U"
    [] nro = 4 -> "S" [] nro = 5 -> "PC" [] nro = 8 -> "A"  [] nro = 9 -> "B"
    [] nro = 10 -> "CC" [] nro = 11 -> "DP" [] OTHER -> "none"

get_reg(c, nro) == IF RegNumber(nro) = "none" THEN 255 ELSE Get(c, RegNumber(nro))
set_reg(c, nro, v) == IF RegNumber(nro) = "none" THEN c ELSE Set(c, RegNumber(nro), v)

\* Both registers of the post-byte have 8 bits, or both have 16.
SameSize(post) == Has(post, 128) = Has(post, 8)

exg(c) ==
  LET post == imm_byte(c)
      d    == Advance(c, 1)
      tmp1 == IF SameSize(post) THEN get_reg(d, post \div 16) ELSE 255
      tmp2 == IF SameSize(post) THEN get_reg(d, post % 16) ELSE 255
  IN  Clock(set_reg(set_reg(d, post % 16, tmp1), post \div 16, tmp2), 8)

\* Mutant: the sizes of the two registers are not compared.
tfr_any_size(c) ==
  LET post == imm_byte(c)
      d    == Advance(c, 1)
  IN  Clock(set_reg(d, post % 16, get_reg(d, post \div 16)), 6)

tfr(c) ==
  LET post == imm_byte(c)
      d    == Advance(c, 1)
      tmp1 == IF SameSize(post) THEN get_reg(d, post \div 16) ELSE 255
  IN  Clock(set_reg(d, post % 16, tmp1), 6)

-----------------------------------------------------------------------------
(* Stacks. *)

Size(r) == IF r \in WordRegs THEN 2 ELSE 1

MoveStack(c, sp, a) == [c EXCEPT ![sp] = a % 65536]

StoreReg(c, a, r) == IF r \in WordRegs THEN WRMEM16(c, a, Get(c, r)) ELSE write8(c, a, Get(c, r))
FetchReg(c, a, r) == Set(c, r, IF r \in WordRegs THEN RDMEM16(c, a) ELSE read8(c, a))

PushReg(c, sp, r) ==
  LET a == (c[sp] - Size(r)) % 65536
  IN  MoveStack(StoreReg(c, a, r), sp, a)

PullReg(c, sp, r) ==
  LET d == FetchReg(c, c[sp], r)
  IN  MoveStack(d, sp, d[sp] + Size(r))

PushIf(c, sp, post, mask, r) == IF Has(post, mask) THEN Clock(PushReg(c, sp, r), Size(r)) ELSE c
PullIf(c, sp, post, mask, r) == IF Has(post, mask) THEN Clock(PullReg(c, sp, r), Size(r)) ELSE c

\* A post-byte is tested from bit 7 by a push and from bit 0 by a pull; order has
\* the registers from bit 7 to bit 0.
Push(c, sp, order) ==
  LET post == imm_byte(c)
      on(d, mask, r) == PushIf(d, sp, post, mask, r)
      high == on(on(on(on(Clock(Advance(c, 1), 5), 128, order[1]), 64, order[2]), 32, order[3]), 16, order[4])
  IN  on(on(on(on(high, 8, order[5]), 4, order[6]), 2, order[7]), 1, order[8])

Pull(c, sp, order) ==
  LET post == imm_byte(c)
      on(d, mask, r) == PullIf(d, sp, post, mask, r)
      low == on(on(on(on(Clock(Advance(c, 1), 5), 1, order[8]), 2, order[7]), 4, order[6]), 8, order[5])
  IN  on(on(on(on(low, 16, order[4]), 32, order[3]), 64, order[2]), 128, order[1])

SysOrder == <<"PC", "U", "Y", "X", "DP", "B", "A", "CC">>
UsrOrder == <<"PC", "S", "Y", "X", "DP", "B", "A", "CC">>

\* Mutant: A and B are pulled in the other order.
puls_BA(c) == Pull(c, "S", <<"PC", "U", "Y", "X", "DP", "A", "B", "CC">>)

pshs(c) == Push(c, "S", SysOrder)
puls(c) == Pull(c, "S", SysOrder)
pshu(c) == Push(c, "U", UsrOrder)
pulu(c) == Pull(c, "U", UsrOrder)

\* Only swi, swi2, swi3 and cwai call it here, always with full = 1.
stack_machine_state(c) ==
  LET push(d, r) == PushReg(d, "S", r)
      words == push(push(push(push(Clock([c EXCEPT !.EFI = @ | 128], 19), "PC"), "U"), "Y"), "X")
  IN  push(push(push(push(words, "DP"), "B"), "A"), "CC")

\* n is the extra cycle of the prefixed ones.
SoftwareInterrupt(c, n, masked, vector) ==
  LET d == stack_machine_state(Clock(c, n))
  IN  change_pc([d EXCEPT !.EFI = @ | masked], RDMEM16(d, vector))

swi(c)  == SoftwareInterrupt(c, 0, 80, 65530)
swi2(c) == SoftwareInterrupt(c, 1, 0, 65524)
swi3(c) == SoftwareInterrupt(c, 1, 0, 65522)

rti(c) ==
  LET pull(x, r) == PullReg(x, "S", r)
      d == pull(Clock(c, 6), "CC")
      e == IF Has(d.EFI, 128)
           THEN pull(pull(pull(pull(pull(pull(Clock(d, 9), "A"), "B"), "DP"), "X"), "Y"), "U")
           ELSE d
  IN  pull(e, "PC")

rts(c) == PullReg(Clock(c, 5), "S", "PC")

\* Only E, F and I are masked.  The interrupt that ends the wait is not
\* modelled here: the instruction is executed again for ever.
cwai(c) ==
  IF ~c.waiting
  THEN LET d == stack_machine_state(
                  Clock(Advance([c EXCEPT !.EFI = @ & imm_byte(c)], 1), 1))
       IN  change_pc([d EXCEPT !.waiting = TRUE], d.PC - 2)
  ELSE change_pc(Clock(c, 1), c.PC - 1)

-----------------------------------------------------------------------------
(* Effective addresses: each mode advances PC past its operand bytes. *)

direct(c)   == [c |-> Advance(c, 1), ea |-> imm_byte(c) + c.DP]
extended(c) == [c |-> Advance(c, 2), ea |-> imm_word(c)]

index_regs == <<"X", "Y", "U", "S">>

\* The address "mode" (bits 0 to 3 of the post-byte) forms from register r,
\* the cycles it takes and the operand bytes it reads, before indirection.
IndexMode(c, r, mode) ==
  LET at(ea, bytes, clk) == [c |-> Clock(Advance(c, bytes), clk), ea |-> ea % 65536]
      step(n, ea, clk)   == [c |-> Clock([c EXCEPT ![r] = (@ + n) % 65536], clk),
                             ea |-> ea % 65536]
  IN  CASE mode = 0  -> step(1, c[r], 6)
        [] mode = 1  -> step(2, c[r], 7)
        [] mode = 2  -> step(-1, c[r] - 1, 6)
        [] mode = 3  -> step(-2, c[r] - 2, 7)
        [] mode = 4  -> at(c[r], 0, 4)
        [] mode = 5  -> at(c[r] + Signed(c.B, 256), 0, 5)
        [] mode = 6  -> at(c[r] + Signed(c.A, 256), 0, 5)
        [] mode = 8  -> at(c[r] + Signed(imm_byte(c), 256), 1, 5)
        [] mode = 9  -> at(c[r] + imm_word(c), 2, 8)
        [] mode = 11 -> at(c[r] + get_d(c), 0, 8)
        [] mode = 12 -> at(c.PC + 1 + Signed(imm_byte(c), 256), 1, 5)
        [] mode = 13 -> at(c.PC + 2 + imm_word(c), 2, 9)
        [] mode = 15 -> at(imm_word(c), 2, 6)

DirectModes   == {0, 1, 2, 3, 4, 5, 6, 8, 9, 11, 12, 13}
IndirectModes == {1, 3, 4, 5, 6, 8, 9, 11, 12, 13, 15}

\* An invalid post-byte is an error, and the instruction goes on with ea = 0.
indexed(c) ==
  LET post == imm_byte(c)
      d    == Advance(c, 1)
      r    == index_regs[1 + ((post \div 32) % 4)]
      mode == post % 16
  IN  CASE post < 128 ->
             [c  |-> Clock(d, 5),
              ea |-> (d[r] + mode + (IF Has(post, 16) THEN 65520 ELSE 0)) % 65536]
        [] post >= 128 /\ ~Has(post, 16) /\ mode \in DirectModes -> IndexMode(d, r, mode)
        [] post >= 128 /\ Has(post, 16) /\ mode \in IndirectModes ->
             LET i == IndexMode(d, r, mode)
             IN  [c |-> Clock(i.c, 3), ea |-> RDMEM16(i.c, i.ea)]
        [] OTHER -> [c |-> sim_error(d), ea |-> 0]

EA(c, mode) == CASE mode = "direct"   -> direct(c)
                 [] mode = "indexed"  -> indexed(c)
                 [] mode = "extended" -> extended(c)

-----------------------------------------------------------------------------
(* The switch of cpu_execute, a row of 16 opcodes at a time.  A row says    *)
(* what the low nibble n does: the operation, the register (or the number   *)
(* of the branch condition) it works on, the addressing mode, and the       *)
(* cycles the switch itself counts.                                         *)

Insn(op, reg, mode, clk) == [op |-> op, reg |-> reg, mode |-> mode, clk |-> clk]

\* On page 0 an invalid opcode takes two cycles, after a prefix none.
NoInsn(clk) == Insn("invalid", "", "inherent", clk)

UnaryOp(n) ==
  CASE n = 0 -> "neg"  [] n = 3 -> "com"  [] n = 4 -> "lsr"  [] n = 6 -> "ror"  [] n = 7 -> "asr"
    [] n = 8 -> "asl"  [] n = 9 -> "rol"  [] n = 10 -> "dec" [] n = 12 -> "inc" [] n = 13 -> "tst"
    [] n = 15 -> "clr" [] OTHER -> "invalid"

UnaryRow(n, reg, mode, clk) ==
  IF UnaryOp(n) = "invalid" THEN NoInsn(2) ELSE Insn(UnaryOp(n), reg, mode, clk)

MemoryRow(n, mode, clk, jmpClk) ==
  IF n = 14 THEN Insn("jmp", "PC", mode, jmpClk) ELSE UnaryRow(n, "M", mode, clk)

row_1(n) ==
  CASE n = 2  -> Insn("nop", "", "inherent", 2)     [] n = 3  -> Insn("sync", "", "inherent", 4)
    [] n = 6  -> Insn("lbra", "", "rel_word", 5)    [] n = 7  -> Insn("lbsr", "", "rel_word", 9)
    [] n = 9  -> Insn("daa", "A", "inherent", 2)    [] n = 10 -> Insn("orcc", "CC", "imm_byte", 3)
    [] n = 12 -> Insn("andcc", "CC", "imm_byte", 3) [] n = 13 -> Insn("sex", "D", "inherent", 2)
    [] n = 14 -> Insn("exg", "", "post", 0)         [] n = 15 -> Insn("tfr", "", "post", 0)
    [] OTHER  -> NoInsn(2)

row_3(n) ==
  CASE n = 0  -> Insn("lea", "X", "indexed", 0)   [] n = 1  -> Insn("lea", "Y", "indexed", 0)
    [] n = 2  -> Insn("lea", "S", "indexed", 0)   [] n = 3  -> Insn("lea", "U", "indexed", 0)
    [] n = 4  -> Insn("pshs", "", "post", 0)      [] n = 5  -> Insn("puls", "", "post", 0)
    [] n = 6  -> Insn("pshu", "", "post", 0)      [] n = 7  -> Insn("pulu", "", "post", 0)
    [] n = 9  -> Insn("rts", "", "inherent", 0)   [] n = 10 -> Insn("abx", "X", "inherent", 3)
    [] n = 11 -> Insn("rti", "", "inherent", 0)   [] n = 12 -> Insn("cwai", "", "imm_byte", 0)
    [] n = 13 -> Insn("mul", "D", "inherent", 11) [] n = 15 -> Insn("swi", "", "inherent", 0)
    [] OTHER  -> NoInsn(2)

ByteOp(n) ==
  CASE n = 0 -> "sub" [] n = 1 -> "cmp" [] n = 2 -> "sbc" [] n = 4 -> "and" [] n = 5 -> "bit"
    [] n = 6 -> "ld"  [] n = 8 -> "eor" [] n = 9 -> "adc" [] n = 10 -> "or" [] n = 11 -> "add"
    [] OTHER -> "invalid"

\* The columns in which all rows from 8 on are alike.
ByteRow(n, reg, mode, clk) ==
  IF ByteOp(n) = "invalid" THEN NoInsn(2) ELSE Insn(ByteOp(n), reg, mode, clk)

row_8(n) ==
  CASE n = 3  -> Insn("subd", "D", "imm_word", 4) [] n = 12 -> Insn("cmp16", "X", "imm_word", 4)
    [] n = 13 -> Insn("bsr", "", "rel_byte", 7)   [] n = 14 -> Insn("ld16", "X", "imm_word", 3)
    [] OTHER  -> ByteRow(n, "A", "imm_byte", 2)

\* Rows 9, A and B are alike but for the mode and its cycles.
MemRowA(n, mode, clk, jsrClk) ==
  CASE n = 3  -> Insn("subd", "D", mode, clk)  [] n = 7  -> Insn("st", "A", mode, clk)
    [] n = 12 -> Insn("cmp16", "X", mode, clk) [] n = 13 -> Insn("jsr", "", mode, jsrClk)
    [] n = 14 -> Insn("ld16", "X", mode, clk)  [] n = 15 -> Insn("st16", "X", mode, clk)
    [] OTHER  -> ByteRow(n, "A", mode, clk)

row_C(n) ==
  CASE n = 3  -> Insn("addd", "D", "imm_word", 4) [] n = 12 -> Insn("ld16", "D", "imm_word", 3)
    [] n = 14 -> Insn("ld16", "U", "imm_word", 3) [] OTHER -> ByteRow(n, "B", "imm_byte", 2)

MemRowB(n, mode, clk) ==
  CASE n = 3  -> Insn("addd", "D", mode, clk) [] n = 7  -> Insn("st", "B", mode, clk)
    [] n = 12 -> Insn("ld16", "D", mode, clk) [] n = 13 -> Insn("st16", "D", mode, clk)
    [] n = 14 -> Insn("ld16", "U", mode, clk) [] n = 15 -> Insn("st16", "U", mode, clk)
    [] OTHER  -> ByteRow(n, "B", mode, clk)

page_0(op) ==
  LET row == op \div 16
      n   == op % 16
  IN  CASE row = 0  -> MemoryRow(n, "direct", 4, 3)       [] row = 1  -> row_1(n)
        [] row = 2  -> Insn("branch", n, "rel_byte", 3)   [] row = 3  -> row_3(n)
        [] row = 4  -> UnaryRow(n, "A", "inherent", 0)    [] row = 5  -> UnaryRow(n, "B", "inherent", 0)
        [] row = 6  -> MemoryRow(n, "indexed", 0, -1)     [] row = 7  -> MemoryRow(n, "extended", 5, 4)
        [] row = 8  -> row_8(n)                           [] row = 9  -> MemRowA(n, "direct", 4, 7)
        [] row = 10 -> MemRowA(n, "indexed", 0, 3)        [] row = 11 -> MemRowA(n, "extended", 5, 8)
        [] row = 12 -> row_C(n)                           [] row = 13 -> MemRowB(n, "direct", 4)
        [] row = 14 -> MemRowB(n, "indexed", 0)           [] row = 15 -> MemRowB(n, "extended", 5)

\* The modes of rows 8 to F behind a prefix, which costs a cycle.
WordMode(row) ==
  CASE row % 4 = 0 -> "imm_word" [] row % 4 = 1 -> "direct"
    [] row % 4 = 2 -> "indexed"  [] row % 4 = 3 -> "extended"
WordClk(row) ==
  CASE row % 4 = 0 -> 5 [] row % 4 = 1 -> 5 [] row % 4 = 2 -> 1 [] row % 4 = 3 -> 6

\* After the prefix 10: long branches, SWI2, and D, Y and S as operands.
page_10(op) ==
  LET row == op \div 16
      n   == op % 16
      reg == IF row < 12 THEN "Y" ELSE "S"
  IN  CASE op \in 33..47 -> Insn("long_branch", n, "rel_word", 0)
        [] op = 63 -> Insn("swi2", "", "inherent", 0)
        [] row \in 8..11 /\ n = 3  -> Insn("cmp16", "D", WordMode(row), WordClk(row))
        [] row \in 8..11 /\ n = 12 -> Insn("cmp16", "Y", WordMode(row), WordClk(row))
        [] row \in {8, 12} /\ n = 14 -> Insn("ld16", reg, "imm_word", 4)
        [] row \in {9, 10, 11, 13, 14, 15} /\ n = 14 -> Insn("ld16", reg, WordMode(row), WordClk(row))
        [] row \in {9, 10, 11, 13, 14, 15} /\ n = 15 -> Insn("st16", reg, WordMode(row), WordClk(row))
        [] OTHER -> NoInsn(0)

\* After the prefix 11: SWI3, and U and S compared.
page_11(op) ==
  LET row == op \div 16
      n   == op % 16
  IN  CASE op = 63 -> Insn("swi3", "", "inherent", 0)
        [] row \in 8..11 /\ n = 3  -> Insn("cmp16", "U", WordMode(row), WordClk(row))
        [] row \in 8..11 /\ n = 12 -> Insn("cmp16", "S", WordMode(row), WordClk(row))
        [] OTHER -> NoInsn(0)

\* Invalid opcodes: on page 0 PC is put back, after a prefix it is not.
Decode(c) ==
  LET op  == read8(c, c.PC)
      op2 == read8(c, c.PC + 1)
  IN  CASE op = 16 -> page_10(op2)
        [] op = 17 -> page_11(op2)
        [] OTHER   -> page_0(op)

OpcodeBytes(c) == IF read8(c, c.PC) \in {16, 17} THEN 2 ELSE 1

-----------------------------------------------------------------------------
(* The bodies of the switch: c is the processor past the opcode, i what it *)
(* decoded to.                                                             *)

Unary(op, f, x) ==
  CASE op = "neg" -> neg(f, x) [] op = "com" -> com(f, x) [] op = "lsr" -> lsr(f, x)
    [] op = "ror" -> ror(f, x) [] op = "asr" -> asr(f, x) [] op = "asl" -> asl(f, x)
    [] op = "rol" -> rol(f, x) [] op = "dec" -> dec(f, x) [] op = "inc" -> inc(f, x)
    [] op = "tst" -> tst(f, x) [] op = "clr" -> clr(f, x)

Binary(op, f, x, y) ==
  CASE op = "sub" -> sub(f, x, y) [] op = "cmp" -> cmp(f, x, y) [] op = "sbc" -> sbc(f, x, y)
    [] op = "and" -> and(f, x, y) [] op = "bit" -> and(f, x, y) [] op = "ld"  -> ld(f, y)
    [] op = "eor" -> eor(f, x, y) [] op = "adc" -> adc(f, x, y) [] op = "or"  -> or(f, x, y)
    [] op = "add" -> add(f, x, y)

Binary16(op, f, x, y) ==
  CASE op = "addd" -> addd(f, x, y) [] op = "subd" -> subd(f, x, y)
    [] op = "cmp16" -> cmp16(f, x, y) [] op = "ld16" -> ld16(f, y)

UnaryOps == {"neg", "com", "lsr", "ror", "asr", "asl", "rol", "dec", "inc", "tst", "clr"}
ByteOps  == {"sub", "cmp", "sbc", "and", "bit", "ld", "eor", "adc", "or", "add"}
WordOps  == {"addd", "subd", "cmp16", "ld16"}
TestOps  == {"tst", "cmp", "bit", "cmp16"}  \* these keep no result

Flags(c, f) == [c EXCEPT !.f = f]

\* The operand of an instruction and the processor past it; a 16-bit read of
\* memory takes a cycle, and arithmetic on what it read another.
ByteOperand(c, mode) ==
  IF mode = "imm_byte" THEN [c |-> Advance(c, 1), val |-> imm_byte(c)]
  ELSE LET e == EA(c, mode) IN [c |-> e.c, val |-> read8(e.c, e.ea)]

WordOperand(c, op, mode) ==
  IF mode = "imm_word" THEN [c |-> Advance(c, 2), val |-> imm_word(c)]
  ELSE LET e == EA(c, mode)
       IN  [c |-> Clock(e.c, IF op = "ld16" THEN 1 ELSE 2), val |-> RDMEM16(e.c, e.ea)]

ExecUnary(c, i) ==
  LET e == IF i.mode = "inherent" THEN [c |-> c, ea |-> 0] ELSE EA(c, i.mode)
      r == Unary(i.op, c.f, IF i.mode = "inherent" THEN c[i.reg] ELSE read8(e.c, e.ea))
      d == Clock(Flags(e.c, r.f), i.clk + 2)
  IN  CASE i.op \in TestOps      -> d
        [] i.op \notin TestOps /\ i.mode = "inherent" -> [d EXCEPT ![i.reg] = r.res]
        [] i.op \notin TestOps /\ i.mode # "inherent" -> write8(d, e.ea, r.res)

ExecByte(c, i) ==
  LET o == ByteOperand(c, i.mode)
      r == Binary(i.op, c.f, c[i.reg], o.val)
      d == Clock(Flags(o.c, r.f), i.clk)
  IN  IF i.op \in TestOps THEN d ELSE [d EXCEPT ![i.reg] = r.res]

\* The effective address comes first: CMPX ,X++ compares the stepped X.
ExecWord(c, i) ==
  LET o == WordOperand(c, i.op, i.mode)
      r == Binary16(i.op, c.f, Get(o.c, i.reg), o.val)
      d == Clock(Flags(o.c, r.f), i.clk)
  IN  IF i.op \in TestOps THEN d ELSE Set(d, i.reg, r.res)

ExecStore(c, i) ==
  LET e == EA(c, i.mode)
      v == Get(e.c, i.reg)
      d == Clock(e.c, i.clk)
  IN  IF i.op = "st" THEN write8(Flags(d, ld(d.f, v).f), e.ea, v)
      ELSE Clock(WRMEM16(Flags(d, ld16(d.f, v).f), e.ea, v), 1)

ExecLea(c, i) ==
  LET e == indexed(c)
      d == [e.c EXCEPT ![i.reg] = e.ea]
  IN  IF i.reg \in {"X", "Y"} THEN [d EXCEPT !.f.Z = e.ea] ELSE d

jmp(c, i) == LET e == EA(c, i.mode) IN Clock([e.c EXCEPT !.PC = e.ea], i.clk)

jsr(c, i) == LET e == EA(c, i.mode)
             IN  change_pc(PushReg(Clock(e.c, i.clk), "S", "PC"), e.ea)

\* Mutant: a branch that is taken is free.
branch_free(c, i) ==
  IF i.reg = 1 THEN Clock(Advance(c, 1), 3)
  ELSE IF cond(i.reg, c.f) THEN change_pc(c, c.PC + 1 + Signed(imm_byte(c), 256))
  ELSE Clock(change_pc(c, c.PC + 1), 3)

\* BRN and LBRN step over their offset without the wrap to 16 bits of change_pc().
branch(c, i) ==
  IF i.reg = 1 THEN Clock(Advance(c, 1), 3)
  ELSE Clock(change_pc(c, c.PC + 1 + (IF cond(i.reg, c.f) THEN Signed(imm_byte(c), 256) ELSE 0)),
             3)

long_branch(c, i) ==
  LET taken == cond(i.reg, c.f)
  IN  IF i.reg = 1 THEN Clock(Advance(c, 2), 5)
      ELSE Clock(change_pc(c, c.PC + 2 + (IF taken THEN Signed(imm_word(c), 65536) ELSE 0)),
                 IF taken THEN 6 ELSE 5)

long_bra(c, i) == Clock(change_pc(c, c.PC + 2 + Signed(imm_word(c), 65536)), i.clk)

\* Mutant: the return address is that of the offset byte.
bsr_short(c, i) ==
  change_pc(PushReg(Clock(c, 7), "S", "PC"), c.PC + 1 + Signed(imm_byte(c), 256))

bsr(c, i) ==
  LET d == Advance(c, 1)
  IN  change_pc(PushReg(Clock(d, 7), "S", "PC"), d.PC + Signed(imm_byte(c), 256))

long_bsr(c, i) ==
  LET d == Advance(c, 2)
  IN  change_pc(PushReg(Clock(d, 9), "S", "PC"), d.PC + Signed(imm_word(c), 65536))

orcc(c)  == Clock(set_CC(Advance(c, 1), Get(c, "CC") | imm_byte(c)), 3)
andcc(c) == Clock(set_CC(Advance(c, 1), Get(c, "CC") & imm_byte(c)), 3)

abx(c) == Clock([c EXCEPT !.X = (@ + c.B) % 65536], 3)

\* daa, sex and mul: their result goes to A or D.
ExecAccumulator(c, i) ==
  LET r == CASE i.op = "daa" -> daa(c.f, c.A)
             [] i.op = "sex" -> sex(c.f, c.B)
             [] i.op = "mul" -> mul(c.f, c.A, c.B)
  IN  Clock(Set(Flags(c, r.f), i.reg, r.res), i.clk)

\* sync() is an error too: "not supported yet".
Invalid(c, i) ==
  LET d == Clock(sim_error(c), i.clk)
  IN  IF i.op = "invalid" /\ OpcodeBytes(cpu) = 1 THEN [d EXCEPT !.PC = cpu.PC] ELSE d

-----------------------------------------------------------------------------
(* Steps. *)

EndOfCode == Origin + Len(load.code)

\* The run is over when it leaves the end of the program (a breakpoint is
\* there), at an error, or at the bound.
Running == cpu.PC # EndOfCode /\ ~cpu.stopped /\ count < MaxInsns

\* One turn of cpu_execute's loop for the operations ops.
Turn(ops, Exec(_, _)) ==
  LET i == Decode(cpu)
  IN  /\ Running
      /\ i.op \in ops
      /\ cpu' = Exec(Advance(cpu, OpcodeBytes(cpu)), i)
      /\ count' = count + 1
      /\ UNCHANGED load

\* The operands of a subtraction, the register's first.
Subtracts(i) == i.op \in {"sub", "cmp", "subd", "cmp16"}
Subtrahends(i) ==
  LET c == Advance(cpu, OpcodeBytes(cpu))
      o == IF i.op \in ByteOps THEN ByteOperand(c, i.mode) ELSE WordOperand(c, i.op, i.mode)
  IN  <<Get(o.c, i.reg), o.val, IF i.op \in ByteOps THEN 256 ELSE 65536>>

NoOperands == <<0, 0, 0>>
Forget == last' = NoOperands
Remember == last' = IF Subtracts(Decode(cpu)) THEN Subtrahends(Decode(cpu)) ELSE NoOperands

UnaryInsn  == Turn(UnaryOps, ExecUnary) /\ Forget
ByteInsn   == Turn(ByteOps, ExecByte) /\ Remember
WordInsn   == Turn(WordOps, ExecWord) /\ Remember
StoreInsn  == Turn({"st", "st16"}, ExecStore) /\ Forget
LeaInsn    == Turn({"lea"}, ExecLea) /\ Forget
AccInsn    == Turn({"daa", "sex", "mul"}, ExecAccumulator) /\ Forget

\* Branches leave the flags alone: the comparison stands.
BranchInsn ==
  /\ \/ Turn({"branch"}, branch)
     \/ Turn({"long_branch"}, long_branch)
     \/ Turn({"lbra"}, long_bra)
  /\ UNCHANGED last

JumpInsn == (Turn({"jmp"}, jmp) \/ Turn({"jsr"}, jsr) \/ Turn({"bsr"}, bsr)
             \/ Turn({"lbsr"}, long_bsr)) /\ Forget

\* The instructions that take no part of the decoded record.
Plain(op, Exec(_)) == Turn({op}, LAMBDA c, i : Exec(c))

StackInsn == (Plain("pshs", pshs) \/ Plain("puls", puls) \/ Plain("pshu", pshu)
              \/ Plain("pulu", pulu) \/ Plain("rts", rts)) /\ Forget

RegisterInsn == (Plain("exg", exg) \/ Plain("tfr", tfr) \/ Plain("abx", abx)
                 \/ Plain("orcc", orcc) \/ Plain("andcc", andcc)
                 \/ Plain("nop", LAMBDA c : Clock(c, 2))) /\ Forget

InterruptInsn == (Plain("swi", swi) \/ Plain("swi2", swi2) \/ Plain("swi3", swi3)
                  \/ Plain("rti", rti) \/ Plain("cwai", cwai)) /\ Forget

InvalidInsn == Turn({"sync", "invalid"}, Invalid) /\ Forget

\* The memory of a load: the program, the handler, and the vectors SWI3, SWI2
\* and SWI.
At(addr, bytes) == [a \in addr..(addr + Len(bytes) - 1) |-> bytes[a - addr + 1]]

InitialMemory(l) ==
  LET code    == At(Origin, l.code)
      handler == At(Handler, l.handler)
  IN  [a \in DOMAIN code \cup DOMAIN handler \cup (65522..65525) \cup {65530, 65531} |->
         CASE a \in DOMAIN code -> code[a]
           [] a \in DOMAIN handler \ DOMAIN code -> handler[a]
           [] OTHER -> IF a % 2 = 0 THEN Handler \div 256 ELSE Handler % 256]

Init ==
  /\ load \in Loads
  /\ cpu = [A |-> load.regs.A, B |-> load.regs.B, DP |-> 256 * load.regs.DP,
            X |-> load.regs.X, Y |-> load.regs.Y, U |-> load.regs.U, S |-> load.regs.S,
            PC |-> Origin, EFI |-> load.regs.CC & EFI_FLAGS, f |-> set_cc(load.regs.CC),
            cycles |-> 0, mem |-> InitialMemory(load), waiting |-> FALSE, stopped |-> FALSE]
  /\ count = 0
  /\ last = NoOperands

Next == \/ UnaryInsn \/ ByteInsn \/ WordInsn \/ StoreInsn \/ LeaInsn \/ AccInsn
        \/ BranchInsn \/ JumpInsn \/ StackInsn \/ RegisterInsn \/ InterruptInsn
        \/ InvalidInsn

Spec == Init /\ [][Next]_vars

-----------------------------------------------------------------------------
(* Properties. *)

\* Every register keeps its width, whatever sizes TFR, EXG and the stack mix.
\* PC is brought back to 16 bits by jumps and branches only.
TypeOK ==
  /\ cpu.A \in Byte /\ cpu.B \in Byte
  /\ \A r \in {"X", "Y", "U", "S"} : cpu[r] \in Word
  /\ cpu.PC \in Nat
  /\ cpu.DP \in Word /\ cpu.DP % 256 = 0
  /\ cpu.EFI = cpu.EFI & EFI_FLAGS
  /\ cpu.f \in Lazy
  /\ \A a \in DOMAIN cpu.mem : a \in Word /\ cpu.mem[a] \in Byte
  /\ cpu.cycles \in Int /\ count \in 0..MaxInsns

\* What follows is stated with numbers, not bits: a w-valued result, and the
\* flags an ideal machine would show.
Outside(v, w) == v < -(w \div 2) \/ v >= w \div 2
Width(op)     == IF op \in WordOps THEN 65536 ELSE 256
CarryIn(op, cc) == IF op \in {"adc", "sbc", "rol", "ror"} THEN cc % 2 ELSE 0

IdealResult(op, x, y, cin) ==
  CASE op \in {"add", "adc", "addd"}         -> (x + y + cin) % Width(op)
    [] op \in {"sub", "sbc", "cmp", "subd", "cmp16"} -> (x - y - cin) % Width(op)
    [] op = "neg" -> (0 - x) % 256  [] op = "com" -> 255 - x
    [] op = "inc" -> (x + 1) % 256  [] op = "dec" -> (x + 255) % 256
    [] op \in {"asl", "rol"} -> (2 * x + cin) % 256
    [] op \in {"lsr", "ror"} -> (x \div 2) + 128 * cin
    [] op = "asr" -> (x \div 2) + 128 * (x \div 128)
    [] op = "clr" -> 0              [] op = "tst" -> x
    [] op \in {"ld", "ld16"} -> y   [] op \in {"and", "bit"} -> x & y
    [] op = "or" -> x | y           [] op = "eor" -> x ^^ y

IdealV(op, x, y, cin, old) ==
  LET w == Width(op)
  IN  CASE op \in {"add", "adc", "addd"} -> Outside(Signed(x, w) + Signed(y, w) + cin, w)
        [] op \in {"sub", "sbc", "cmp", "subd", "cmp16"} ->
             Outside(Signed(x, w) - Signed(y, w) - cin, w)
        [] op \in {"neg", "dec"} -> x = 128
        [] op = "inc" -> x = 127
        [] op \in {"asl", "rol"} -> (x >= 128) # (x % 128 >= 64)
        [] op \in {"asr", "lsr", "ror"} -> Has(old, V_FLAG)
        [] OTHER -> FALSE

IdealC(op, x, y, cin, old) ==
  CASE op \in {"add", "adc", "addd"} -> x + y + cin >= Width(op)
    [] op \in {"sub", "sbc", "cmp", "subd", "cmp16"} -> x < y + cin
    [] op = "neg" -> x # 0       [] op = "com" -> TRUE
    [] op = "clr" -> FALSE       [] op \in {"asl", "rol"} -> x >= 128
    [] op \in {"asr", "lsr", "ror"} -> x % 2 = 1
    [] OTHER -> Has(old, C_FLAG)

IdealCC(op, x, y, old) ==
  LET cin == CarryIn(op, old)
      res == IdealResult(op, x, y, cin)
      h   == IF op \in {"add", "adc"} THEN (x % 16) + (y % 16) + cin > 15 ELSE Has(old, H_FLAG)
  IN  (old & EFI_FLAGS)
      + (IF h THEN H_FLAG ELSE 0)
      + (IF res >= Width(op) \div 2 THEN N_FLAG ELSE 0)
      + (IF res = 0 THEN Z_FLAG ELSE 0)
      + (IF IdealV(op, x, y, cin, old) THEN V_FLAG ELSE 0)
      + (IF IdealC(op, x, y, cin, old) THEN C_FLAG ELSE 0)

\* One step of an arithmetic or logic instruction, against the ideal machine; the
\* operand is the one the effective address, formed first, leads to.
FlagsRight ==
  LET i   == Decode(cpu)
      c   == Advance(cpu, OpcodeBytes(cpu))
      inh == i.mode = "inherent"
      e   == IF inh THEN [c |-> c, ea |-> 0] ELSE EA(c, i.mode)
      o   == CASE i.op \in ByteOps -> ByteOperand(c, i.mode)
               [] i.op \in WordOps -> WordOperand(c, i.op, i.mode)
               [] OTHER -> [c |-> e.c, val |-> 0]
      x   == IF i.op \in UnaryOps /\ ~inh THEN read8(e.c, e.ea) ELSE Get(o.c, i.reg)
      old == Get(cpu, "CC")
      res == IdealResult(i.op, x, o.val, CarryIn(i.op, old))
  IN  i.op \in UnaryOps \cup ByteOps \cup WordOps =>
        /\ Get(cpu', "CC") = IdealCC(i.op, x, o.val, old)
        /\ i.op \notin TestOps =>
             IF i.op \in UnaryOps /\ ~inh THEN read8(cpu', e.ea) = res
             ELSE Get(cpu', i.reg) = res

\* The values of H, N, Z, OV and C that adc, sub, neg, cmp16... leave behind
\* decode to the flags of two's-complement arithmetic, the ones an operation
\* does not touch to what they were, whichever instructions ran before; and
\* the result is where the instruction puts it.
FlagsExact == [][FlagsRight]_vars

\* What the debugger takes the next instruction's length to be.
InsnLength(c) == dasm(read8(c, c.PC), read8(c, c.PC + 1), read8(c, c.PC + 2))

\* x and y are in the relation a conditional branch is named for.
Relation(n, x, y, w) ==
  LET sx == Signed(x, w)
      sy == Signed(y, w)
  IN  CASE n = 2  -> x > y    [] n = 3  -> x <= y   [] n = 4  -> x >= y  [] n = 5  -> x < y
        [] n = 6  -> x # y    [] n = 7  -> x = y    [] n = 12 -> sx >= sy
        [] n = 13 -> sx < sy  [] n = 14 -> sx > sy  [] n = 15 -> sx <= sy

\* One branch, against the operands of the subtraction its flags come from.
BranchRight ==
  LET i      == Decode(cpu)
      after  == cpu.PC + InsnLength(cpu)
      offset == IF i.op = "branch" THEN Signed(read8(cpu, after - 1), 256)
                                   ELSE Signed(RDMEM16(cpu, after - 2), 65536)
  IN  (/\ i.op \in {"branch", "long_branch"}
       /\ i.reg \in {2, 3, 4, 5, 6, 7, 12, 13, 14, 15}
       /\ last # NoOperands)
      => cpu'.PC = (after + (IF Relation(i.reg, last[1], last[2], last[3])
                             THEN offset ELSE 0)) % 65536

\* After a compare or a subtraction of either width, BHI, BLS, BHS, BLO order
\* the operands as unsigned numbers and BGT, BGE, BLE, BLT as signed ones.
CompareThenBranch == [][BranchRight]_vars

Registers(c) == [r \in {"A", "B", "DP", "X", "Y", "U", "S", "CC"} |-> Get(c, r)]

\* The bytes a push or an interrupt stores below sp are none of those at addresses.
Clear(sp, addresses) == \A n \in 1..12 : (sp - n) % 65536 \notin addresses

\* Programs that end where they began: a push and its pull, an exchange done
\* twice, and a software interrupt whose handler returns by RTI or PULS.  What is
\* pushed does not overwrite the pull, nor the vectors and the handler.
PushPull(l) == /\ Len(l.code) = 4
               /\ l.code[2] = l.code[4] /\ l.code[2] < 128
               /\ \/ l.code[1] = 52 /\ l.code[3] = 53 /\ Clear(l.regs.S, Origin..(Origin + 3))
                  \/ l.code[1] = 54 /\ l.code[3] = 55 /\ Clear(l.regs.U, Origin..(Origin + 3))
ExgTwice(code) == LET regs == {n \in 0..15 : RegNumber(n) \notin {"none", "PC"}}
                  IN  /\ Len(code) = 4 /\ code[1] = 30 /\ code[3] = 30
                      /\ code[2] = code[4] /\ SameSize(code[2])
                      /\ code[2] \div 16 \in regs /\ code[2] % 16 \in regs
Interrupts(l)  == /\ l.code \in {<<63>>, <<16, 63>>, <<17, 63>>}
                  /\ l.handler \in {<<59>>, <<53, 255>>}
                  /\ Clear(l.regs.S, {Handler, Handler + 1} \cup 65522..65531)

\* pshs/puls, pshu/pulu, exg and swi/rti agree on which byte goes where: such
\* a program brings every register back, wherever S and U are clear of it, and
\* the frame an interrupt stacks is the one PULS with all registers pulls.
Undone ==
  cpu.PC = EndOfCode =>
    /\ PushPull(load) \/ ExgTwice(load.code) => Registers(cpu) = load.regs
    /\ Interrupts(load) => Registers(cpu) = [load.regs EXCEPT !.CC = @ | 128]

\* A number of two decimal digits.
Decimal(n) == 16 * (n \div 10) + (n % 10)

\* The sums of ADDA for which daa() corrects the high digit twice.
CorrectedTwice(sum) ==
  LET lsn == sum % 16
      msn == (sum % 256) - lsn
  IN  lsn > 9 /\ msn > 128 /\ (msn > 144 \/ sum > 255)

\* A byte of two decimal digits, and the number they are.
IsDecimal(n) == n \div 16 < 10 /\ n % 16 < 10
Number(n)    == 10 * (n \div 16) + (n % 16)

\* ADDA and DAA add numbers of two decimal digits, except for those sums.
DecimalSums ==
  LET code == load.code
      sum  == Number(load.regs.A) + Number(code[2])
  IN  (/\ Len(code) = 3 /\ cpu.PC = EndOfCode /\ count = 2
       /\ code[1] = 139 /\ code[3] = 25
       /\ IsDecimal(load.regs.A) /\ IsDecimal(code[2])
       /\ ~CorrectedTwice(load.regs.A + code[2]))
      => /\ cpu.A = Decimal(sum % 100)
         /\ Has(Get(cpu, "CC"), C_FLAG) = (sum > 99)

\* ADDB and ADCA, or SUBB and SBCA, make one 16-bit operation.
DoubleSums ==
  LET code == load.code
      op   == IF code[1] = 203 THEN "addd" ELSE "subd"
      d    == 256 * load.regs.A + load.regs.B
      word == 256 * code[4] + code[2]
      cc   == IdealCC(op, d, word, load.regs.CC)
  IN  (/\ Len(code) = 4 /\ cpu.PC = EndOfCode /\ count = 2
       /\ <<code[1], code[3]>> \in {<<203, 137>>, <<192, 130>>})
      => /\ get_d(cpu) = IdealResult(op, d, word, 0)
         /\ \A flag \in {N_FLAG, V_FLAG, C_FLAG} :
              Has(Get(cpu, "CC"), flag) = Has(cc, flag)

\* Carry and half carry go from one instruction to the next: D, N, V and C come
\* out of two byte operations as of ADDD and SUBD, and DAA turns a binary sum
\* into the decimal one, but for the sums it corrects twice.
MultiPrecision == DoubleSums /\ DecimalSums

\* The instructions that always go on behind themselves.
Straight(i, post) ==
  \/ i.op \in {"branch", "long_branch"} /\ i.reg = 1
  \/ i.op \in UnaryOps \cup ByteOps \cup WordOps
  \/ i.op \in {"st", "st16", "lea", "daa", "sex", "mul", "pshs", "pshu", "abx", "orcc",
               "andcc", "nop"}
  \/ i.op \in {"puls", "pulu"} /\ post < 128
  \/ i.op \in {"exg", "tfr"} /\ 5 \notin {post \div 16, post % 16}

\* One step, against the end of the instruction as dasm() has it.
LandsAfter ==
  LET i     == Decode(cpu)
      after == cpu.PC + InsnLength(cpu)
  IN  /\ Straight(i, read8(cpu, cpu.PC + 1)) => cpu'.PC = after
      /\ i.op = "branch" /\ i.reg # 1 =>
           cpu'.PC \in {n % 65536 : n \in {after, after + Signed(read8(cpu, after - 1), 256)}}
      /\ i.op = "long_branch" /\ i.reg # 1 =>
           cpu'.PC \in {n % 65536 : n \in {after, after + RDMEM16(cpu, after - 2)}}
      /\ i.op \in {"jsr", "bsr", "lbsr"} => RDMEM16(cpu', cpu'.S) = after % 65536
      /\ (i.op \in {"swi", "swi2", "swi3"} \/ (i.op = "cwai" /\ ~cpu.waiting))
           => RDMEM16(cpu', cpu'.S + 10) = after % 65536

\* The debugger's "next" puts its breakpoint where dasm() says the instruction
\* ends: the CPU agrees, on every opcode and post-byte, about where execution
\* goes on, and a call or a software interrupt stacks that very address.
NextLandsAfter == [][LandsAfter]_vars

\* Every instruction that is not an error takes time: a time slice of
\* cpu_execute ("while (cpu_clk > 0)") ends whatever the program loops on.
ClockAdvances == [][~cpu'.stopped => cpu'.cycles > cpu.cycles]_vars

=============================================================================
