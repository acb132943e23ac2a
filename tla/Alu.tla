-------------------------------- MODULE Alu ---------------------------------
(***************************************************************************)
(* The arithmetic of the 6809 (src/src/6809.c).  The emulator does not     *)
(* keep the H, N, Z, V and C flags as bits: it keeps the values they are   *)
(* to be computed from, and get_cc() and the branch conditions decode them *)
(* later.  H and OV hold an exclusive or whose bit 4 or 7 is meant, N a    *)
(* result, Z a result that is zero when the flag is set, C anything.       *)
(*                                                                         *)
(* An operation takes these values f and its arguments and returns the new *)
(* values and its result, as the C functions do.                           *)
(***************************************************************************)
EXTENDS Integers

Byte == {n \in Nat : n < 256}
Word == {n \in Nat : n < 65536}

\* Bits of an "unsigned" that some expression of 6809.c looks at.
Unsigned(x) == x % 16777216

\* (INT8) x and (INT16) x, for w = 256 and w = 65536.
Signed(x, w) == IF x % w < w \div 2 THEN x % w ELSE (x % w) - w

Has(x, mask) == (x \div mask) % 2 = 1

\* x & mask, for a mask of one bit, and x | mask.
Only(x, mask)    == IF Has(x, mask) THEN mask ELSE 0
WithBit(x, mask) == IF Has(x, mask) THEN x ELSE x + mask

\* The bit operators of C, on bytes and on operands of 16 bits.
Masks(bit(_)) ==
  bit(128) + bit(64) + bit(32) + bit(16) + bit(8) + bit(4) + bit(2) + bit(1)

ByteAnd(x, y) == Masks(LAMBDA m : IF Has(x, m) /\ Has(y, m) THEN m ELSE 0)
ByteOr(x, y)  == Masks(LAMBDA m : IF Has(x, m) \/ Has(y, m) THEN m ELSE 0)
ByteXor(x, y) == Masks(LAMBDA m : IF Has(x, m) # Has(y, m) THEN m ELSE 0)

x & y  == 256 * ByteAnd(x \div 256, y \div 256) + ByteAnd(x % 256, y % 256)
x | y  == 256 * ByteOr(x \div 256, y \div 256) + ByteOr(x % 256, y % 256)
x ^^ y == 256 * ByteXor(x \div 256, y \div 256) + ByteXor(x % 256, y % 256)

H_FLAG == 32
N_FLAG == 8
Z_FLAG == 4
V_FLAG == 2
C_FLAG == 1
EFI_FLAGS == 208

Lazy == [H : Nat, N : Nat, Z : Nat, OV : Nat, C : Nat]

\* Mutant: the carry is taken from the bit that an 8-bit sum leaves it in.
get_cc_carry_bit(efi, f) ==
  efi + (IF Has(f.H, 16) THEN H_FLAG ELSE 0) + (IF Has(f.N, 128) THEN N_FLAG ELSE 0)
      + (IF f.Z = 0 THEN Z_FLAG ELSE 0) + (IF Has(f.OV, 128) THEN V_FLAG ELSE 0)
      + (IF Has(f.C, 128) THEN C_FLAG ELSE 0)

get_cc(efi, f) ==
  efi + (IF Has(f.H, 16) THEN H_FLAG ELSE 0) + (IF Has(f.N, 128) THEN N_FLAG ELSE 0)
      + (IF f.Z = 0 THEN Z_FLAG ELSE 0) + (IF Has(f.OV, 128) THEN V_FLAG ELSE 0)
      + (IF f.C # 0 THEN C_FLAG ELSE 0)

\* What set_cc() makes of the five arithmetic flags of "arg".
set_cc(arg) ==
  [H  |-> IF Has(arg, H_FLAG) THEN 16 ELSE 0,
   N  |-> IF Has(arg, N_FLAG) THEN 128 ELSE 0,
   Z  |-> IF Has(arg, Z_FLAG) THEN 0 ELSE Z_FLAG,
   OV |-> IF Has(arg, V_FLAG) THEN 128 ELSE 0,
   C  |-> IF Has(arg, C_FLAG) THEN 1 ELSE 0]

-----------------------------------------------------------------------------
(* 8-bit operations. *)

Ret(f, res) == [f |-> f, res |-> res]

Carry(f) == IF f.C # 0 THEN 1 ELSE 0

\* N = Z = res, OV = 0: and, bit, eor, ld, or, st and tst end like this.
Logic(f, res) == Ret([f EXCEPT !.N = res, !.Z = res, !.OV = 0], res)

and(f, arg, val) == Logic(f, arg & val)
or(f, arg, val)  == Logic(f, arg | val)
eor(f, arg, val) == Logic(f, arg ^^ val)
ld(f, arg)       == Logic(f, arg)

Sum(f, arg, val, carry) ==
  LET sum == arg + val + carry
      res == sum % 256
      c   == Only(sum \div 2, 128)
      x   == ((arg ^^ val) ^^ res) ^^ c
  IN  Ret([H |-> x, N |-> res, Z |-> res, OV |-> x, C |-> c], res)

adc(f, arg, val) == Sum(f, arg, val, Carry(f))
add(f, arg, val) == Sum(f, arg, val, 0)

Difference(f, arg, val, borrow) ==
  LET diff == Unsigned(arg - val - borrow)
      res  == diff % 256
  IN  Ret([f EXCEPT !.C = Only(diff, 256), !.N = res, !.Z = res,
                    !.OV = (arg ^^ val) & (arg ^^ res)], res)

\* Mutant: the borrow is forgotten.
sbc_no_borrow(f, arg, val) == Difference(f, arg, val, 0)

sbc(f, arg, val) == Difference(f, arg, val, Carry(f))
sub(f, arg, val) == Difference(f, arg, val, 0)
cmp(f, arg, val) == Difference(f, arg, val, 0)

asl(f, arg) ==
  LET res == (2 * arg) % 256
  IN  Ret([f EXCEPT !.C = Only(2 * arg, 256), !.N = res, !.Z = res, !.OV = arg ^^ res], res)

asr(f, arg) ==
  LET x   == Unsigned(Signed(arg, 256))
      res == (x \div 2) % 256
  IN  Ret([f EXCEPT !.C = x % 2, !.N = res, !.Z = res], res)

clr(f, arg) == Ret([f EXCEPT !.C = 0, !.N = 0, !.Z = 0, !.OV = 0], 0)

com(f, arg) ==
  LET res == arg ^^ 255
  IN  Ret([f EXCEPT !.N = res, !.Z = res, !.OV = 0, !.C = 1], res)

dec(f, arg) ==
  LET res == (arg - 1) % 256
  IN  Ret([f EXCEPT !.N = res, !.Z = res, !.OV = arg & (255 - res)], res)

inc(f, arg) ==
  LET res == (arg + 1) % 256
  IN  Ret([f EXCEPT !.N = res, !.Z = res, !.OV = (255 - arg) & res], res)

lsr(f, arg) ==
  LET res == arg \div 2
  IN  Ret([f EXCEPT !.N = 0, !.Z = res, !.C = arg % 2], res)

neg(f, arg) ==
  LET res == (-arg) % 256
  IN  Ret([f EXCEPT !.C = res, !.N = res, !.Z = res, !.OV = res & arg], res)

rol(f, arg) ==
  LET x   == 2 * arg + Carry(f)
      res == x % 256
  IN  Ret([f EXCEPT !.C = Only(x, 256), !.N = res, !.Z = res, !.OV = arg ^^ res], res)

ror(f, arg) ==
  LET x   == arg + 256 * Carry(f)
      res == x \div 2
  IN  Ret([f EXCEPT !.C = x % 2, !.N = res, !.Z = res], res)

tst(f, arg) == Logic(f, arg)

\* The second and the third correction may both be applied.
daa(f, a) ==
  LET lsn == a % 16
      msn == a - lsn
      res == a + (IF lsn > 9 \/ Has(f.H, 16) THEN 6 ELSE 0)
               + (IF msn > 128 /\ lsn > 9 THEN 96 ELSE 0)
               + (IF msn > 144 \/ f.C # 0 THEN 96 ELSE 0)
      low == res % 256
  IN  Ret([f EXCEPT !.C = IF Has(res, 256) THEN WithBit(@, 256) ELSE @, !.N = low, !.Z = low, !.OV = 0], low)

\* Both return D.
mul(f, a, b) ==
  LET res == (a * b) % 65536
  IN  Ret([f EXCEPT !.Z = res, !.C = Only(res, 128)], res)

sex(f, b) ==
  LET sign == Only(b, 128)
  IN  Ret([f EXCEPT !.Z = b, !.N = sign], b + (IF sign # 0 THEN 65280 ELSE 0))

-----------------------------------------------------------------------------
(* 16-bit operations. *)

addd(f, arg, val) ==
  LET sum == arg + val
      res == sum % 65536
  IN  Ret([f EXCEPT !.C = Only(sum, 65536), !.Z = res, !.N = res \div 256,
                    !.OV = ((arg ^^ res) & (val ^^ res)) \div 256], res)

cmp16(f, arg, val) ==
  LET diff == Unsigned(arg - val)
      res  == diff % 65536
  IN  Ret([f EXCEPT !.C = Only(diff, 65536), !.Z = res, !.N = res \div 256,
                    !.OV = ((arg ^^ val) & (arg ^^ res)) \div 256], res)

subd(f, arg, val) == cmp16(f, arg, val)

ld16(f, arg) == Ret([f EXCEPT !.Z = arg, !.N = arg \div 256, !.OV = 0], arg)

-----------------------------------------------------------------------------
(* The branch conditions. *)

Sign(x) == Has(x, 128)

\* Mutant: BHI looks at the carry only.
cond_HI_carry_only(f) == f.C = 0

cond_HI(f) == f.Z # 0 /\ f.C = 0
cond_HS(f) == f.C = 0
cond_NE(f) == f.Z # 0
cond_VC(f) == ~Sign(f.OV)
cond_PL(f) == ~Sign(f.N)
cond_GE(f) == Sign(f.N) = Sign(f.OV)
cond_GT(f) == cond_GE(f) /\ f.Z # 0

\* The condition of the branch opcodes 2x and 10 2x; the odd ones negate.
cond(n, f) ==
  LET even == CASE n \div 2 = 0 -> TRUE
                [] n \div 2 = 1 -> cond_HI(f)
                [] n \div 2 = 2 -> cond_HS(f)
                [] n \div 2 = 3 -> cond_NE(f)
                [] n \div 2 = 4 -> cond_VC(f)
                [] n \div 2 = 5 -> cond_PL(f)
                [] n \div 2 = 6 -> cond_GE(f)
                [] n \div 2 = 7 -> cond_GT(f)
  IN  IF n % 2 = 0 THEN even ELSE ~even
=============================================================================
