----------------------------- MODULE AluProofs ------------------------------
(***************************************************************************)
(* Proofs about the arithmetic of the 6809 and its condition codes: the values*)
(* that 6809.c keeps in H, N, Z, OV and C decode to the flags of two's-    *)
(* complement arithmetic, and those of a subtraction order its operands.   *)
(***************************************************************************)
EXTENDS Insn6809, TLAPS

-----------------------------------------------------------------------------
(* Bits. *)

\* A byte as the eight bits it has.
LEMMA ByteBitsIs ==
  ASSUME NEW b128 \in {0, 128}, NEW b64 \in {0, 64}, NEW b32 \in {0, 32}, NEW b16 \in {0, 16},
         NEW b8 \in {0, 8}, NEW b4 \in {0, 4}, NEW b2 \in {0, 2}, NEW b1 \in {0, 1}
  PROVE  LET x == b128 + b64 + b32 + b16 + b8 + b4 + b2 + b1
         IN  /\ x \in Byte
             /\ Has(x, 128) <=> b128 # 0
             /\ Has(x, 16) <=> b16 # 0
<1>1. b128 + b64 + b32 + b16 + b8 + b4 + b2 + b1 \in Byte
  BY DEF Byte
<1>2. Has(b128 + b64 + b32 + b16 + b8 + b4 + b2 + b1, 128) <=> b128 # 0
  BY DEF Has
<1>3. Has(b128 + b64 + b32 + b16 + b8 + b4 + b2 + b1, 16) <=> b16 # 0
  <2>1. PICK h \in 0..7 : b128 + b64 + b32 = 32 * h
    <3>1. b128 + b64 + b32 = 32 * (b128 \div 32 + b64 \div 32 + b32 \div 32)
      OBVIOUS
    <3> QED
      BY <3>1
  <2>2. PICK l \in 0..15 : b8 + b4 + b2 + b1 = l
    OBVIOUS
  <2>3. Has(32 * h + b16 + l, 16) <=> b16 # 0
    BY DEF Has
  <2> QED
    BY <2>1, <2>2, <2>3
<1> QED
  BY <1>1, <1>2, <1>3

\* The bit operators on bytes give bytes, and the bits the flags are read from are those
\* of the operands.
LEMMA ByteOps8 ==
  ASSUME NEW x, NEW y
  PROVE  /\ ByteXor(x, y) \in Byte
         /\ Has(ByteXor(x, y), 128) <=> ~(Has(x, 128) <=> Has(y, 128))
         /\ Has(ByteXor(x, y), 16) <=> ~(Has(x, 16) <=> Has(y, 16))
         /\ ByteAnd(x, y) \in Byte
         /\ Has(ByteAnd(x, y), 128) <=> (Has(x, 128) /\ Has(y, 128))
         /\ Has(ByteAnd(x, y), 16) <=> (Has(x, 16) /\ Has(y, 16))
         /\ ByteOr(x, y) \in Byte
         /\ Has(ByteOr(x, y), 128) <=> (Has(x, 128) \/ Has(y, 128))
         /\ Has(ByteOr(x, y), 16) <=> (Has(x, 16) \/ Has(y, 16))
<1>1. /\ ByteXor(x, y) \in Byte
      /\ Has(ByteXor(x, y), 128) <=> ~(Has(x, 128) <=> Has(y, 128))
      /\ Has(ByteXor(x, y), 16) <=> ~(Has(x, 16) <=> Has(y, 16))
  <2> DEFINE bit(m) == IF (Has(x, m) # Has(y, m)) THEN m ELSE 0
  <2>1. ByteXor(x, y) = bit(128) + bit(64) + bit(32) + bit(16) + bit(8) + bit(4) + bit(2) + bit(1)
    BY DEF ByteXor, Masks
  <2>2. /\ bit(128) \in {0, 128}
        /\ bit(64) \in {0, 64}
        /\ bit(32) \in {0, 32}
        /\ bit(16) \in {0, 16}
        /\ bit(8) \in {0, 8}
        /\ bit(4) \in {0, 4}
        /\ bit(2) \in {0, 2}
        /\ bit(1) \in {0, 1}
        /\ bit(128) # 0 <=> ~(Has(x, 128) <=> Has(y, 128))
        /\ bit(16) # 0 <=> ~(Has(x, 16) <=> Has(y, 16))
    BY DEF Has
  <2> HIDE DEF bit
  <2> QED
    BY <2>1, <2>2, ByteBitsIs
<1>2. /\ ByteAnd(x, y) \in Byte
      /\ Has(ByteAnd(x, y), 128) <=> (Has(x, 128) /\ Has(y, 128))
      /\ Has(ByteAnd(x, y), 16) <=> (Has(x, 16) /\ Has(y, 16))
  <2> DEFINE bit(m) == IF (Has(x, m) /\ Has(y, m)) THEN m ELSE 0
  <2>1. ByteAnd(x, y) = bit(128) + bit(64) + bit(32) + bit(16) + bit(8) + bit(4) + bit(2) + bit(1)
    BY DEF ByteAnd, Masks
  <2>2. /\ bit(128) \in {0, 128}
        /\ bit(64) \in {0, 64}
        /\ bit(32) \in {0, 32}
        /\ bit(16) \in {0, 16}
        /\ bit(8) \in {0, 8}
        /\ bit(4) \in {0, 4}
        /\ bit(2) \in {0, 2}
        /\ bit(1) \in {0, 1}
        /\ bit(128) # 0 <=> (Has(x, 128) /\ Has(y, 128))
        /\ bit(16) # 0 <=> (Has(x, 16) /\ Has(y, 16))
    OBVIOUS
  <2> HIDE DEF bit
  <2> QED
    BY <2>1, <2>2, ByteBitsIs
<1>3. /\ ByteOr(x, y) \in Byte
      /\ Has(ByteOr(x, y), 128) <=> (Has(x, 128) \/ Has(y, 128))
      /\ Has(ByteOr(x, y), 16) <=> (Has(x, 16) \/ Has(y, 16))
  <2> DEFINE bit(m) == IF (Has(x, m) \/ Has(y, m)) THEN m ELSE 0
  <2>1. ByteOr(x, y) = bit(128) + bit(64) + bit(32) + bit(16) + bit(8) + bit(4) + bit(2) + bit(1)
    BY DEF ByteOr, Masks
  <2>2. /\ bit(128) \in {0, 128}
        /\ bit(64) \in {0, 64}
        /\ bit(32) \in {0, 32}
        /\ bit(16) \in {0, 16}
        /\ bit(8) \in {0, 8}
        /\ bit(4) \in {0, 4}
        /\ bit(2) \in {0, 2}
        /\ bit(1) \in {0, 1}
        /\ bit(128) # 0 <=> (Has(x, 128) \/ Has(y, 128))
        /\ bit(16) # 0 <=> (Has(x, 16) \/ Has(y, 16))
    OBVIOUS
  <2> HIDE DEF bit
  <2> QED
    BY <2>1, <2>2, ByteBitsIs
<1> QED
  BY <1>1, <1>2, <1>3

\* The upper bytes of two bytes have no bit.
LEMMA NoBits == ByteXor(0, 0) = 0 /\ ByteAnd(0, 0) = 0 /\ ByteOr(0, 0) = 0
<1>1. \A m \in {1, 2, 4, 8, 16, 32, 64, 128} : ~Has(0, m)
  BY DEF Has
<1> QED
  BY <1>1 DEF ByteXor, ByteAnd, ByteOr, Masks

\* On bytes the operators are those of bytes.
LEMMA OnBytes ==
  ASSUME NEW x \in Byte, NEW y \in Byte
  PROVE  x ^^ y = ByteXor(x, y) /\ x & y = ByteAnd(x, y) /\ x | y = ByteOr(x, y)
<1>1. x \div 256 = 0 /\ y \div 256 = 0 /\ x % 256 = x /\ y % 256 = y
  BY DEF Byte
<1>2. ByteXor(x, y) \in Byte /\ ByteAnd(x, y) \in Byte /\ ByteOr(x, y) \in Byte
  BY ByteOps8
<1> QED
  BY <1>1, <1>2, NoBits DEF ^^, &, |, Byte

\* The two bytes of a word.
LEMMA Bytes2 ==
  ASSUME NEW h \in Byte, NEW l \in Byte
  PROVE  256 * h + l \in Word /\ (256 * h + l) \div 256 = h /\ (256 * h + l) % 256 = l
BY DEF Word, Byte

\* The bit operators work on the two bytes of a word separately.
LEMMA OnWords ==
  ASSUME NEW x \in Word, NEW y \in Word
  PROVE  /\ x ^^ y \in Word /\ (x ^^ y) \div 256 = ByteXor(x \div 256, y \div 256)
         /\ x & y \in Word /\ (x & y) \div 256 = ByteAnd(x \div 256, y \div 256)
<1>1. /\ ByteXor(x \div 256, y \div 256) \in Byte /\ ByteXor(x % 256, y % 256) \in Byte
      /\ ByteAnd(x \div 256, y \div 256) \in Byte /\ ByteAnd(x % 256, y % 256) \in Byte
  BY ByteOps8
<1>2. /\ x ^^ y = 256 * ByteXor(x \div 256, y \div 256) + ByteXor(x % 256, y % 256)
      /\ x & y = 256 * ByteAnd(x \div 256, y \div 256) + ByteAnd(x % 256, y % 256)
  BY DEF ^^, &
<1>3. ASSUME NEW h \in Byte, NEW l \in Byte, NEW z, z = 256 * h + l
      PROVE  z \in Word /\ z \div 256 = h
  BY <1>3, Bytes2
<1>4. x ^^ y \in Word /\ (x ^^ y) \div 256 = ByteXor(x \div 256, y \div 256)
  BY <1>1, <1>2, <1>3
<1>5. x & y \in Word /\ (x & y) \div 256 = ByteAnd(x \div 256, y \div 256)
  BY <1>1, <1>2, <1>3
<1> QED
  BY <1>4, <1>5

\* The sign bit of a byte and of a word.
LEMMA SignBit ==
  /\ \A x \in Byte : Has(x, 128) <=> x >= 128
  /\ \A x \in Word : x \div 256 \in Byte /\ x % 256 \in Byte /\ (Has(x \div 256, 128) <=> x >= 32768)
BY DEF Has, Word, Byte

\* Bits 7 and 4 of an exclusive or.
LEMMA XorByte ==
  ASSUME NEW x \in Byte, NEW y \in Byte
  PROVE  /\ x ^^ y \in Byte
         /\ Has(x ^^ y, 128) <=> ~(x >= 128 <=> y >= 128)
         /\ Has(x ^^ y, 16) <=> ~(Has(x, 16) <=> Has(y, 16))
<1>1. x ^^ y = ByteXor(x, y)
  BY OnBytes
<1>2. /\ ByteXor(x, y) \in Byte
      /\ Has(ByteXor(x, y), 128) <=> ~(Has(x, 128) <=> Has(y, 128))
      /\ Has(ByteXor(x, y), 16) <=> ~(Has(x, 16) <=> Has(y, 16))
  BY ByteOps8
<1>3. (Has(x, 128) <=> x >= 128) /\ (Has(y, 128) <=> y >= 128)
  BY SignBit
<1> QED
  BY <1>1, <1>2, <1>3

\* Bit 7 of an and.
LEMMA AndByte ==
  ASSUME NEW x \in Byte, NEW y \in Byte
  PROVE  /\ x & y \in Byte
         /\ Has(x & y, 128) <=> (x >= 128 /\ y >= 128)
<1>1. x & y = ByteAnd(x, y)
  BY OnBytes
<1>2. /\ ByteAnd(x, y) \in Byte
      /\ Has(ByteAnd(x, y), 128) <=> (Has(x, 128) /\ Has(y, 128))
  BY ByteOps8
<1>3. (Has(x, 128) <=> x >= 128) /\ (Has(y, 128) <=> y >= 128)
  BY SignBit
<1> QED
  BY <1>1, <1>2, <1>3

\* An or of bytes is a byte.
LEMMA OrByte ==
  ASSUME NEW x \in Byte, NEW y \in Byte
  PROVE  x | y \in Byte
<1>1. ByteOr(x, y) \in Byte
  BY ByteOps8
<1> QED
  BY <1>1, OnBytes

\* The bit 15 of (x ^^ y) & (z ^^ u).
LEMMA OverflowWord ==
  ASSUME NEW x \in Word, NEW y \in Word, NEW z \in Word, NEW u \in Word
  PROVE  /\ ((x ^^ y) & (z ^^ u)) \div 256 \in Byte
         /\ Has(((x ^^ y) & (z ^^ u)) \div 256, 128)
              <=> ~(x >= 32768 <=> y >= 32768) /\ ~(z >= 32768 <=> u >= 32768)
<1>0. ASSUME NEW a \in Word, NEW b \in Word
      PROVE  /\ a ^^ b \in Word
             /\ Has((a ^^ b) \div 256, 128) <=> ~(a >= 32768 <=> b >= 32768)
  <2>1. a ^^ b \in Word /\ (a ^^ b) \div 256 = ByteXor(a \div 256, b \div 256)
    BY OnWords
  <2>2. Has(ByteXor(a \div 256, b \div 256), 128) <=> ~(Has(a \div 256, 128) <=> Has(b \div 256, 128))
    BY ByteOps8
  <2>3. (Has(a \div 256, 128) <=> a >= 32768) /\ (Has(b \div 256, 128) <=> b >= 32768)
    BY SignBit
  <2> QED
    BY <2>1, <2>2, <2>3
<1> DEFINE p == x ^^ y
           q == z ^^ u
<1>1. p \in Word /\ q \in Word
  BY <1>0
<1> HIDE DEF p, q
<1>2. (p & q) \div 256 = ByteAnd(p \div 256, q \div 256)
  BY <1>1, OnWords
<1>3. /\ ByteAnd(p \div 256, q \div 256) \in Byte
      /\ Has(ByteAnd(p \div 256, q \div 256), 128) <=> (Has(p \div 256, 128) /\ Has(q \div 256, 128))
  BY ByteOps8
<1>4. /\ Has(p \div 256, 128) <=> ~(x >= 32768 <=> y >= 32768)
      /\ Has(q \div 256, 128) <=> ~(z >= 32768 <=> u >= 32768)
  BY <1>0 DEF p, q
<1>5. (p & q) \div 256 \in Byte
      /\ (Has((p & q) \div 256, 128) <=> ~(x >= 32768 <=> y >= 32768) /\ ~(z >= 32768 <=> u >= 32768))
  BY <1>2, <1>3, <1>4
<1> QED
  BY <1>5 DEF p, q

-----------------------------------------------------------------------------
(* The arithmetic: each operation leaves values that decode to the flags of *)
(* two's-complement arithmetic.                                            *)

\* The five values decode to half carry, negative, zero, overflow and carry.
Decodes(f, h, n, z, v, c) ==
  /\ f \in Lazy
  /\ Has(f.H, 16) <=> h
  /\ Has(f.N, 128) <=> n
  /\ f.Z = 0 <=> z
  /\ Has(f.OV, 128) <=> v
  /\ f.C # 0 <=> c

\* Words are numbers.
LEMMA WordIs == \A w \in Word : w \in Nat /\ w \in Int
BY DEF Word

\* Bytes and words are numbers.
LEMMA ByteInNat == Byte \subseteq Nat /\ Word \subseteq Nat /\ Byte \subseteq Word
BY DEF Byte, Word

\* A byte around its bit 4.
LEMMA AroundBit4 ==
  ASSUME NEW x \in Byte
  PROVE  \E h \in Nat, b \in {0, 1}, l \in Nat :
           /\ x = 32 * h + 16 * b + l /\ h < 8 /\ l < 16
           /\ (Has(x, 16) <=> b = 1) /\ x % 16 = l
<1> DEFINE h == x \div 32
           l == x % 16
           b == x \div 16 - 2 * h
<1>1. h \in Nat /\ l \in Nat /\ h < 8 /\ l < 16 /\ x = 32 * h + 16 * b + l
  BY DEF Byte
<1>2. b \in {0, 1}
  BY DEF Byte
<1>3. Has(x, 16) <=> b = 1
  BY <1>2 DEF Has, Byte
<1> QED
  BY <1>1, <1>2, <1>3

\* The half carry: the bit 4 of a sum is that of the operands, but for the carry
\* out of bit 3.
LEMMA HalfCarry ==
  ASSUME NEW x \in Byte, NEW y \in Byte, NEW k \in {0, 1}
  PROVE  (x % 16) + (y % 16) + k > 15
           <=> ~(~(Has(x, 16) <=> Has(y, 16)) <=> Has((x + y + k) % 256, 16))
<1>1. PICK xh \in Nat, xb \in {0, 1}, xl \in Nat :
        /\ x = 32 * xh + 16 * xb + xl /\ xh < 8 /\ xl < 16
        /\ (Has(x, 16) <=> xb = 1) /\ x % 16 = xl
  BY AroundBit4
<1>2. PICK yh \in Nat, yb \in {0, 1}, yl \in Nat :
        /\ y = 32 * yh + 16 * yb + yl /\ yh < 8 /\ yl < 16
        /\ (Has(y, 16) <=> yb = 1) /\ y % 16 = yl
  BY AroundBit4
<1>6. ASSUME NEW c \in {0, 1}, NEW b \in {0, 1}, NEW d \in {0, 1}, NEW l \in Nat,
             xl + yl + k = 16 * c + l, l < 16, xb + yb + c = 2 * d + b
      PROVE  Has((x + y + k) % 256, 16) <=> b = 1
  <2> DEFINE h == xh + yh + d
  <2>1. x + y + k = 32 * h + 16 * b + l
    BY <1>1, <1>2, <1>6
  <2>2. h \in Nat /\ h < 16
    BY <1>1, <1>2, <1>6
  <2> HIDE DEF h
  <2>3. Has((32 * h + 16 * b + l) % 256, 16) <=> b = 1
    BY <2>2, <1>6 DEF Has
  <2> QED
    BY <2>1, <2>3
<1>7. PICK c \in {0, 1}, l \in Nat : xl + yl + k = 16 * c + l /\ l < 16 /\ (c = 1 <=> xl + yl + k > 15)
  <2>1. CASE xl + yl + k > 15
    <3> WITNESS 1 \in {0, 1}, xl + yl + k - 16 \in Nat
    <3> QED
      BY <2>1, <1>1, <1>2
  <2>2. CASE ~(xl + yl + k > 15)
    <3> WITNESS 0 \in {0, 1}, xl + yl + k \in Nat
    <3> QED
      BY <2>2, <1>1, <1>2
  <2> QED
    BY <2>1, <2>2
<1>8. PICK b \in {0, 1}, d \in {0, 1} : xb + yb + c = 2 * d + b /\ (b = 1 <=> ~(~(xb = 1 <=> yb = 1) <=> c = 1))
  OBVIOUS
<1>9. Has((x + y + k) % 256, 16) <=> b = 1
  BY <1>6, <1>7, <1>8
<1> QED
  BY <1>1, <1>2, <1>7, <1>8, <1>9

\* The bit an operation keeps is 0 or its mask.
LEMMA OnlyIs ==
  ASSUME NEW x, NEW m \in Nat, m > 0
  PROVE  Only(x, m) \in {0, m} /\ (Only(x, m) # 0 <=> Has(x, m))
BY DEF Only

\* A value N or OV of 0 to 255 whose bit 7 is meant, and Z.
LEMMA ByteFlags ==
  ASSUME NEW r \in Byte
  PROVE  r \in Nat /\ (Has(r, 128) <=> r >= 128)
BY SignBit, ByteInNat

\* ADD and ADC: the sum, and the values left in H, N, Z, OV and C.
LEMMA SumExact ==
  ASSUME NEW f, NEW x \in Byte, NEW y \in Byte, NEW k \in {0, 1}
  PROVE  LET r == Sum(f, x, y, k)
         IN  /\ r.res = (x + y + k) % 256
             /\ r.res \in Byte
             /\ Decodes(r.f, (x % 16) + (y % 16) + k > 15, r.res >= 128, r.res = 0,
                        Outside(Signed(x, 256) + Signed(y, 256) + k, 256), x + y + k >= 256)
<1> DEFINE res == (x + y + k) % 256
           c == Only((x + y + k) \div 2, 128)
           bits == ((x ^^ y) ^^ res) ^^ c
<1>1. Sum(f, x, y, k) = [f |-> [H |-> bits, N |-> res, Z |-> res, OV |-> bits, C |-> c], res |-> res]
  BY DEF Sum, Ret
<1>2. res \in Byte
  BY DEF Byte
<1>3. c \in {0, 128} /\ (c # 0 <=> x + y + k >= 256)
  <2>1. Has((x + y + k) \div 2, 128) <=> x + y + k >= 256
    BY DEF Has, Byte
  <2> QED
    BY <2>1, OnlyIs
<1>4. c \in Byte /\ (c >= 128 <=> x + y + k >= 256) /\ ~Has(c, 16)
  BY <1>3 DEF Has, Byte
<1>5. res >= 128 <=> \/ x + y + k >= 128 /\ x + y + k < 256
                     \/ x + y + k >= 384
  BY DEF Byte
<1>6. Outside(Signed(x, 256) + Signed(y, 256) + k, 256)
        <=> ~(~(~(x >= 128 <=> y >= 128) <=> res >= 128) <=> x + y + k >= 256)
  <2> DEFINE sx == IF x < 128 THEN x ELSE x - 256
             sy == IF y < 128 THEN y ELSE y - 256
  <2>1. Signed(x, 256) = sx /\ Signed(y, 256) = sy
    BY DEF Signed, Byte
  <2>2. Outside(sx + sy + k, 256) <=> sx + sy + k < -128 \/ sx + sy + k >= 128
    BY DEF Outside
  <2>3. sx + sy + k < -128 \/ sx + sy + k >= 128
          <=> ~(~(~(x >= 128 <=> y >= 128) <=> (\/ x + y + k >= 128 /\ x + y + k < 256
                     \/ x + y + k >= 384)) <=> x + y + k >= 256)
    BY DEF Byte
  <2> QED
    BY <2>1, <2>2, <2>3, <1>5
<1>7. Has(res, 16) <=> ~(~(Has(x, 16) <=> Has(y, 16)) <=> (x % 16) + (y % 16) + k > 15)
  BY HalfCarry
<1> HIDE DEF res, c
<1>8. x ^^ y \in Byte /\ (x ^^ y) ^^ res \in Byte /\ bits \in Byte
  BY <1>2, <1>4, XorByte
<1>9. Has(bits, 128) <=> ~(~(~(x >= 128 <=> y >= 128) <=> res >= 128) <=> c >= 128)
  <2>1. Has(x ^^ y, 128) <=> ~(x >= 128 <=> y >= 128)
    BY XorByte
  <2>2. Has((x ^^ y) ^^ res, 128) <=> ~(x ^^ y >= 128 <=> res >= 128)
    BY <1>8, <1>2, XorByte, ZenonT(60)
  <2>3. Has(bits, 128) <=> ~((x ^^ y) ^^ res >= 128 <=> c >= 128)
    BY <1>8, <1>4, XorByte, ZenonT(60)
  <2>4. (Has(x ^^ y, 128) <=> x ^^ y >= 128) /\ (Has((x ^^ y) ^^ res, 128) <=> (x ^^ y) ^^ res >= 128)
    BY <1>8, SignBit
  <2> QED
    BY <2>1, <2>2, <2>3, <2>4
<1>10. Has(bits, 16) <=> (x % 16) + (y % 16) + k > 15
  <2>1. Has(x ^^ y, 16) <=> ~(Has(x, 16) <=> Has(y, 16))
    BY XorByte
  <2>2. Has((x ^^ y) ^^ res, 16) <=> ~(Has(x ^^ y, 16) <=> Has(res, 16))
    BY <1>8, <1>2, XorByte
  <2>3. Has(bits, 16) <=> ~(Has((x ^^ y) ^^ res, 16) <=> Has(c, 16))
    BY <1>8, <1>4, XorByte, ZenonT(60)
  <2> QED
    BY <2>1, <2>2, <2>3, <1>7, <1>4
<1>11. Has(res, 128) <=> res >= 128
  BY <1>2, SignBit
<1>12. bits \in Nat /\ res \in Nat /\ c \in Nat
  BY <1>2, <1>4, <1>8, ByteInNat
<1> HIDE DEF bits
<1> QED
  BY <1>1, <1>2, <1>3, <1>4, <1>6, <1>9, <1>10, <1>11, <1>12 DEF Decodes, Lazy, res

\* The difference, its low byte, and the values of C and OV.
Diff(x, y, k)     == Unsigned(x - y - k)
DiffLow(x, y, k)  == Diff(x, y, k) % 256
DiffC(x, y, k)    == Only(Diff(x, y, k), 256)
DiffV(x, y, k)    == (x ^^ y) & (x ^^ DiffLow(x, y, k))
IsDiffV(x, y, k)  == Outside(Signed(x, 256) - Signed(y, 256) - k, 256)

\* SUB, SBC and CMP: the low byte, the borrow and the overflow.
LEMMA DifferenceBits ==
  ASSUME NEW x \in Byte, NEW y \in Byte, NEW k \in Nat, k <= 1
  PROVE  /\ DiffLow(x, y, k) = (x - y - k) % 256
         /\ DiffC(x, y, k) \in Nat
         /\ DiffC(x, y, k) # 0 <=> x < y + k
         /\ DiffV(x, y, k) \in Nat
         /\ Has(DiffV(x, y, k), 128) <=> IsDiffV(x, y, k)
<1> DEFINE diff == Unsigned(x - y - k)
           res == (x - y - k) % 256
           c == Only(diff, 256)
           bits == (x ^^ y) & (x ^^ res)
<1>1. diff % 256 = res /\ (Has(diff, 256) <=> x < y + k)
  <2>1. CASE x - y - k >= 0
    <3>1. diff = x - y - k
      BY <2>1 DEF Unsigned, Byte
    <3> QED
      BY <2>1, <3>1 DEF Has, Byte
  <2>2. CASE x - y - k < 0
    <3>1. diff = x - y - k + 16777216 /\ x - y - k >= -256
      BY <2>2 DEF Unsigned, Byte
    <3>2. diff \div 256 = 65535
      BY <3>1, <2>2 DEF Byte
    <3>3. diff % 256 = res
      BY <3>1 DEF Byte
    <3> QED
      BY <2>2, <3>2, <3>3 DEF Has, Byte
  <2> QED
    BY <2>1, <2>2 DEF Byte
<1>3. res \in Byte
  BY DEF Byte
<1>4. c \in {0, 256} /\ (c # 0 <=> x < y + k)
  BY <1>1, OnlyIs
<1>5. Outside(Signed(x, 256) - Signed(y, 256) - k, 256)
        <=> ~(x >= 128 <=> y >= 128) /\ ~(x >= 128 <=> res >= 128)
  <2>1. Signed(x, 256) = (IF x < 128 THEN x ELSE x - 256) /\ Signed(y, 256) = (IF y < 128 THEN y ELSE y - 256)
    BY DEF Signed, Byte
  <2>2. \A n \in Int : Outside(n, 256) <=> n < -128 \/ n >= 128
    BY DEF Outside
  <2>3. x \in Int /\ 0 <= x /\ x < 256 /\ y \in Int /\ 0 <= y /\ y < 256
    BY DEF Byte
  <2>4. CASE x >= y + k
    <3>1. res = x - y - k
      BY <2>3, <2>4
    <3> QED
      BY <2>1, <2>2, <2>3, <2>4, <3>1
  <2>5. CASE ~(x >= y + k)
    <3>1. res = x - y - k + 256
      BY <2>3, <2>5
    <3> QED
      BY <2>1, <2>2, <2>3, <2>5, <3>1
  <2> QED
    BY <2>4, <2>5
<1> HIDE DEF res, c, diff
<1>6. x ^^ y \in Byte /\ x ^^ res \in Byte /\ bits \in Byte
  BY <1>3, XorByte, AndByte
<1>7. Has(bits, 128) <=> ~(x >= 128 <=> y >= 128) /\ ~(x >= 128 <=> res >= 128)
  <2>1. /\ Has(x ^^ y, 128) <=> ~(x >= 128 <=> y >= 128)
        /\ Has(x ^^ res, 128) <=> ~(x >= 128 <=> res >= 128)
    BY <1>3, XorByte
  <2>2. Has(bits, 128) <=> (x ^^ y >= 128 /\ x ^^ res >= 128)
    BY <1>6, AndByte
  <2>3. (Has(x ^^ y, 128) <=> x ^^ y >= 128) /\ (Has(x ^^ res, 128) <=> x ^^ res >= 128)
    BY <1>6, SignBit
  <2> QED
    BY <2>1, <2>2, <2>3
<1>8. bits \in Nat
  BY <1>6, ByteInNat
<1>a. c \in Nat
  BY <1>4
<1>9. /\ diff % 256 = res /\ res \in Byte /\ c \in Nat /\ (c # 0 <=> x < y + k) /\ bits \in Nat
      /\ Has(bits, 128) <=> Outside(Signed(x, 256) - Signed(y, 256) - k, 256)
  BY <1>1, <1>3, <1>4, <1>5, <1>7, <1>8, <1>a
<1>10. (x ^^ y) & (x ^^ (diff % 256)) = bits
  BY <1>1
<1> HIDE DEF bits
<1> QED
  BY <1>1, <1>9, <1>10 DEF diff, res, c, Diff, DiffLow, DiffC, DiffV, IsDiffV

\* A byte is the sum of its bits, and its exclusive or with 255 what it lacks.
LEMMA Complement ==
  ASSUME NEW x \in Byte
  PROVE  x ^^ 255 = 255 - x
<1> DEFINE q(m) == x \div m
           b(m) == q(m) % 2
<1>1. /\ q(1) = x /\ q(1) = 2 * q(2) + b(1) /\ q(2) = 2 * q(4) + b(2) /\ q(4) = 2 * q(8) + b(4)
      /\ q(8) = 2 * q(16) + b(8) /\ q(16) = 2 * q(32) + b(16) /\ q(32) = 2 * q(64) + b(32)
      /\ q(64) = 2 * q(128) + b(64) /\ q(128) = b(128)
  BY DEF Byte
<1>2. \A m \in {1, 2, 4, 8, 16, 32, 64, 128} : q(m) \in Int /\ b(m) \in Int
  BY DEF Byte
<1> DEFINE lack(m) == IF Has(x, m) # Has(255, m) THEN m ELSE 0
<1>3. \A m \in {1, 2, 4, 8, 16, 32, 64, 128} : lack(m) = m - m * b(m)
  BY DEF Has, Byte
<1>4. ByteXor(x, 255) = lack(128) + lack(64) + lack(32) + lack(16) + lack(8) + lack(4) + lack(2) + lack(1)
  BY DEF ByteXor, Masks
<1>5. x ^^ 255 = ByteXor(x, 255)
  BY OnBytes DEF Byte
<1> HIDE DEF lack, q, b
<1> QED
  BY <1>1, <1>2, <1>3, <1>4, <1>5

\* The flags cc that the values f decode to, as far as an operation reads them.
Shows(f, cc) ==
  /\ f \in Lazy /\ cc \in Byte
  /\ Has(cc, H_FLAG) <=> Has(f.H, 16)
  /\ Has(cc, V_FLAG) <=> Has(f.OV, 128)
  /\ Has(cc, C_FLAG) <=> f.C # 0
  /\ cc % 2 = Carry(f)

IdealH(op, x, y, cin, old) ==
  IF op \in {"add", "adc"} THEN (x % 16) + (y % 16) + cin > 15 ELSE Has(old, H_FLAG)

\* The operation op of x and y, after flags old, has the result and the flags of
\* an ideal machine.
Exact(op, x, y, old, r) ==
  LET cin == CarryIn(op, old)
      res == IdealResult(op, x, y, cin)
  IN  /\ r.res = res /\ res \in Word /\ (Width(op) = 256 => res \in Byte)
      /\ Decodes(r.f, IdealH(op, x, y, cin, old), res >= Width(op) \div 2, res = 0,
                 IdealV(op, x, y, cin, old), IdealC(op, x, y, cin, old))

\* Every operation on one byte is exact.
LEMMA UnaryExact ==
  ASSUME NEW op \in UnaryOps, NEW f, NEW x \in Byte, NEW y, NEW cc, Shows(f, cc)
  PROVE  Exact(op, x, y, cc, Unary(op, f, x))
<1> USE DEF Shows
<1>0. /\ op \notin WordOps /\ op \notin {"add", "adc", "addd"}
      /\ op \notin {"sub", "sbc", "cmp", "subd", "cmp16"}
      /\ IdealH(op, x, y, CarryIn(op, cc), cc) <=> Has(f.H, 16)
  BY DEF UnaryOps, WordOps, IdealH
<1>a. x \in Nat /\ x < 256 /\ Width(op) = 256
  BY <1>0 DEF Byte, Width
<1> DEFINE cin == CarryIn(op, cc)
           r == Unary(op, f, x)
<1>b. cc % 2 = Carry(f) /\ Carry(f) \in {0, 1} /\ (Has(cc, C_FLAG) <=> f.C # 0) /\ (Has(cc, V_FLAG) <=> Has(f.OV, 128))
  BY DEF Carry
<1>e. Carry(f) \in {0, 1}
  BY DEF Carry
<1>c. f.H \in Nat /\ f.OV \in Nat /\ f.C \in Nat
  BY DEF Lazy
<1>d. Width(op) = 256 /\ Width(op) \div 2 = 128 /\ \A z \in Byte : z \in Word
  BY <1>a, ByteInNat
<1>1. CASE op = "neg"
  <2> DEFINE res == (-x) % 256
             cv == res
             ov == res & x
             g == [f EXCEPT !.C = cv, !.N = res, !.Z = res, !.OV = ov]
  <2>1. r.res = res /\ r.f = g
    BY <1>1 DEF Unary, neg, Ret
  <2>3. IdealResult(op, x, y, cin) = res
    BY <1>1, <1>0, <1>a, <1>b DEF IdealResult, CarryIn
  <2>11. (IdealV(op, x, y, cin, cc) <=> x = 128) /\ (IdealC(op, x, y, cin, cc) <=> x # 0)
    BY <1>1, <1>0, <1>a, <1>b DEF IdealV, IdealC
  <2>4. res \in Byte
    BY <1>a, <1>b DEF Byte
  <2>5. res \in Nat /\ (Has(res, 128) <=> res >= 128) /\ ~Has(0, 128)
    BY <2>4, ByteFlags DEF Has
  <2>6. cv \in Nat /\ (cv # 0 <=> x # 0)
    BY <1>a
  <2>7. res >= 128 /\ x >= 128 <=> x = 128
    BY <1>a DEF Byte
  <2> HIDE DEF res
  <2>13. ov \in Byte /\ (Has(ov, 128) <=> (res >= 128 /\ x >= 128))
    BY <2>4, <2>7, AndByte
  <2>8. ov \in Nat /\ (Has(ov, 128) <=> x = 128)
    BY <2>7, <2>13, ByteInNat
  <2> HIDE DEF cv, ov
  <2>9. g \in Lazy /\ g.H = f.H /\ g.N = res /\ g.Z = res /\ g.OV = ov /\ g.C = cv
    BY <2>5, <2>6, <2>8 DEF Lazy
  <2> HIDE DEF g
  <2>10. Decodes(g, Has(f.H, 16), res >= 128, res = 0, x = 128, x # 0)
    BY <2>5, <2>6, <2>8, <2>9 DEF Decodes
  <2>12. Decodes(r.f, IdealH(op, x, y, cin, cc), res >= 128, res = 0, IdealV(op, x, y, cin, cc), IdealC(op, x, y, cin, cc))
    BY <2>1, <2>11, <2>10, <1>0 DEF Decodes
  <2> QED
    BY <2>1, <2>3, <2>4, <2>12, <1>d DEF Exact
<1>2. CASE op = "com"
  <2> DEFINE res == x ^^ 255
             cv == 1
             ov == 0
             g == [f EXCEPT !.N = res, !.Z = res, !.OV = ov, !.C = cv]
  <2>1. r.res = res /\ r.f = g
    BY <1>2 DEF Unary, com, Ret
  <2>2. res = 255 - x
    BY Complement
  <2>3. IdealResult(op, x, y, cin) = res
    BY <1>2, <1>0, <1>a, <1>b, <2>2 DEF IdealResult, CarryIn
  <2>11. (IdealV(op, x, y, cin, cc) <=> FALSE) /\ (IdealC(op, x, y, cin, cc) <=> TRUE)
    BY <1>2, <1>0, <1>a, <1>b DEF IdealV, IdealC
  <2>4. res \in Byte
    BY <2>2, <1>a DEF Byte
  <2>5. res \in Nat /\ (Has(res, 128) <=> res >= 128) /\ ~Has(0, 128)
    BY <2>4, ByteFlags DEF Has
  <2>6. cv \in Nat /\ (cv # 0 <=> TRUE)
    OBVIOUS
  <2> HIDE DEF res
  <2>8. ov \in Nat /\ (Has(ov, 128) <=> FALSE)
    BY DEF Has
  <2> HIDE DEF cv, ov
  <2>9. g \in Lazy /\ g.H = f.H /\ g.N = res /\ g.Z = res /\ g.OV = ov /\ g.C = cv
    BY <2>5, <2>6, <2>8 DEF Lazy
  <2> HIDE DEF g
  <2>10. Decodes(g, Has(f.H, 16), res >= 128, res = 0, FALSE, TRUE)
    BY <2>5, <2>6, <2>8, <2>9 DEF Decodes
  <2>12. Decodes(r.f, IdealH(op, x, y, cin, cc), res >= 128, res = 0, IdealV(op, x, y, cin, cc), IdealC(op, x, y, cin, cc))
    BY <2>1, <2>11, <2>10, <1>0 DEF Decodes
  <2> QED
    BY <2>1, <2>3, <2>4, <2>12, <1>d DEF Exact
<1>3. CASE op = "lsr"
  <2> DEFINE res == x \div 2
             cv == x % 2
             ov == f.OV
             g == [f EXCEPT !.C = cv, !.N = 0, !.Z = res, !.OV = ov]
  <2>1. r.res = res /\ r.f = g
    BY <1>3 DEF Unary, lsr, Ret
  <2>3. IdealResult(op, x, y, cin) = res
    BY <1>3, <1>0, <1>a, <1>b DEF IdealResult, CarryIn
  <2>11. (IdealV(op, x, y, cin, cc) <=> Has(f.OV, 128)) /\ (IdealC(op, x, y, cin, cc) <=> x % 2 = 1)
    BY <1>3, <1>0, <1>a, <1>b DEF IdealV, IdealC
  <2>4. res \in Byte
    BY <1>a, <1>b DEF Byte
  <2>5. res \in Nat /\ (Has(res, 128) <=> res >= 128) /\ ~Has(0, 128)
    BY <2>4, ByteFlags DEF Has
  <2>6. cv \in Nat /\ (cv # 0 <=> x % 2 = 1)
    BY <1>a
  <2>7. res < 128
    BY <1>a DEF Byte
  <2> HIDE DEF res
  <2>8. ov \in Nat /\ (Has(ov, 128) <=> Has(f.OV, 128))
    BY <1>b, <1>c
  <2> HIDE DEF cv, ov
  <2>9. g \in Lazy /\ g.H = f.H /\ g.N = 0 /\ g.Z = res /\ g.OV = ov /\ g.C = cv
    BY <2>5, <2>6, <2>8 DEF Lazy, ov
  <2> HIDE DEF g
  <2>10. Decodes(g, Has(f.H, 16), res >= 128, res = 0, Has(f.OV, 128), x % 2 = 1)
    BY <2>5, <2>6, <2>8, <2>9, <2>7 DEF Decodes
  <2>12. Decodes(r.f, IdealH(op, x, y, cin, cc), res >= 128, res = 0, IdealV(op, x, y, cin, cc), IdealC(op, x, y, cin, cc))
    BY <2>1, <2>11, <2>10, <1>0 DEF Decodes
  <2> QED
    BY <2>1, <2>3, <2>4, <2>12, <1>d DEF Exact
<1>4. CASE op = "ror"
  <2> DEFINE res == (x + 256 * Carry(f)) \div 2
             cv == (x + 256 * Carry(f)) % 2
             ov == f.OV
             g == [f EXCEPT !.C = cv, !.N = res, !.Z = res]
  <2>1. r.res = res /\ r.f = g
    BY <1>4 DEF Unary, ror, Ret
  <2>3. IdealResult(op, x, y, cin) = res
    BY <1>4, <1>0, <1>a, <1>b DEF IdealResult, CarryIn
  <2>11. (IdealV(op, x, y, cin, cc) <=> Has(f.OV, 128)) /\ (IdealC(op, x, y, cin, cc) <=> x % 2 = 1)
    BY <1>4, <1>0, <1>a, <1>b DEF IdealV, IdealC
  <2>4. res \in Byte
    BY <1>a, <1>b DEF Byte
  <2>5. res \in Nat /\ (Has(res, 128) <=> res >= 128) /\ ~Has(0, 128)
    BY <2>4, ByteFlags DEF Has
  <2>6. cv \in Nat /\ (cv # 0 <=> x % 2 = 1)
    <3>1. CASE Carry(f) = 0
      BY <1>a, <3>1
    <3>2. CASE Carry(f) = 1
      BY <1>a, <3>2
    <3> QED
      BY <3>1, <3>2, <1>e
  <2> HIDE DEF res
  <2>8. ov \in Nat /\ (Has(ov, 128) <=> Has(f.OV, 128))
    BY <1>b, <1>c
  <2> HIDE DEF cv, ov
  <2>9. g \in Lazy /\ g.H = f.H /\ g.N = res /\ g.Z = res /\ g.OV = ov /\ g.C = cv
    BY <2>5, <2>6, <2>8 DEF Lazy, ov
  <2> HIDE DEF g
  <2>10. Decodes(g, Has(f.H, 16), res >= 128, res = 0, Has(f.OV, 128), x % 2 = 1)
    BY <2>5, <2>6, <2>8, <2>9 DEF Decodes
  <2>12. Decodes(r.f, IdealH(op, x, y, cin, cc), res >= 128, res = 0, IdealV(op, x, y, cin, cc), IdealC(op, x, y, cin, cc))
    BY <2>1, <2>11, <2>10, <1>0 DEF Decodes
  <2> QED
    BY <2>1, <2>3, <2>4, <2>12, <1>d DEF Exact
<1>5. CASE op = "asr"
  <2> DEFINE res == (Unsigned(Signed(x, 256)) \div 2) % 256
             cv == Unsigned(Signed(x, 256)) % 2
             ov == f.OV
             g == [f EXCEPT !.C = cv, !.N = res, !.Z = res]
  <2>1. r.res = res /\ r.f = g
    BY <1>5 DEF Unary, asr, Ret
  <2>2. res = (x \div 2) + 128 * (x \div 128)
    BY <1>a DEF Unsigned, Signed
  <2>3. IdealResult(op, x, y, cin) = res
    BY <1>5, <1>0, <1>a, <1>b, <2>2 DEF IdealResult, CarryIn
  <2>11. (IdealV(op, x, y, cin, cc) <=> Has(f.OV, 128)) /\ (IdealC(op, x, y, cin, cc) <=> x % 2 = 1)
    BY <1>5, <1>0, <1>a, <1>b DEF IdealV, IdealC
  <2>4. res \in Byte
    BY <2>2, <1>a DEF Byte
  <2>5. res \in Nat /\ (Has(res, 128) <=> res >= 128) /\ ~Has(0, 128)
    BY <2>4, ByteFlags DEF Has
  <2>6. cv \in Nat /\ (cv # 0 <=> x % 2 = 1)
    BY <1>a DEF Unsigned, Signed
  <2> HIDE DEF res
  <2>8. ov \in Nat /\ (Has(ov, 128) <=> Has(f.OV, 128))
    BY <1>b, <1>c
  <2> HIDE DEF cv, ov
  <2>9. g \in Lazy /\ g.H = f.H /\ g.N = res /\ g.Z = res /\ g.OV = ov /\ g.C = cv
    BY <2>5, <2>6, <2>8 DEF Lazy, ov
  <2> HIDE DEF g
  <2>10. Decodes(g, Has(f.H, 16), res >= 128, res = 0, Has(f.OV, 128), x % 2 = 1)
    BY <2>5, <2>6, <2>8, <2>9 DEF Decodes
  <2>12. Decodes(r.f, IdealH(op, x, y, cin, cc), res >= 128, res = 0, IdealV(op, x, y, cin, cc), IdealC(op, x, y, cin, cc))
    BY <2>1, <2>11, <2>10, <1>0 DEF Decodes
  <2> QED
    BY <2>1, <2>3, <2>4, <2>12, <1>d DEF Exact
<1>6. CASE op = "asl"
  <2> DEFINE res == (2 * x) % 256
             cv == Only(2 * x, 256)
             ov == x ^^ res
             g == [f EXCEPT !.C = cv, !.N = res, !.Z = res, !.OV = ov]
  <2>1. r.res = res /\ r.f = g
    BY <1>6 DEF Unary, asl, Ret
  <2>3. IdealResult(op, x, y, cin) = res
    BY <1>6, <1>0, <1>a, <1>b DEF IdealResult, CarryIn
  <2>11. (IdealV(op, x, y, cin, cc) <=> ~(x >= 128 <=> x % 128 >= 64)) /\ (IdealC(op, x, y, cin, cc) <=> x >= 128)
    BY <1>6, <1>0, <1>a, <1>b DEF IdealV, IdealC
  <2>4. res \in Byte
    BY <1>a, <1>b DEF Byte
  <2>5. res \in Nat /\ (Has(res, 128) <=> res >= 128) /\ ~Has(0, 128)
    BY <2>4, ByteFlags DEF Has
  <2>6. cv \in Nat /\ (cv # 0 <=> x >= 128)
    BY <1>a, <1>b DEF Only, Has
  <2>7. res >= 128 <=> x % 128 >= 64
    BY <1>a, <1>b DEF Byte
  <2> HIDE DEF res
  <2>8. ov \in Nat /\ (Has(ov, 128) <=> ~(x >= 128 <=> x % 128 >= 64))
    BY <2>4, <2>7, XorByte, ByteInNat, ZenonT(60)
  <2> HIDE DEF cv, ov
  <2>9. g \in Lazy /\ g.H = f.H /\ g.N = res /\ g.Z = res /\ g.OV = ov /\ g.C = cv
    BY <2>5, <2>6, <2>8 DEF Lazy
  <2> HIDE DEF g
  <2>10. Decodes(g, Has(f.H, 16), res >= 128, res = 0, ~(x >= 128 <=> x % 128 >= 64), x >= 128)
    BY <2>5, <2>6, <2>8, <2>9 DEF Decodes
  <2>12. Decodes(r.f, IdealH(op, x, y, cin, cc), res >= 128, res = 0, IdealV(op, x, y, cin, cc), IdealC(op, x, y, cin, cc))
    BY <2>1, <2>11, <2>10, <1>0 DEF Decodes
  <2> QED
    BY <2>1, <2>3, <2>4, <2>12, <1>d DEF Exact
<1>7. CASE op = "rol"
  <2> DEFINE res == (2 * x + Carry(f)) % 256
             cv == Only(2 * x + Carry(f), 256)
             ov == x ^^ res
             g == [f EXCEPT !.C = cv, !.N = res, !.Z = res, !.OV = ov]
  <2>1. r.res = res /\ r.f = g
    BY <1>7 DEF Unary, rol, Ret
  <2>3. IdealResult(op, x, y, cin) = res
    BY <1>7, <1>0, <1>a, <1>b DEF IdealResult, CarryIn
  <2>11. (IdealV(op, x, y, cin, cc) <=> ~(x >= 128 <=> x % 128 >= 64)) /\ (IdealC(op, x, y, cin, cc) <=> x >= 128)
    BY <1>7, <1>0, <1>a, <1>b DEF IdealV, IdealC
  <2>4. res \in Byte
    BY <1>a, <1>b DEF Byte
  <2>5. res \in Nat /\ (Has(res, 128) <=> res >= 128) /\ ~Has(0, 128)
    BY <2>4, ByteFlags DEF Has
  <2>6. cv \in Nat /\ (cv # 0 <=> x >= 128)
    BY <1>a, <1>b DEF Only, Has
  <2>7. res >= 128 <=> x % 128 >= 64
    BY <1>a, <1>b DEF Byte
  <2> HIDE DEF res
  <2>8. ov \in Nat /\ (Has(ov, 128) <=> ~(x >= 128 <=> x % 128 >= 64))
    BY <2>4, <2>7, XorByte, ByteInNat
  <2> HIDE DEF cv, ov
  <2>9. g \in Lazy /\ g.H = f.H /\ g.N = res /\ g.Z = res /\ g.OV = ov /\ g.C = cv
    BY <2>5, <2>6, <2>8 DEF Lazy
  <2> HIDE DEF g
  <2>10. Decodes(g, Has(f.H, 16), res >= 128, res = 0, ~(x >= 128 <=> x % 128 >= 64), x >= 128)
    BY <2>5, <2>6, <2>8, <2>9 DEF Decodes
  <2>12. Decodes(r.f, IdealH(op, x, y, cin, cc), res >= 128, res = 0, IdealV(op, x, y, cin, cc), IdealC(op, x, y, cin, cc))
    BY <2>1, <2>11, <2>10, <1>0 DEF Decodes
  <2> QED
    BY <2>1, <2>3, <2>4, <2>12, <1>d DEF Exact
<1>8. CASE op = "dec"
  <2> DEFINE res == (x - 1) % 256
             co == 255 - res
             cv == f.C
             ov == x & co
             g == [f EXCEPT !.N = res, !.Z = res, !.OV = ov]
  <2>1. r.res = res /\ r.f = g
    BY <1>8 DEF Unary, dec, Ret
  <2>3. IdealResult(op, x, y, cin) = res
    BY <1>8, <1>0, <1>a, <1>b DEF IdealResult, CarryIn
  <2>11. (IdealV(op, x, y, cin, cc) <=> x = 128) /\ (IdealC(op, x, y, cin, cc) <=> Has(cc, C_FLAG))
    BY <1>8, <1>0, <1>a, <1>b DEF IdealV, IdealC
  <2>4. res \in Byte
    BY <1>a, <1>b DEF Byte
  <2>5. res \in Nat /\ (Has(res, 128) <=> res >= 128) /\ ~Has(0, 128)
    BY <2>4, ByteFlags DEF Has
  <2>6. cv \in Nat /\ (cv # 0 <=> Has(cc, C_FLAG))
    BY <1>b, <1>c
  <2>7. co \in Byte /\ (x >= 128 /\ co >= 128 <=> x = 128)
    BY <1>a DEF Byte
  <2> HIDE DEF res, co
  <2>13. ov \in Byte /\ (Has(ov, 128) <=> (x >= 128 /\ co >= 128))
    BY <2>4, <2>7, AndByte
  <2>8. ov \in Nat /\ (Has(ov, 128) <=> x = 128)
    BY <2>7, <2>13, ByteInNat
  <2> HIDE DEF cv, ov
  <2>9. g \in Lazy /\ g.H = f.H /\ g.N = res /\ g.Z = res /\ g.OV = ov /\ g.C = cv
    BY <2>5, <2>6, <2>8 DEF Lazy, cv
  <2> HIDE DEF g
  <2>10. Decodes(g, Has(f.H, 16), res >= 128, res = 0, x = 128, Has(cc, C_FLAG))
    BY <2>5, <2>6, <2>8, <2>9 DEF Decodes
  <2>12. Decodes(r.f, IdealH(op, x, y, cin, cc), res >= 128, res = 0, IdealV(op, x, y, cin, cc), IdealC(op, x, y, cin, cc))
    BY <2>1, <2>11, <2>10, <1>0 DEF Decodes
  <2> QED
    BY <2>1, <2>3, <2>4, <2>12, <1>d DEF Exact
<1>9. CASE op = "inc"
  <2> DEFINE res == (x + 1) % 256
             co == 255 - x
             cv == f.C
             ov == co & res
             g == [f EXCEPT !.N = res, !.Z = res, !.OV = ov]
  <2>1. r.res = res /\ r.f = g
    BY <1>9 DEF Unary, inc, Ret
  <2>3. IdealResult(op, x, y, cin) = res
    BY <1>9, <1>0, <1>a, <1>b DEF IdealResult, CarryIn
  <2>11. (IdealV(op, x, y, cin, cc) <=> x = 127) /\ (IdealC(op, x, y, cin, cc) <=> Has(cc, C_FLAG))
    BY <1>9, <1>0, <1>a, <1>b DEF IdealV, IdealC
  <2>4. res \in Byte
    BY <1>a, <1>b DEF Byte
  <2>5. res \in Nat /\ (Has(res, 128) <=> res >= 128) /\ ~Has(0, 128)
    BY <2>4, ByteFlags DEF Has
  <2>6. cv \in Nat /\ (cv # 0 <=> Has(cc, C_FLAG))
    BY <1>b, <1>c
  <2>7. co \in Byte /\ (co >= 128 /\ res >= 128 <=> x = 127)
    BY <1>a DEF Byte
  <2> HIDE DEF res, co
  <2>13. ov \in Byte /\ (Has(ov, 128) <=> (co >= 128 /\ res >= 128))
    BY <2>4, <2>7, AndByte
  <2>8. ov \in Nat /\ (Has(ov, 128) <=> x = 127)
    BY <2>7, <2>13, ByteInNat
  <2> HIDE DEF cv, ov
  <2>9. g \in Lazy /\ g.H = f.H /\ g.N = res /\ g.Z = res /\ g.OV = ov /\ g.C = cv
    BY <2>5, <2>6, <2>8 DEF Lazy, cv
  <2> HIDE DEF g
  <2>10. Decodes(g, Has(f.H, 16), res >= 128, res = 0, x = 127, Has(cc, C_FLAG))
    BY <2>5, <2>6, <2>8, <2>9 DEF Decodes
  <2>12. Decodes(r.f, IdealH(op, x, y, cin, cc), res >= 128, res = 0, IdealV(op, x, y, cin, cc), IdealC(op, x, y, cin, cc))
    BY <2>1, <2>11, <2>10, <1>0 DEF Decodes
  <2> QED
    BY <2>1, <2>3, <2>4, <2>12, <1>d DEF Exact
<1>10. CASE op = "tst"
  <2> DEFINE res == x
             cv == f.C
             ov == 0
             g == [f EXCEPT !.C = cv, !.N = res, !.Z = res, !.OV = ov]
  <2>1. r.res = res /\ r.f = g
    BY <1>10 DEF Unary, tst, Ret, Logic
  <2>3. IdealResult(op, x, y, cin) = res
    BY <1>10, <1>0, <1>a, <1>b DEF IdealResult, CarryIn
  <2>11. (IdealV(op, x, y, cin, cc) <=> FALSE) /\ (IdealC(op, x, y, cin, cc) <=> Has(cc, C_FLAG))
    BY <1>10, <1>0, <1>a, <1>b DEF IdealV, IdealC
  <2>4. res \in Byte
    BY <1>a, <1>b DEF Byte
  <2>5. res \in Nat /\ (Has(res, 128) <=> res >= 128) /\ ~Has(0, 128)
    BY <2>4, ByteFlags DEF Has
  <2>6. cv \in Nat /\ (cv # 0 <=> Has(cc, C_FLAG))
    BY <1>b, <1>c
  <2> HIDE DEF res
  <2>8. ov \in Nat /\ (Has(ov, 128) <=> FALSE)
    BY DEF Has
  <2> HIDE DEF cv, ov
  <2>9. g \in Lazy /\ g.H = f.H /\ g.N = res /\ g.Z = res /\ g.OV = ov /\ g.C = cv
    BY <2>5, <2>6, <2>8 DEF Lazy, cv
  <2> HIDE DEF g
  <2>10. Decodes(g, Has(f.H, 16), res >= 128, res = 0, FALSE, Has(cc, C_FLAG))
    BY <2>5, <2>6, <2>8, <2>9 DEF Decodes
  <2>12. Decodes(r.f, IdealH(op, x, y, cin, cc), res >= 128, res = 0, IdealV(op, x, y, cin, cc), IdealC(op, x, y, cin, cc))
    BY <2>1, <2>11, <2>10, <1>0 DEF Decodes
  <2> QED
    BY <2>1, <2>3, <2>4, <2>12, <1>d DEF Exact
<1>11. CASE op = "clr"
  <2> DEFINE res == 0
             cv == 0
             ov == 0
             g == [f EXCEPT !.C = cv, !.N = 0, !.Z = 0, !.OV = ov]
  <2>1. r.res = res /\ r.f = g
    BY <1>11 DEF Unary, clr, Ret
  <2>3. IdealResult(op, x, y, cin) = res
    BY <1>11, <1>0, <1>a, <1>b DEF IdealResult, CarryIn
  <2>11. (IdealV(op, x, y, cin, cc) <=> FALSE) /\ (IdealC(op, x, y, cin, cc) <=> FALSE)
    BY <1>11, <1>0, <1>a, <1>b DEF IdealV, IdealC
  <2>4. res \in Byte
    BY <1>a, <1>b DEF Byte
  <2>5. res \in Nat /\ (Has(res, 128) <=> res >= 128) /\ ~Has(0, 128)
    BY <2>4, ByteFlags DEF Has
  <2>6. cv \in Nat /\ (cv # 0 <=> FALSE)
    OBVIOUS
  <2> HIDE DEF res
  <2>8. ov \in Nat /\ (Has(ov, 128) <=> FALSE)
    BY DEF Has
  <2> HIDE DEF cv, ov
  <2>9. g \in Lazy /\ g.H = f.H /\ g.N = 0 /\ g.Z = 0 /\ g.OV = ov /\ g.C = cv
    BY <2>5, <2>6, <2>8 DEF Lazy
  <2> HIDE DEF g
  <2>10. Decodes(g, Has(f.H, 16), res >= 128, res = 0, FALSE, FALSE)
    BY <2>5, <2>6, <2>8, <2>9 DEF Decodes, res
  <2>12. Decodes(r.f, IdealH(op, x, y, cin, cc), res >= 128, res = 0, IdealV(op, x, y, cin, cc), IdealC(op, x, y, cin, cc))
    BY <2>1, <2>11, <2>10, <1>0 DEF Decodes
  <2> QED
    BY <2>1, <2>3, <2>4, <2>12, <1>d DEF Exact
<1> QED
  BY <1>1, <1>2, <1>3, <1>4, <1>5, <1>6, <1>7, <1>8, <1>9, <1>10, <1>11 DEF UnaryOps

\* Every operation on two bytes is exact.
LEMMA BinaryExact ==
  ASSUME NEW op \in ByteOps, NEW f, NEW x \in Byte, NEW y \in Byte, NEW cc, Shows(f, cc)
  PROVE  Exact(op, x, y, cc, Binary(op, f, x, y))
<1> USE DEF Shows
<1> DEFINE cin == CarryIn(op, cc)
           ideal == IdealResult(op, x, y, cin)
           r == Binary(op, f, x, y)
<1>0. f \in Lazy
  OBVIOUS
<1>1. Width(op) = 256 /\ Width(op) \div 2 = 128 /\ \A z \in Byte : z \in Word
  BY ByteInNat DEF Width, ByteOps, WordOps
<1>2. cc % 2 = Carry(f) /\ Carry(f) \in {0, 1} /\ (Has(cc, C_FLAG) <=> f.C # 0) /\ (Has(cc, H_FLAG) <=> Has(f.H, 16))
  BY DEF Carry
<1>3. CASE op \in {"add", "adc"}
  <2> DEFINE k == IF op = "adc" THEN Carry(f) ELSE 0
  <2>1. k \in {0, 1} /\ cin = k
    BY <1>2, <1>3 DEF CarryIn
  <2>2. r = Sum(f, x, y, k)
    BY <1>3 DEF Binary, adc, add
  <2> HIDE DEF k
  <2>3. /\ r.res = (x + y + k) % 256
        /\ r.res \in Byte
        /\ Decodes(r.f, (x % 16) + (y % 16) + k > 15, r.res >= 128, r.res = 0,
                   Outside(Signed(x, 256) + Signed(y, 256) + k, 256), x + y + k >= 256)
    BY <2>1, <2>2, SumExact
  <2>4. ideal = (x + y + k) % 256
    BY <2>1, <1>3, <1>1 DEF IdealResult
  <2>5. /\ IdealH(op, x, y, cin, cc) <=> (x % 16) + (y % 16) + k > 15
        /\ IdealV(op, x, y, cin, cc) <=> Outside(Signed(x, 256) + Signed(y, 256) + k, 256)
        /\ IdealC(op, x, y, cin, cc) <=> x + y + k >= 256
    BY <2>1, <1>3, <1>1 DEF IdealH, IdealV, IdealC
  <2>6. r.res = ideal
    BY <2>3, <2>4
  <2>7. Decodes(r.f, IdealH(op, x, y, cin, cc), ideal >= 128, ideal = 0, IdealV(op, x, y, cin, cc), IdealC(op, x, y, cin, cc))
    BY <2>3, <2>5, <2>6 DEF Decodes
  <2> QED
    BY <2>3, <2>6, <2>7, <1>1 DEF Exact
<1>4. CASE op \in {"sub", "cmp", "sbc"}
  <2> DEFINE k == IF op = "sbc" THEN Carry(f) ELSE 0
             res == DiffLow(x, y, k)
             cv == DiffC(x, y, k)
             ov == DiffV(x, y, k)
             g == [f EXCEPT !.C = cv, !.N = res, !.Z = res, !.OV = ov]
  <2>1. k \in {0, 1} /\ cin = k
    BY <1>2, <1>4 DEF CarryIn
  <2>2. r = Difference(f, x, y, k)
    BY <1>4 DEF Binary, sbc, sub, cmp
  <2> HIDE DEF k
  <2>c. k \in Nat /\ k <= 1
    BY <2>1
  <2>3. /\ res = (x - y - k) % 256 /\ cv \in Nat /\ ov \in Nat
        /\ cv # 0 <=> x < y + k
        /\ Has(ov, 128) <=> IsDiffV(x, y, k)
    BY <2>c, DifferenceBits
  <2>d. res \in Byte
    BY <2>c, <2>3 DEF Byte
  <2>4. r.res = res /\ r.f = g
    BY <2>2 DEF Difference, Ret, Diff, DiffLow, DiffC, DiffV
  <2>5. ideal = res
    BY <2>1, <2>3, <1>4, <1>1 DEF IdealResult
  <2>6. /\ IdealH(op, x, y, cin, cc) <=> Has(f.H, 16)
        /\ IdealV(op, x, y, cin, cc) <=> IsDiffV(x, y, k)
        /\ IdealC(op, x, y, cin, cc) <=> x < y + k
    BY <2>1, <1>2, <1>4, <1>1 DEF IdealH, IdealV, IdealC, IsDiffV
  <2> HIDE DEF res, cv, ov
  <2>7. res \in Nat /\ (Has(res, 128) <=> res >= 128)
    BY <2>d, ByteFlags
  <2>b. cv \in Nat /\ ov \in Nat /\ res \in Nat
    BY <2>3, <2>7
  <2>8. g \in Lazy /\ g.H = f.H /\ g.N = res /\ g.Z = res /\ g.OV = ov /\ g.C = cv
    BY <1>0, <2>b DEF Lazy
  <2> HIDE DEF g
  <2>9. Decodes(g, IdealH(op, x, y, cin, cc), res >= 128, res = 0, IdealV(op, x, y, cin, cc), IdealC(op, x, y, cin, cc))
    BY <2>3, <2>6, <2>7, <2>8 DEF Decodes
  <2> QED
    BY <2>3, <2>d, <2>4, <2>5, <2>9, <1>1 DEF Exact
<1>5. CASE op \in {"and", "bit", "or", "eor", "ld"}
  <2> DEFINE g == [f EXCEPT !.N = ideal, !.Z = ideal, !.OV = 0]
  <2>1. r.res = ideal /\ r.f = g
    BY <1>5, ZenonT(60) DEF Binary, and, or, eor, ld, IdealResult, Logic, Ret
  <2>2. ideal \in Byte
    BY <1>5, AndByte, OrByte, XorByte DEF IdealResult
  <2>3. /\ IdealH(op, x, y, cin, cc) <=> Has(f.H, 16)
        /\ IdealV(op, x, y, cin, cc) <=> FALSE
        /\ IdealC(op, x, y, cin, cc) <=> f.C # 0
    BY <1>2, <1>5 DEF IdealH, IdealV, IdealC
  <2> HIDE DEF ideal
  <2>4. ideal \in Nat /\ (Has(ideal, 128) <=> ideal >= 128) /\ ~Has(0, 128)
    BY <2>2, ByteFlags DEF Has
  <2>5. g \in Lazy /\ g.H = f.H /\ g.N = ideal /\ g.Z = ideal /\ g.OV = 0 /\ g.C = f.C
    BY <1>0, <2>4 DEF Lazy
  <2> HIDE DEF g
  <2>6. Decodes(g, IdealH(op, x, y, cin, cc), ideal >= 128, ideal = 0, IdealV(op, x, y, cin, cc), IdealC(op, x, y, cin, cc))
    BY <2>3, <2>4, <2>5 DEF Decodes
  <2> QED
    BY <2>1, <2>2, <2>6, <1>1 DEF Exact, ideal
<1> QED
  BY <1>3, <1>4, <1>5 DEF ByteOps

\* The same for words: the carry and the overflow of a sum and of a difference.
Sum16(x, y)   == (x + y) % 65536
Sum16V(x, y)  == ((x ^^ Sum16(x, y)) & (y ^^ Sum16(x, y))) \div 256
Diff16(x, y)  == Unsigned(x - y) % 65536
Diff16V(x, y) == ((x ^^ y) & (x ^^ Diff16(x, y))) \div 256

\* ADDD: the carry and the overflow of a sum of words.
LEMMA Sum16Bits ==
  ASSUME NEW x \in Word, NEW y \in Word
  PROVE  /\ Only(x + y, 65536) \in Nat /\ (Only(x + y, 65536) # 0 <=> x + y >= 65536)
         /\ Sum16V(x, y) \in Nat
         /\ Has(Sum16V(x, y), 128) <=> Outside(Signed(x, 65536) + Signed(y, 65536), 65536)
<1> DEFINE res == Sum16(x, y)
<1>1. res \in Word
  BY DEF Sum16, Word
<1>2. Only(x + y, 65536) \in Nat /\ (Only(x + y, 65536) # 0 <=> x + y >= 65536)
  BY DEF Only, Has, Word
<1>3. Outside(Signed(x, 65536) + Signed(y, 65536), 65536)
        <=> ~(x >= 32768 <=> res >= 32768) /\ ~(y >= 32768 <=> res >= 32768)
  <2>1. Signed(x, 65536) = (IF x < 32768 THEN x ELSE x - 65536) /\ Signed(y, 65536) = (IF y < 32768 THEN y ELSE y - 65536)
    BY DEF Signed, Word
  <2>2. \A n \in Int : Outside(n, 65536) <=> n < -32768 \/ n >= 32768
    BY DEF Outside
  <2>3. x \in Int /\ 0 <= x /\ x < 65536 /\ y \in Int /\ 0 <= y /\ y < 65536
    BY DEF Word
  <2>4. CASE x + y < 65536
    <3>1. res = x + y
      BY <2>3, <2>4 DEF Sum16
    <3> QED
      BY <2>1, <2>2, <2>3, <2>4, <3>1
  <2>5. CASE ~(x + y < 65536)
    <3>1. res = x + y - 65536
      BY <2>3, <2>5 DEF Sum16
    <3> QED
      BY <2>1, <2>2, <2>3, <2>5, <3>1
  <2> QED
    BY <2>4, <2>5
<1>4. Has(Sum16V(x, y), 128) <=> ~(x >= 32768 <=> res >= 32768) /\ ~(y >= 32768 <=> res >= 32768)
  BY <1>1, OverflowWord DEF Sum16V
<1>b. Sum16V(x, y) \in Byte
  BY <1>1, OverflowWord DEF Sum16V
<1>5. Sum16V(x, y) \in Nat
  BY <1>b, ByteInNat
<1> QED
  BY <1>2, <1>3, <1>4, <1>5

\* SUBD and the 16-bit compares: the borrow and the overflow.
LEMMA Diff16Bits ==
  ASSUME NEW x \in Word, NEW y \in Word
  PROVE  /\ Diff16(x, y) = (x - y) % 65536
         /\ Only(Unsigned(x - y), 65536) \in Nat /\ (Only(Unsigned(x - y), 65536) # 0 <=> x < y)
         /\ Diff16V(x, y) \in Nat
         /\ Has(Diff16V(x, y), 128) <=> Outside(Signed(x, 65536) - Signed(y, 65536), 65536)
<1> DEFINE res == Diff16(x, y)
           diff == Unsigned(x - y)
<1>0. x \in Int /\ 0 <= x /\ x < 65536 /\ y \in Int /\ 0 <= y /\ y < 65536
  BY DEF Word
<1>1. res = (IF x >= y THEN x - y ELSE x - y + 65536) /\ (Has(diff, 65536) <=> x < y)
  <2>1. CASE x >= y
    <3>1. diff = x - y
      BY <1>0, <2>1 DEF Unsigned
    <3> QED
      BY <1>0, <2>1, <3>1 DEF Has, Diff16
  <2>2. CASE x < y
    <3>1. diff = x - y + 16777216 /\ x - y >= -65536
      BY <1>0, <2>2 DEF Unsigned
    <3>2. diff \div 65536 = 255
      BY <1>0, <3>1, <2>2
    <3>3. diff % 65536 = x - y + 65536
      BY <1>0, <3>1, <2>2
    <3> QED
      BY <1>0, <2>2, <3>2, <3>3 DEF Has, Diff16
  <2> QED
    BY <1>0, <2>1, <2>2
<1>2. res \in Word /\ res = (x - y) % 65536
  BY <1>0, <1>1 DEF Word
<1>3. Only(diff, 65536) \in Nat /\ (Only(diff, 65536) # 0 <=> x < y)
  BY <1>1 DEF Only
<1>4. Outside(Signed(x, 65536) - Signed(y, 65536), 65536)
        <=> ~(x >= 32768 <=> y >= 32768) /\ ~(x >= 32768 <=> res >= 32768)
  <2>1. Signed(x, 65536) = (IF x < 32768 THEN x ELSE x - 65536) /\ Signed(y, 65536) = (IF y < 32768 THEN y ELSE y - 65536)
    BY DEF Signed, Word
  <2>2. \A n \in Int : Outside(n, 65536) <=> n < -32768 \/ n >= 32768
    BY DEF Outside
  <2>4. CASE x >= y
    BY <2>1, <2>2, <1>0, <2>4, <1>1
  <2>5. CASE ~(x >= y)
    BY <2>1, <2>2, <1>0, <2>5, <1>1
  <2> QED
    BY <2>4, <2>5
<1>5. Has(Diff16V(x, y), 128) <=> ~(x >= 32768 <=> y >= 32768) /\ ~(x >= 32768 <=> res >= 32768)
  BY <1>2, OverflowWord DEF Diff16V
<1>b. Diff16V(x, y) \in Byte
  BY <1>2, OverflowWord DEF Diff16V
<1>6. Diff16V(x, y) \in Nat
  BY <1>b, ByteInNat
<1> QED
  BY <1>2, <1>3, <1>4, <1>5, <1>6

\* What the 16-bit operations leave: of a sum or a difference, and of a load.
WordFlags(f, c, res, v) == [f EXCEPT !.C = c, !.Z = res, !.N = res \div 256, !.OV = v]
LoadFlags(f, res)       == [f EXCEPT !.Z = res, !.N = res \div 256, !.OV = 0]

\* What add and subtract leave of a word decodes to its sign and whether it is zero.
LEMMA WordFlagsDecode ==
  ASSUME NEW f \in Lazy, NEW res \in Word, NEW c \in Nat, NEW v \in Nat
  PROVE  Decodes(WordFlags(f, c, res, v), Has(f.H, 16), res >= 32768, res = 0, Has(v, 128), c # 0)
<1> DEFINE n == res \div 256
           g == WordFlags(f, c, res, v)
<1>1. n \in Byte /\ (Has(n, 128) <=> res >= 32768)
  BY SignBit
<1>2. n \in Nat /\ res \in Nat
  BY <1>1, ByteInNat
<1>3. g = [f EXCEPT !.C = c, !.Z = res, !.N = n, !.OV = v]
  BY DEF WordFlags
<1> HIDE DEF g, n
<1>4. g \in Lazy /\ g.H = f.H /\ g.N = n /\ g.Z = res /\ g.OV = v /\ g.C = c
  BY <1>2, <1>3 DEF Lazy
<1>5. Decodes(g, Has(f.H, 16), res >= 32768, res = 0, Has(v, 128), c # 0)
  BY <1>1, <1>4 DEF Decodes
<1> QED
  BY <1>5 DEF g, Decodes

\* What a 16-bit load leaves of a word does too.
LEMMA LoadFlagsDecode ==
  ASSUME NEW f \in Lazy, NEW res \in Word
  PROVE  Decodes(LoadFlags(f, res), Has(f.H, 16), res >= 32768, res = 0, FALSE, f.C # 0)
<1> DEFINE n == res \div 256
           g == LoadFlags(f, res)
<1>1. n \in Byte /\ (Has(n, 128) <=> res >= 32768)
  BY SignBit
<1>2. n \in Nat /\ res \in Nat
  BY <1>1, ByteInNat
<1>3. g = [f EXCEPT !.Z = res, !.N = n, !.OV = 0]
  BY DEF LoadFlags
<1> HIDE DEF g, n
<1>4. g \in Lazy /\ g.H = f.H /\ g.N = n /\ g.Z = res /\ g.OV = 0 /\ g.C = f.C
  BY <1>2, <1>3 DEF Lazy
<1>5. ~Has(0, 128)
  BY DEF Has
<1>6. Decodes(g, Has(f.H, 16), res >= 32768, res = 0, FALSE, f.C # 0)
  BY <1>1, <1>4, <1>5 DEF Decodes
<1> QED
  BY <1>6 DEF g, Decodes

\* Every 16-bit operation, as UnaryExact.
LEMMA WordExact ==
  ASSUME NEW op \in WordOps, NEW f, NEW x \in Word, NEW y \in Word, NEW cc, Shows(f, cc)
  PROVE  Exact(op, x, y, cc, Binary16(op, f, x, y))
<1> DEFINE r == Binary16(op, f, x, y)
           cin == CarryIn(op, cc)
           ideal == IdealResult(op, x, y, cin)
<1>0. f \in Lazy
  BY DEF Shows
<1>1. /\ Width(op) = 65536 /\ Width(op) \div 2 = 32768 /\ Width(op) # 256
      /\ cin = 0
  BY DEF Width, WordOps, CarryIn
<1>2. /\ Has(cc, C_FLAG) <=> f.C # 0
      /\ IdealH(op, x, y, cin, cc) <=> Has(f.H, 16)
  BY DEF IdealH, WordOps, Shows
<1>x. x \in Int /\ 0 <= x /\ x < 65536 /\ y \in Int /\ 0 <= y /\ y < 65536
  BY DEF Word
<1>y. Signed(x, 65536) \in Int /\ Signed(y, 65536) \in Int
  BY <1>x DEF Signed
<1>4. CASE op = "addd"
  <2> DEFINE c == Only(x + y, 65536)
             v == Sum16V(x, y)
  <2>1. r.res = Sum16(x, y) /\ r.f = WordFlags(f, c, Sum16(x, y), v)
    BY <1>4 DEF Binary16, addd, Ret, Sum16, Sum16V, WordFlags
  <2>2. ideal = Sum16(x, y)
    BY <1>4, <1>1, <1>x DEF IdealResult, Sum16
  <2>3. /\ IdealV(op, x, y, cin, cc) <=> Outside(Signed(x, 65536) + Signed(y, 65536), 65536)
        /\ IdealC(op, x, y, cin, cc) <=> x + y >= 65536
    BY <1>4, <1>1, <1>x, <1>y DEF IdealV, IdealC
  <2>4. Sum16(x, y) \in Word
    BY <1>x DEF Sum16, Word
  <2>5. c \in Nat /\ v \in Nat
    BY Sum16Bits
  <2>6. (c # 0 <=> IdealC(op, x, y, cin, cc)) /\ (Has(v, 128) <=> IdealV(op, x, y, cin, cc))
    BY Sum16Bits, <2>3
  <2> HIDE DEF c, v, r, ideal
  <2>7. Decodes(WordFlags(f, c, Sum16(x, y), v), Has(f.H, 16), Sum16(x, y) >= 32768, Sum16(x, y) = 0, Has(v, 128), c # 0)
    BY <2>4, <2>5, <1>0, WordFlagsDecode DEF Decodes
  <2>8. Decodes(r.f, IdealH(op, x, y, cin, cc), ideal >= 32768, ideal = 0, IdealV(op, x, y, cin, cc), IdealC(op, x, y, cin, cc))
    BY <2>7, <2>1, <2>2, <2>6, <1>2 DEF Decodes
  <2> QED
    BY <2>1, <2>2, <2>4, <2>8, <1>1 DEF Exact, r, ideal
<1>5. CASE op \in {"subd", "cmp16"}
  <2> DEFINE c == Only(Unsigned(x - y), 65536)
             v == Diff16V(x, y)
  <2>1. r.res = Diff16(x, y) /\ r.f = WordFlags(f, c, Diff16(x, y), v)
    BY <1>5 DEF Binary16, subd, cmp16, Ret, Diff16, Diff16V, WordFlags
  <2>2. ideal = Diff16(x, y)
    BY <1>5, <1>1, <1>x, Diff16Bits DEF IdealResult
  <2>3. /\ IdealV(op, x, y, cin, cc) <=> Outside(Signed(x, 65536) - Signed(y, 65536), 65536)
        /\ IdealC(op, x, y, cin, cc) <=> x < y
    BY <1>5, <1>1, <1>x, <1>y DEF IdealV, IdealC
  <2>9. Diff16(x, y) = (x - y) % 65536
    BY Diff16Bits
  <2>4. Diff16(x, y) \in Word
    BY <1>x, <2>9 DEF Word
  <2>5. c \in Nat /\ v \in Nat
    BY Diff16Bits
  <2>6. (c # 0 <=> IdealC(op, x, y, cin, cc)) /\ (Has(v, 128) <=> IdealV(op, x, y, cin, cc))
    BY Diff16Bits, <2>3
  <2> HIDE DEF c, v, r, ideal
  <2>7. Decodes(WordFlags(f, c, Diff16(x, y), v), Has(f.H, 16), Diff16(x, y) >= 32768, Diff16(x, y) = 0, Has(v, 128), c # 0)
    BY <2>4, <2>5, <1>0, WordFlagsDecode DEF Decodes
  <2>8. Decodes(r.f, IdealH(op, x, y, cin, cc), ideal >= 32768, ideal = 0, IdealV(op, x, y, cin, cc), IdealC(op, x, y, cin, cc))
    BY <2>7, <2>1, <2>2, <2>6, <1>2 DEF Decodes
  <2> QED
    BY <2>1, <2>2, <2>4, <2>8, <1>1 DEF Exact, r, ideal
<1>6. CASE op = "ld16"
  <2>1. r.res = y /\ r.f = LoadFlags(f, y)
    BY <1>6 DEF Binary16, ld16, Ret, LoadFlags
  <2>2. ideal = y
    BY <1>6 DEF IdealResult
  <2>3. /\ IdealV(op, x, y, cin, cc) <=> FALSE
        /\ IdealC(op, x, y, cin, cc) <=> f.C # 0
    BY <1>6, <1>2 DEF IdealV, IdealC
  <2> HIDE DEF r, ideal
  <2>7. Decodes(LoadFlags(f, y), Has(f.H, 16), y >= 32768, y = 0, FALSE, f.C # 0)
    BY <1>0, LoadFlagsDecode DEF Decodes
  <2>8. Decodes(r.f, IdealH(op, x, y, cin, cc), ideal >= 32768, ideal = 0, IdealV(op, x, y, cin, cc), IdealC(op, x, y, cin, cc))
    BY <2>7, <2>1, <2>2, <2>3, <1>2 DEF Decodes
  <2> QED
    BY <2>1, <2>2, <2>8, <1>1 DEF Exact, r, ideal
<1> QED
  BY <1>4, <1>5, <1>6 DEF WordOps

-----------------------------------------------------------------------------
(* The condition codes. *)

Bit == {n \in Nat : n < 2}

\* The values E, F and I can take together in EFI.
Efis == {128 * e + 64 * f + 16 * i : e \in Bit, f \in Bit, i \in Bit}

\* A byte written with its bits, as get_cc() puts CC together.
FlagBits(e, f, h, i, n, z, v, c) ==
  (128 * e + 64 * f + 16 * i) + 32 * h + 8 * n + 4 * z + 2 * v + c

IsBits(cc, e, f, h, i, n, z, v, c) ==
  /\ cc \in Byte
  /\ Has(cc, 128) <=> e = 1
  /\ Has(cc, 64) <=> f = 1
  /\ Has(cc, 32) <=> h = 1
  /\ Has(cc, 16) <=> i = 1
  /\ Has(cc, 8) <=> n = 1
  /\ Has(cc, 4) <=> z = 1
  /\ Has(cc, 2) <=> v = 1
  /\ Has(cc, 1) <=> c = 1
  /\ cc % 2 = c

\* Eight bits put together can be told apart again.
LEMMA BitsOfCC ==
  ASSUME NEW e \in Bit, NEW f \in Bit, NEW h \in Bit, NEW i \in Bit, NEW n \in Bit,
         NEW z \in Bit, NEW v \in Bit, NEW c \in Bit
  PROVE  IsBits(FlagBits(e, f, h, i, n, z, v, c), e, f, h, i, n, z, v, c)
<1> DEFINE cc == (128 * e + 64 * f + 16 * i) + 32 * h + 8 * n + 4 * z + 2 * v + c
<1>b. /\ e \in Int /\ 0 <= e /\ e <= 1 /\ f \in Int /\ 0 <= f /\ f <= 1
      /\ h \in Int /\ 0 <= h /\ h <= 1 /\ i \in Int /\ 0 <= i /\ i <= 1
      /\ n \in Int /\ 0 <= n /\ n <= 1 /\ z \in Int /\ 0 <= z /\ z <= 1
      /\ v \in Int /\ 0 <= v /\ v <= 1 /\ c \in Int /\ 0 <= c /\ c <= 1
  BY DEF Bit
<1>1. cc \in Byte
  BY <1>b DEF Byte
<1>2. cc \div 128 = e
  BY <1>b
<1>3. cc \div 64 = 2 * e + f
  BY <1>b
<1>4. cc \div 32 = 4 * e + 2 * f + h
  BY <1>b
<1>5. cc \div 16 = 8 * e + 4 * f + 2 * h + i
  BY <1>b
<1>6. cc \div 8 = 16 * e + 8 * f + 4 * h + 2 * i + n
  BY <1>b
<1>7. cc \div 4 = 32 * e + 16 * f + 8 * h + 4 * i + 2 * n + z
  BY <1>b
<1>8. cc \div 2 = 64 * e + 32 * f + 16 * h + 8 * i + 4 * n + 2 * z + v
  BY <1>b
<1>9. cc \div 1 = cc /\ cc % 2 = c
  BY <1>b
<1>10. Has(cc, 128) <=> e = 1
  BY <1>b, <1>2 DEF Has
<1>11. Has(cc, 64) <=> f = 1
  BY <1>b, <1>3 DEF Has
<1>12. Has(cc, 32) <=> h = 1
  BY <1>b, <1>4 DEF Has
<1>13. Has(cc, 16) <=> i = 1
  BY <1>b, <1>5 DEF Has
<1>14. Has(cc, 8) <=> n = 1
  BY <1>b, <1>6 DEF Has
<1>15. Has(cc, 4) <=> z = 1
  BY <1>b, <1>7 DEF Has
<1>16. Has(cc, 2) <=> v = 1
  BY <1>b, <1>8 DEF Has
<1>17. Has(cc, 1) <=> c = 1
  BY <1>b, <1>9 DEF Has
<1> HIDE DEF cc
<1>18. IsBits(cc, e, f, h, i, n, z, v, c)
  BY <1>1, <1>9, <1>10, <1>11, <1>12, <1>13, <1>14, <1>15, <1>16, <1>17 DEF IsBits
<1> QED
  BY <1>18 DEF cc, FlagBits

\* v & EFI_FLAGS keeps E, F and I.
EfiOf(v) == Only(v, 128) + Only(v, 64) + Only(v, 16)

\* The mask of set_cc() leaves E, F and I.
LEMMA EfiBits ==
  ASSUME NEW v \in Byte
  PROVE  v & EFI_FLAGS = EfiOf(v) /\ EfiOf(v) \in Efis
<1>1. 208 \in Byte /\ Has(208, 128) /\ Has(208, 64) /\ ~Has(208, 32) /\ Has(208, 16)
      /\ ~Has(208, 8) /\ ~Has(208, 4) /\ ~Has(208, 2) /\ ~Has(208, 1)
  BY DEF Byte, Has
<1>2. v & 208 = ByteAnd(v, 208)
  BY <1>1, OnBytes
<1>3. ByteAnd(v, 208) = EfiOf(v)
  BY <1>1 DEF ByteAnd, Masks, EfiOf, Only
<1> DEFINE b(m) == IF Has(v, m) THEN 1 ELSE 0
<1>4. EfiOf(v) = 128 * b(128) + 64 * b(64) + 16 * b(16) /\ b(128) \in Bit /\ b(64) \in Bit /\ b(16) \in Bit
  BY DEF EfiOf, Only, Bit
<1> HIDE DEF b
<1> QED
  BY <1>2, <1>3, <1>4 DEF Efis, EFI_FLAGS

\* E, F and I of a byte whose bits are known.
LEMMA SameBits ==
  ASSUME NEW cc \in Byte, NEW e \in Bit, NEW f \in Bit, NEW i \in Bit,
         Has(cc, 128) <=> e = 1, Has(cc, 64) <=> f = 1, Has(cc, 16) <=> i = 1
  PROVE  cc & EFI_FLAGS = 128 * e + 64 * f + 16 * i
<1>1. Only(cc, 128) = 128 * e /\ Only(cc, 64) = 64 * f /\ Only(cc, 16) = 16 * i
  BY DEF Only, Bit
<1> QED
  BY <1>1, EfiBits DEF EfiOf

\* get_cc() shows the five values in the flags and EFI in the others.
LEMMA GetCC ==
  ASSUME NEW efi \in Efis, NEW f \in Lazy
  PROVE  /\ Shows(f, get_cc(efi, f)) /\ get_cc(efi, f) & EFI_FLAGS = efi
         /\ get_cc(efi, f) \in Byte
<1> DEFINE cc == get_cc(efi, f)
           h == IF Has(f.H, 16) THEN 1 ELSE 0
           n == IF Has(f.N, 128) THEN 1 ELSE 0
           z == IF f.Z = 0 THEN 1 ELSE 0
           v == IF Has(f.OV, 128) THEN 1 ELSE 0
           c == IF f.C # 0 THEN 1 ELSE 0
<1>1. PICK e \in Bit, fi \in Bit, i \in Bit : efi = 128 * e + 64 * fi + 16 * i
  BY DEF Efis
<1>2. h \in Bit /\ n \in Bit /\ z \in Bit /\ v \in Bit /\ c \in Bit
  BY DEF Bit
<1>3. /\ h = 1 <=> Has(f.H, 16)
      /\ v = 1 <=> Has(f.OV, 128)
      /\ c = 1 <=> f.C # 0
      /\ c = Carry(f)
  BY DEF Carry
<1>e. efi \in Nat
  BY <1>1 DEF Bit
<1>4. cc = FlagBits(e, fi, h, i, n, z, v, c)
  BY <1>1, <1>e DEF FlagBits, get_cc, H_FLAG, N_FLAG, Z_FLAG, V_FLAG, C_FLAG
<1> HIDE DEF cc, h, n, z, v, c
<1>5. /\ cc \in Byte
      /\ Has(cc, 128) <=> e = 1
      /\ Has(cc, 64) <=> fi = 1
      /\ Has(cc, 32) <=> h = 1
      /\ Has(cc, 16) <=> i = 1
      /\ Has(cc, 2) <=> v = 1
      /\ Has(cc, 1) <=> c = 1
      /\ cc % 2 = c
  <2>1. IsBits(cc, e, fi, h, i, n, z, v, c)
    BY <1>2, <1>4, BitsOfCC
  <2> QED
    BY <2>1 DEF IsBits
<1>6. cc & EFI_FLAGS = efi
  BY <1>1, <1>5, SameBits
<1>7. Shows(f, cc)
  BY <1>3, <1>5 DEF Shows, H_FLAG, V_FLAG, C_FLAG
<1> QED
  BY <1>5, <1>6, <1>7 DEF cc

\* EFI is a byte that EFI_FLAGS does not change.
LEMMA EfisAre ==
  /\ Efis \subseteq Byte
  /\ \A efi \in Efis : efi & EFI_FLAGS = efi
  /\ \A x \in Byte, m \in Byte : x & m \in Byte /\ x | m \in Byte
<1>1. Efis \subseteq Byte
  BY DEF Efis, Bit, Byte
<1>2. ASSUME NEW efi \in Efis
      PROVE  efi & EFI_FLAGS = efi
  <2> DEFINE f == [H |-> 0, N |-> 0, Z |-> 1, OV |-> 0, C |-> 0]
  <2>1. f \in Lazy
    BY DEF Lazy
  <2>2. efi \in Nat
    BY <1>1, ByteInNat
  <2>3. get_cc(efi, f) = efi
    BY <2>2 DEF get_cc, Has
  <2> QED
    BY <2>1, <2>3, GetCC
<1> QED
  BY <1>1, <1>2, AndByte, OrByte

\* What masks E, F and I: CWAI's and, and the or of the interrupts.
LEMMA EfisKept ==
  ASSUME NEW efi \in Efis
  PROVE  /\ \A m \in Byte : efi & m \in Efis
         /\ efi | 128 \in Efis /\ efi | 80 \in Efis /\ efi | 0 \in Efis
<1>1. PICK e \in Bit, f \in Bit, i \in Bit : efi = 128 * e + 64 * f + 16 * i
  BY DEF Efis
<1>2. efi = FlagBits(e, f, 0, i, 0, 0, 0, 0) /\ 0 \in Bit /\ efi \in Byte
  BY <1>1, EfisAre DEF FlagBits, Bit
<1>3. ~Has(efi, 32) /\ ~Has(efi, 8) /\ ~Has(efi, 4) /\ ~Has(efi, 2) /\ ~Has(efi, 1)
  <2>1. IsBits(efi, e, f, 0, i, 0, 0, 0, 0)
    BY <1>2, BitsOfCC
  <2> QED
    BY <2>1 DEF IsBits
<1>4. ASSUME NEW m \in Byte
      PROVE  efi & m \in Efis
  <2>1. efi & m = ByteAnd(efi, m)
    BY <1>2, OnBytes
  <2> DEFINE x == IF Has(efi, 128) /\ Has(m, 128) THEN 1 ELSE 0
             y == IF Has(efi, 64) /\ Has(m, 64) THEN 1 ELSE 0
             z == IF Has(efi, 16) /\ Has(m, 16) THEN 1 ELSE 0
  <2>2. ByteAnd(efi, m) = 128 * x + 64 * y + 16 * z /\ x \in Bit /\ y \in Bit /\ z \in Bit
    BY <1>3 DEF ByteAnd, Masks, Bit
  <2> HIDE DEF x, y, z
  <2> QED
    BY <2>1, <2>2 DEF Efis
<1>5. ASSUME NEW m \in Byte, ~Has(m, 32), ~Has(m, 8), ~Has(m, 4), ~Has(m, 2), ~Has(m, 1)
      PROVE  efi | m \in Efis
  <2>1. efi | m = ByteOr(efi, m)
    BY <1>2, OnBytes
  <2> DEFINE x == IF Has(efi, 128) \/ Has(m, 128) THEN 1 ELSE 0
             y == IF Has(efi, 64) \/ Has(m, 64) THEN 1 ELSE 0
             z == IF Has(efi, 16) \/ Has(m, 16) THEN 1 ELSE 0
  <2>2. ByteOr(efi, m) = 128 * x + 64 * y + 16 * z /\ x \in Bit /\ y \in Bit /\ z \in Bit
    BY <1>3, <1>5 DEF ByteOr, Masks, Bit
  <2> HIDE DEF x, y, z
  <2> QED
    BY <2>1, <2>2 DEF Efis
<1>6. ASSUME NEW m \in {0, 80, 128}
      PROVE  m \in Byte /\ ~Has(m, 32) /\ ~Has(m, 8) /\ ~Has(m, 4) /\ ~Has(m, 2) /\ ~Has(m, 1)
  BY DEF Byte, Has
<1> QED
  BY <1>4, <1>5, <1>6

\* set_cc() makes values the operations can read.
LEMMA SetCC ==
  ASSUME NEW v \in Byte
  PROVE  set_cc(v) \in Lazy
BY DEF set_cc, Lazy, Z_FLAG

\* An exact operation shows the flags of the ideal machine.
LEMMA ExactCC ==
  ASSUME NEW op, NEW x, NEW y, NEW efi \in Efis, NEW old \in Byte, old & EFI_FLAGS = efi,
         NEW r, Exact(op, x, y, old, r)
  PROVE  get_cc(efi, r.f) = IdealCC(op, x, y, old)
<1> DEFINE cin == CarryIn(op, old)
           res == IdealResult(op, x, y, cin)
<1>1. /\ Has(r.f.H, 16) <=> IdealH(op, x, y, cin, old)
      /\ Has(r.f.N, 128) <=> res >= Width(op) \div 2
      /\ r.f.Z = 0 <=> res = 0
      /\ Has(r.f.OV, 128) <=> IdealV(op, x, y, cin, old)
      /\ r.f.C # 0 <=> IdealC(op, x, y, cin, old)
  BY DEF Exact, Decodes
<1> DEFINE f == r.f
<1> HIDE DEF f
<1>2. /\ Has(f.H, 16) <=> IdealH(op, x, y, cin, old)
      /\ Has(f.N, 128) <=> res >= Width(op) \div 2
      /\ f.Z = 0 <=> res = 0
      /\ Has(f.OV, 128) <=> IdealV(op, x, y, cin, old)
      /\ f.C # 0 <=> IdealC(op, x, y, cin, old)
  BY <1>1 DEF f
<1>3. get_cc(efi, f) = IdealCC(op, x, y, old)
  BY <1>2 DEF get_cc, IdealCC, IdealH
<1> QED
  BY <1>3 DEF f

-----------------------------------------------------------------------------
(* Comparisons and branches. *)

\* The flags order the operands l of a subtraction.
Orders(f, x, y, w) ==
  /\ f.C = 0 <=> x >= y
  /\ f.Z = 0 <=> x = y
  /\ (Sign(f.N) <=> Sign(f.OV)) <=> Signed(x, w) >= Signed(y, w)

Operands(x, y, w) == (w = 256 \/ w = 65536) /\ x \in Nat /\ x < w /\ y \in Nat /\ y < w

\* last is what the flags were left by.
Compared(f, l) == l = NoOperands \/ (Operands(l[1], l[2], l[3]) /\ Orders(f, l[1], l[2], l[3]))

SubtractOps == {"sub", "cmp", "subd", "cmp16"}

\* The sign and the overflow of a difference of bytes order them.
LEMMA OrderBytes ==
  ASSUME NEW x \in Byte, NEW y \in Byte
  PROVE  /\ (x - y) % 256 = 0 <=> x = y
         /\ ((x - y) % 256 >= 128 <=> Outside(Signed(x, 256) - Signed(y, 256) - 0, 256))
              <=> Signed(x, 256) >= Signed(y, 256)
<1>1. x \in Int /\ 0 <= x /\ x < 256 /\ y \in Int /\ 0 <= y /\ y < 256
  BY DEF Byte
<1>2. CASE x >= y
  <2>1. (x - y) % 256 = x - y
    BY <1>1, <1>2
  <2> QED
    BY <1>1, <1>2, <2>1 DEF Signed, Outside
<1>3. CASE x < y
  <2>1. (x - y) % 256 = x - y + 256
    BY <1>1, <1>3
  <2> QED
    BY <1>1, <1>3, <2>1 DEF Signed, Outside
<1> QED
  BY <1>1, <1>2, <1>3

\* And of words.
LEMMA OrderWords ==
  ASSUME NEW x \in Word, NEW y \in Word
  PROVE  /\ (x - y) % 65536 = 0 <=> x = y
         /\ ((x - y) % 65536 >= 32768 <=> Outside(Signed(x, 65536) - Signed(y, 65536) - 0, 65536))
              <=> Signed(x, 65536) >= Signed(y, 65536)
<1>1. x \in Int /\ 0 <= x /\ x < 65536 /\ y \in Int /\ 0 <= y /\ y < 65536
  BY DEF Word
<1>2. CASE x >= y
  <2>1. (x - y) % 65536 = x - y
    BY <1>1, <1>2
  <2> QED
    BY <1>1, <1>2, <2>1 DEF Signed, Outside
<1>3. CASE x < y
  <2>1. (x - y) % 65536 = x - y + 65536
    BY <1>1, <1>3
  <2> QED
    BY <1>1, <1>3, <2>1 DEF Signed, Outside
<1> QED
  BY <1>1, <1>2, <1>3

\* A subtraction leaves flags that order its operands.
LEMMA SubtractionOrders ==
  ASSUME NEW op \in SubtractOps, NEW x, NEW y, NEW old, NEW r, Exact(op, x, y, old, r),
         NEW w, w = Width(op), w = 256 => x \in Byte /\ y \in Byte, x \in Word, y \in Word
  PROVE  Operands(x, y, w) /\ Orders(r.f, x, y, w)
<1> DEFINE res == (x - y) % w
           f == r.f
           v == Outside(Signed(x, w) - Signed(y, w) - 0, w)
<1>1. x \in Int /\ y \in Int
  BY WordIs
<1>2. w = 256 \/ w = 65536
  BY DEF Width
<1>3. CarryIn(op, old) = 0
  BY DEF CarryIn, SubtractOps
<1>4. IdealResult(op, x, y, 0) = res
  <2>1. IdealResult(op, x, y, 0) = (x - y - 0) % w
    BY DEF IdealResult, SubtractOps
  <2> QED
    BY <1>1, <2>1
<1>a. op = "sub" \/ op = "cmp" \/ op = "subd" \/ op = "cmp16"
  BY DEF SubtractOps
<1>5. IdealV(op, x, y, 0, old) <=> v
  <2> HIDE DEF v
  <2>1. CASE op = "sub"
    BY <2>1 DEF IdealV, v
  <2>2. CASE op = "cmp"
    BY <2>2 DEF IdealV, v
  <2>3. CASE op = "subd"
    BY <2>3 DEF IdealV, v
  <2>4. CASE op = "cmp16"
    BY <2>4 DEF IdealV, v
  <2> QED
    BY <1>a, <2>1, <2>2, <2>3, <2>4
<1>6. IdealC(op, x, y, 0, old) <=> x < y
  <2>1. x < y + 0 <=> x < y
    BY <1>1
  <2>2. CASE op = "sub"
    BY <2>1, <2>2 DEF IdealC
  <2>3. CASE op = "cmp"
    BY <2>1, <2>3 DEF IdealC
  <2>4. CASE op = "subd"
    BY <2>1, <2>4 DEF IdealC
  <2>5. CASE op = "cmp16"
    BY <2>1, <2>5 DEF IdealC
  <2> QED
    BY <1>a, <2>2, <2>3, <2>4, <2>5
<1>7. /\ f \in Lazy
      /\ Has(f.N, 128) <=> res >= w \div 2
      /\ f.Z = 0 <=> res = 0
      /\ Has(f.OV, 128) <=> v
      /\ f.C # 0 <=> x < y
  BY <1>3, <1>4, <1>5, <1>6 DEF Exact, Decodes
<1>8. (res = 0 <=> x = y) /\ ((res >= w \div 2 <=> v) <=> Signed(x, w) >= Signed(y, w))
  <2>1. CASE w = 256
    BY <2>1, OrderBytes
  <2>2. CASE w = 65536
    BY <2>2, OrderWords
  <2> QED
    BY <1>2, <2>1, <2>2
<1>9. Operands(x, y, w)
  <2>1. CASE w = 256
    BY <2>1 DEF Operands, Byte
  <2>2. CASE w = 65536
    BY <2>2 DEF Operands, Word
  <2> QED
    BY <1>2, <2>1, <2>2
<1> HIDE DEF res, v
<1>10. Orders(f, x, y, w)
  BY <1>1, <1>7, <1>8 DEF Orders, Sign
<1> QED
  BY <1>9, <1>10

\* The branches named for a relation of two numbers.
Comparisons == {2, 3, 4, 5, 6, 7, 12, 13, 14, 15}

\* The condition of a branch holds of those flags when its relation holds of the operands.
LEMMA CondIs ==
  ASSUME NEW n \in Comparisons, NEW f, NEW x, NEW y, NEW w, Operands(x, y, w), Orders(f, x, y, w)
  PROVE  cond(n, f) <=> Relation(n, x, y, w)
<1> DEFINE sx == Signed(x, w)
           sy == Signed(y, w)
<1>1. x \in Int /\ y \in Int /\ sx \in Int /\ sy \in Int /\ (sx = sy <=> x = y)
  <2>1. CASE w = 256
    BY <2>1 DEF Signed, Operands
  <2>2. CASE w = 65536
    BY <2>2 DEF Signed, Operands
  <2> QED
    BY <2>1, <2>2 DEF Operands
<1> DEFINE ge == Sign(f.N) <=> Sign(f.OV)
           cs == f.C = 0
           zs == f.Z = 0
<1>2. (cs <=> x >= y) /\ (zs <=> x = y) /\ (ge <=> sx >= sy)
  BY DEF Orders
<1>3. /\ cond_HI(f) <=> ~zs /\ cs
      /\ cond_HS(f) <=> cs
      /\ cond_NE(f) <=> ~zs
      /\ cond_GE(f) <=> ge
      /\ cond_GT(f) <=> ge /\ ~zs
  <2>1. cond_GE(f) <=> ge
    BY DEF cond_GE, Sign, Has
  <2> HIDE DEF ge
  <2> QED
    BY <2>1 DEF cond_HI, cond_HS, cond_NE, cond_GT
<1> HIDE DEF sx, sy, ge, cs, zs
<1>4. /\ cond_HI(f) <=> x > y
      /\ cond_HS(f) <=> x >= y
      /\ cond_NE(f) <=> x # y
      /\ cond_GE(f) <=> sx >= sy
      /\ cond_GT(f) <=> sx > sy
  BY <1>1, <1>2, <1>3
<1>5. CASE n = 2
  <2>1. cond(n, f) <=> cond_HI(f)
    BY <1>5 DEF cond
  <2>2. Relation(n, x, y, w) <=> x > y
    BY <1>5 DEF Relation, sx, sy
  <2> QED
    BY <1>1, <1>4, <2>1, <2>2
<1>6. CASE n = 3
  <2>1. cond(n, f) <=> ~cond_HI(f)
    BY <1>6 DEF cond
  <2>2. Relation(n, x, y, w) <=> x <= y
    BY <1>6 DEF Relation, sx, sy
  <2> QED
    BY <1>1, <1>4, <2>1, <2>2
<1>7. CASE n = 4
  <2>1. cond(n, f) <=> cond_HS(f)
    BY <1>7 DEF cond
  <2>2. Relation(n, x, y, w) <=> x >= y
    BY <1>7 DEF Relation, sx, sy
  <2> QED
    BY <1>1, <1>4, <2>1, <2>2
<1>8. CASE n = 5
  <2>1. cond(n, f) <=> ~cond_HS(f)
    BY <1>8 DEF cond
  <2>2. Relation(n, x, y, w) <=> x < y
    BY <1>8 DEF Relation, sx, sy
  <2> QED
    BY <1>1, <1>4, <2>1, <2>2
<1>9. CASE n = 6
  <2>1. cond(n, f) <=> cond_NE(f)
    BY <1>9 DEF cond
  <2>2. Relation(n, x, y, w) <=> x # y
    BY <1>9 DEF Relation, sx, sy
  <2> QED
    BY <1>1, <1>4, <2>1, <2>2
<1>10. CASE n = 7
  <2>1. cond(n, f) <=> ~cond_NE(f)
    BY <1>10 DEF cond
  <2>2. Relation(n, x, y, w) <=> x = y
    BY <1>10 DEF Relation, sx, sy
  <2> QED
    BY <1>1, <1>4, <2>1, <2>2
<1>11. CASE n = 12
  <2>1. cond(n, f) <=> cond_GE(f)
    BY <1>11 DEF cond
  <2>2. Relation(n, x, y, w) <=> sx >= sy
    BY <1>11 DEF Relation, sx, sy
  <2> QED
    BY <1>1, <1>4, <2>1, <2>2
<1>12. CASE n = 13
  <2>1. cond(n, f) <=> ~cond_GE(f)
    BY <1>12 DEF cond
  <2>2. Relation(n, x, y, w) <=> sx < sy
    BY <1>12 DEF Relation, sx, sy
  <2> QED
    BY <1>1, <1>4, <2>1, <2>2
<1>13. CASE n = 14
  <2>1. cond(n, f) <=> cond_GT(f)
    BY <1>13 DEF cond
  <2>2. Relation(n, x, y, w) <=> sx > sy
    BY <1>13 DEF Relation, sx, sy
  <2> QED
    BY <1>1, <1>4, <2>1, <2>2
<1>14. CASE n = 15
  <2>1. cond(n, f) <=> ~cond_GT(f)
    BY <1>14 DEF cond
  <2>2. Relation(n, x, y, w) <=> sx <= sy
    BY <1>14 DEF Relation, sx, sy
  <2> QED
    BY <1>1, <1>4, <2>1, <2>2
<1> QED
  BY <1>5, <1>6, <1>7, <1>8, <1>9, <1>10, <1>11, <1>12, <1>13, <1>14 DEF Comparisons

=============================================================================
