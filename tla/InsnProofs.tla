----------------------------- MODULE InsnProofs -----------------------------
(***************************************************************************)
(* Proofs about the instructions of the 6809, for every program, register  *)
(* file and number of instructions: each part of the processor is shown to *)
(* stay well formed, the switch to hand each body what it can execute, each*)
(* action to be right, and with them every run.                            *)
(***************************************************************************)
EXTENDS AluProofs

-----------------------------------------------------------------------------
(* The processor. *)

Page   == {n \in Word : n % 256 = 0}
Memory == UNION {[S -> Byte] : S \in SUBSET Word}

Cpu == [A : Byte, B : Byte, DP : Page, X : Word, Y : Word, U : Word, S : Word, PC : Nat,
        EFI : Efis, f : Lazy, cycles : Int, mem : Memory, waiting : BOOLEAN,
        stopped : BOOLEAN]

\* Memory holds bytes at 16-bit addresses, and a write keeps it so.
LEMMA MemoryIs ==
  /\ \A m \in Memory : \A a \in DOMAIN m : a \in Word /\ m[a] \in Byte
  /\ \A m \in Memory, a \in Word, v \in Byte :
       [x \in DOMAIN m \cup {a} |-> IF x = a THEN v ELSE m[x]] \in Memory
<1>1. ASSUME NEW m \in Memory
      PROVE  \E S \in SUBSET Word : m \in [S -> Byte]
  BY DEF Memory
<1>2. ASSUME NEW m \in Memory, NEW a \in Word, NEW v \in Byte
      PROVE  [x \in DOMAIN m \cup {a} |-> IF x = a THEN v ELSE m[x]] \in Memory
  <2>1. PICK S \in SUBSET Word : m \in [S -> Byte]
    BY <1>1
  <2>2. [x \in DOMAIN m \cup {a} |-> IF x = a THEN v ELSE m[x]] \in [S \cup {a} -> Byte]
    BY <2>1
  <2> QED
    BY <2>2 DEF Memory
<1> QED
  BY <1>1, <1>2

\* Addresses wrap at 16 bits.
LEMMA Wrap ==
  /\ \A n \in Int : n % 65536 \in Word
  /\ \A n \in Word : n % 65536 = n
BY DEF Word

Names == {"A", "B", "DP", "X", "Y", "U", "S", "PC", "EFI", "f", "cycles", "mem", "waiting",
          "stopped"}

\* Sets of fields.
JustCycles  == {"cycles"}
JustPC      == {"PC"}
JustStopped == {"stopped"}
JustMem     == {"mem"}
JustEFI     == {"EFI"}
Codes       == {"EFI", "f"}
JustStack(sp)   == {sp}
StoreFields(sp) == {"mem", sp}
PushFields(sp)  == {"mem", sp, "cycles"}

\* d is a processor like c but for the fields in S.
Changed(c, d, S) == c \in Cpu /\ d \in Cpu /\ \A r \in Names \ S : d[r] = c[r]

\* Two changes of the same fields are one.
LEMMA ChangedTwo ==
  ASSUME NEW c, NEW d, NEW e, NEW S, Changed(c, d, S), Changed(d, e, S)
  PROVE  Changed(c, e, S)
BY DEF Changed

\* A change of some fields is one of more fields.
LEMMA ChangedMore ==
  ASSUME NEW c, NEW d, NEW S, NEW T, S \subseteq T, Changed(c, d, S)
  PROVE  Changed(c, d, T)
BY DEF Changed

\* Counting cycles changes nothing else.
LEMMA ClockIs ==
  ASSUME NEW c \in Cpu, NEW n \in Int
  PROVE  Changed(c, Clock(c, n), JustCycles) /\ Clock(c, n).cycles = c.cycles + n
BY DEF Clock, Changed, Names, Cpu, JustCycles

\* Advancing PC changes nothing else.
LEMMA AdvanceIs ==
  ASSUME NEW c \in Cpu, NEW n \in Nat
  PROVE  Changed(c, Advance(c, n), JustPC) /\ Advance(c, n).PC = c.PC + n
BY DEF Advance, Changed, Names, Cpu, JustPC

\* change_pc() brings PC to 16 bits and changes nothing else.
LEMMA ChangePcIs ==
  ASSUME NEW c \in Cpu, NEW pc \in Int
  PROVE  Changed(c, change_pc(c, pc), JustPC) /\ change_pc(c, pc).PC = pc % 65536
<1>1. pc % 65536 \in Nat
  OBVIOUS
<1> DEFINE n == pc % 65536
<1> HIDE DEF n
<1>2. Changed(c, [c EXCEPT !.PC = n], JustPC) /\ [c EXCEPT !.PC = n].PC = n
  BY <1>1 DEF Changed, Names, Cpu, n, JustPC
<1> QED
  BY <1>2 DEF change_pc, n

\* sim_error() stops the processor and changes nothing else.
LEMMA SimErrorIs ==
  ASSUME NEW c \in Cpu
  PROVE  Changed(c, sim_error(c), JustStopped) /\ sim_error(c).stopped = TRUE
BY DEF sim_error, Changed, Names, Cpu, JustStopped

\* Memory is read as bytes and as words, and a write changes the byte it names.
LEMMA ReadIs ==
  ASSUME NEW c \in Cpu, NEW a \in Int
  PROVE  read8(c, a) \in Byte /\ RDMEM16(c, a) \in Word
<1>1. c.mem \in Memory
  BY DEF Cpu
<1>2. \A b \in Int : read8(c, b) \in Byte
  <2>1. 0 \in Byte
    BY DEF Byte
  <2> QED
    BY <1>1, <2>1, MemoryIs DEF read8
<1>3. read8(c, a) \in Byte /\ read8(c, a + 1) \in Byte
  BY <1>2
<1> QED
  BY <1>3, Bytes2 DEF RDMEM16

\* A byte is written at its address and nowhere else.
LEMMA WriteIs ==
  ASSUME NEW c \in Cpu, NEW a \in Word, NEW v \in Byte
  PROVE  /\ Changed(c, write8(c, a, v), JustMem)
         /\ \A b \in Int : read8(write8(c, a, v), b) = IF b % 65536 = a THEN v ELSE read8(c, b)
<1> DEFINE m == [x \in DOMAIN c.mem \cup {a} |-> IF x = a THEN v ELSE c.mem[x]]
           d == write8(c, a, v)
<1>1. c.mem \in Memory
  BY DEF Cpu
<1>2. m \in Memory
  BY <1>1, MemoryIs
<1>3. d = [c EXCEPT !.mem = m]
  BY DEF write8
<1> HIDE DEF d
<1>4. Changed(c, d, JustMem) /\ d.mem = m
  <2> HIDE DEF m
  <2> QED
    BY <1>2, <1>3 DEF Changed, Names, Cpu, JustMem
<1>5. \A b \in Int : read8(d, b) = IF b % 65536 = a THEN v ELSE read8(c, b)
  BY <1>4 DEF read8
<1> QED
  BY <1>4, <1>5 DEF d

\* A word is written in its two bytes, read back as it was, and nothing else changes.
LEMMA Write16Is ==
  ASSUME NEW c \in Cpu, NEW a \in Word, NEW v \in Word
  PROVE  /\ Changed(c, WRMEM16(c, a, v), JustMem)
         /\ RDMEM16(WRMEM16(c, a, v), a) = v
         /\ \A b \in Int : b % 65536 # a /\ b % 65536 # (a + 1) % 65536
                             => read8(WRMEM16(c, a, v), b) = read8(c, b)
<1> DEFINE d == write8(c, a, v \div 256)
           a1 == (a + 1) % 65536
           e == WRMEM16(c, a, v)
<1>1. v \div 256 \in Byte /\ v % 256 \in Byte
  BY SignBit
<1>v. v = 256 * (v \div 256) + (v % 256)
  <2>1. v \in Nat
    BY ByteInNat
  <2> QED
    BY <2>1
<1>2. a1 \in Word /\ a1 # a /\ a % 65536 = a /\ a \in Int /\ a + 1 \in Int
  BY DEF Word
<1>3. Changed(c, d, JustMem)
  BY <1>1, WriteIs
<1>4. \A b \in Int : read8(d, b) = IF b % 65536 = a THEN v \div 256 ELSE read8(c, b)
  BY <1>1, WriteIs
<1>5. d \in Cpu
  BY <1>3 DEF Changed
<1>6. e = write8(d, a1, v % 256)
  BY DEF WRMEM16
<1> HIDE DEF d, e, a1
<1>7. Changed(d, e, JustMem)
  BY <1>1, <1>2, <1>5, <1>6, WriteIs
<1>8. \A b \in Int : read8(e, b) = IF b % 65536 = a1 THEN v % 256 ELSE read8(d, b)
  BY <1>1, <1>2, <1>5, <1>6, WriteIs
<1>9. Changed(c, e, JustMem)
  BY <1>3, <1>7, ChangedTwo
<1>10. read8(e, a) = v \div 256 /\ read8(e, a + 1) = v % 256
  BY <1>2, <1>4, <1>8 DEF a1
<1>11. RDMEM16(e, a) = v
  BY <1>v, <1>10 DEF RDMEM16
<1>12. \A b \in Int : b % 65536 # a /\ b % 65536 # a1 => read8(e, b) = read8(c, b)
  BY <1>4, <1>8
<1> QED
  BY <1>9, <1>11, <1>12 DEF e, a1

-----------------------------------------------------------------------------
(* Registers. *)

ByteRegs == {"A", "B", "DP", "CC"}

\* The fields that hold a register.
Just(r)  == {r}
JustD    == {"A", "B"}
Holds(r) == CASE r = "D" -> JustD [] r = "CC" -> Codes [] OTHER -> Just(r)

PullFields(r, sp) == Holds(r) \cup {sp}

\* The fields of a processor.
LEMMA CpuIs ==
  ASSUME NEW c \in Cpu
  PROVE  /\ c.A \in Byte /\ c.B \in Byte /\ c.DP \in Page /\ c.X \in Word /\ c.Y \in Word
         /\ c.U \in Word /\ c.S \in Word /\ c.PC \in Nat /\ c.EFI \in Efis /\ c.f \in Lazy
         /\ c.cycles \in Int /\ c.waiting \in BOOLEAN /\ c.stopped \in BOOLEAN
BY DEF Cpu

\* DP is kept as the page's address.
LEMMA PageIs ==
  /\ \A p \in Page : p \in Word /\ p \div 256 \in Byte /\ p % 256 = 0
  /\ \A v \in Byte : 256 * v \in Page
  /\ \A p \in Page, v \in Byte : v + p \in Word
<1>1. ASSUME NEW p \in Page PROVE p \in Word /\ p \div 256 \in Byte /\ p % 256 = 0
  BY SignBit DEF Page
<1>2. ASSUME NEW v \in Byte PROVE 256 * v \in Page
  BY DEF Page, Word, Byte
<1>3. ASSUME NEW p \in Page, NEW v \in Byte PROVE v + p \in Word
  <2>1. p \in Nat /\ p < 65536 /\ p % 256 = 0 /\ v \in Nat /\ v < 256
    BY DEF Page, Word, Byte
  <2>2. v + p \in Nat /\ v + p < 65536
    BY <2>1
  <2> QED
    BY <2>2 DEF Word
<1> QED
  BY <1>1, <1>2, <1>3

\* A register has its width.
LEMMA GetIs ==
  ASSUME NEW c \in Cpu
  PROVE  /\ \A r \in WordRegs : Get(c, r) \in Word
         /\ \A r \in ByteRegs : Get(c, r) \in Byte
<1>1. get_d(c) \in Word
  BY CpuIs, Bytes2 DEF get_d
<1>2. c.PC % 65536 \in Word
  BY CpuIs, Wrap
<1>3. c.DP \div 256 \in Byte
  BY CpuIs, PageIs
<1>4. get_cc(c.EFI, c.f) \in Byte
  BY CpuIs, GetCC
<1>5. ASSUME NEW r \in WordRegs PROVE Get(c, r) \in Word
  BY <1>1, <1>2, CpuIs DEF Get, WordRegs
<1>6. ASSUME NEW r \in ByteRegs PROVE Get(c, r) \in Byte
  BY <1>3, <1>4, CpuIs DEF Get, ByteRegs
<1> QED
  BY <1>5, <1>6

\* Setting CC changes the condition codes only.
LEMMA SetCCIs ==
  ASSUME NEW c \in Cpu, NEW v \in Byte
  PROVE  Changed(c, set_CC(c, v), Codes)
<1> DEFINE efi == v & EFI_FLAGS
           f == set_cc(v)
<1>1. efi \in Efis /\ f \in Lazy
  BY EfiBits, SetCC
<1>2. set_CC(c, v) = [c EXCEPT !.EFI = efi, !.f = f]
  BY DEF set_CC
<1> HIDE DEF efi, f
<1>3. Changed(c, [c EXCEPT !.EFI = efi, !.f = f], Codes)
  BY <1>1 DEF Changed, Names, Cpu, Codes
<1> QED
  BY <1>2, <1>3

\* A 16-bit register reads back what was put in it, and nothing else changes.
LEMMA SetWordIs ==
  ASSUME NEW c \in Cpu, NEW r \in WordRegs, NEW v \in Word
  PROVE  Changed(c, Set(c, r, v), Holds(r)) /\ Get(Set(c, r, v), r) = v
<1>1. CASE r = "D"
  <2> DEFINE a == v \div 256
             b == v % 256
             d == Set(c, r, v)
  <2>1. a \in Byte /\ b \in Byte
    BY SignBit
  <2>2. v = 256 * a + b
    <3>1. v \in Nat
      BY ByteInNat
    <3> QED
      BY <3>1
  <2>3. d = [c EXCEPT !.A = a, !.B = b]
    BY <1>1 DEF Set
  <2> HIDE DEF a, b, d
  <2>4. Changed(c, d, JustD) /\ d.A = a /\ d.B = b
    BY <2>1, <2>3 DEF Changed, Names, Cpu, JustD
  <2> QED
    BY <1>1, <2>2, <2>4 DEF d, Holds, Get, get_d
<1>2. CASE r \in {"X", "Y", "U", "S"}
  <2> DEFINE d == Set(c, r, v)
  <2>1. d = [c EXCEPT ![r] = v]
    BY <1>2 DEF Set
  <2> HIDE DEF d
  <2>2. Changed(c, d, Just(r)) /\ d[r] = v
    BY <2>1, <1>2 DEF Changed, Names, Cpu, Just
  <2> QED
    BY <1>2, <2>2 DEF d, Holds, Get
<1>3. CASE r = "PC"
  <2> DEFINE d == Set(c, r, v)
  <2>0. v \in Nat /\ v % 65536 = v
    BY ByteInNat, Wrap
  <2>1. d = [c EXCEPT !.PC = v]
    BY <1>3 DEF Set
  <2> HIDE DEF d
  <2>2. Changed(c, d, Just("PC")) /\ d.PC = v
    BY <2>0, <2>1 DEF Changed, Names, Cpu, Just
  <2> QED
    BY <1>3, <2>0, <2>2 DEF d, Holds, Get
<1> QED
  BY <1>1, <1>2, <1>3 DEF WordRegs

\* An 8-bit register too.
LEMMA SetByteIs ==
  ASSUME NEW c \in Cpu, NEW r \in ByteRegs, NEW v \in Byte
  PROVE  Changed(c, Set(c, r, v), Holds(r))
<1>1. CASE r \in {"A", "B"}
  <2> DEFINE d == Set(c, r, v)
  <2>1. d = [c EXCEPT ![r] = v]
    BY <1>1 DEF Set
  <2> HIDE DEF d
  <2>2. Changed(c, d, Just(r))
    BY <2>1, <1>1 DEF Changed, Names, Cpu, Just
  <2> QED
    BY <1>1, <2>2 DEF d, Holds
<1>2. CASE r = "DP"
  <2> DEFINE d == Set(c, r, v)
             p == 256 * v
  <2>0. p \in Page
    BY PageIs
  <2>1. d = [c EXCEPT !.DP = p]
    BY <1>2 DEF Set
  <2> HIDE DEF d, p
  <2>2. Changed(c, d, Just("DP"))
    BY <2>0, <2>1 DEF Changed, Names, Cpu, Just
  <2> QED
    BY <1>2, <2>2 DEF d, Holds
<1>3. CASE r = "CC"
  BY <1>3, SetCCIs DEF Set, Holds
<1> QED
  BY <1>1, <1>2, <1>3 DEF ByteRegs

-----------------------------------------------------------------------------
(* Stacks. *)

Stacks == {"S", "U"}
Regs   == WordRegs \cup ByteRegs

\* The stack pointer, and the address n bytes below it.
Sp(c, sp)       == c[sp]
Below(c, sp, n) == (Sp(c, sp) - n) % 65536

\* Stack addresses are words.
LEMMA StackIs ==
  ASSUME NEW c \in Cpu, NEW sp \in Stacks
  PROVE  /\ Sp(c, sp) \in Word /\ Sp(c, sp) \in Int
         /\ \A n \in Int : Below(c, sp, n) \in Word /\ Below(c, sp, n) \in Int
<1>1. Sp(c, sp) \in Word
  BY CpuIs DEF Stacks, Sp
<1>2. Sp(c, sp) \in Int
  BY <1>1, WordIs
<1>3. ASSUME NEW n \in Int PROVE Below(c, sp, n) \in Word
  BY <1>2, Wrap DEF Below
<1> QED
  BY <1>1, <1>2, <1>3, WordIs

\* Moving a stack pointer changes nothing else.
LEMMA MoveStackIs ==
  ASSUME NEW c \in Cpu, NEW sp \in Stacks, NEW a \in Int
  PROVE  Changed(c, MoveStack(c, sp, a), JustStack(sp)) /\ Sp(MoveStack(c, sp, a), sp) = a % 65536
<1> DEFINE w == a % 65536
<1>1. w \in Word
  BY Wrap
<1> HIDE DEF w
<1>2. Changed(c, [c EXCEPT ![sp] = w], JustStack(sp)) /\ [c EXCEPT ![sp] = w][sp] = w
  BY <1>1 DEF Changed, Names, Cpu, Stacks, JustStack
<1> QED
  BY <1>2 DEF MoveStack, w, Sp

\* The sizes of the registers on a stack.
LEMMA SizeIs ==
  /\ \A r \in WordRegs : Size(r) = 2 /\ r \in Regs
  /\ \A r \in ByteRegs : Size(r) = 1 /\ r \notin WordRegs /\ r \in Regs
  /\ \A r \in Regs : Size(r) \in Nat /\ Size(r) <= 2 /\ (r \in WordRegs \/ r \in ByteRegs)
BY DEF Size, WordRegs, ByteRegs, Regs

\* The fields a push changes.
LEMMA StackFieldsAre ==
  ASSUME NEW sp \in Stacks
  PROVE  /\ JustMem \subseteq StoreFields(sp) /\ JustStack(sp) \subseteq StoreFields(sp)
         /\ StoreFields(sp) \subseteq PushFields(sp) /\ JustCycles \subseteq PushFields(sp)
         /\ "cycles" \in PushFields(sp) /\ "cycles" \notin StoreFields(sp)
BY DEF JustMem, JustStack, JustCycles, StoreFields, PushFields, Stacks

\* A push stores the register below the stack pointer and nothing else.
LEMMA StoreIs ==
  ASSUME NEW c \in Cpu, NEW sp \in Stacks, NEW r \in Regs
  PROVE  LET a == Below(c, sp, Size(r))
             d == StoreReg(c, a, r)
         IN  /\ Changed(c, d, JustMem)
             /\ r \in WordRegs => RDMEM16(d, a) = Get(c, r)
             /\ \A b \in Int : b % 65536 # Below(c, sp, 1) /\ b % 65536 # Below(c, sp, 2)
                                 => read8(d, b) = read8(c, b)
<1> DEFINE a == Below(c, sp, Size(r))
           v == Get(c, r)
           d == StoreReg(c, a, r)
<1>1. CASE r \in WordRegs
  <2>1. v \in Word /\ a = Below(c, sp, 2) /\ d = WRMEM16(c, a, v) /\ a \in Word
    BY <1>1, GetIs, SizeIs, StackIs DEF StoreReg
  <2>2. (a + 1) % 65536 = Below(c, sp, 1)
    BY <2>1, StackIs DEF Below
  <2> HIDE DEF a, v, d
  <2>3. /\ Changed(c, d, JustMem)
        /\ RDMEM16(d, a) = v
        /\ \A b \in Int : b % 65536 # a /\ b % 65536 # (a + 1) % 65536
                            => read8(d, b) = read8(c, b)
    BY <2>1, Write16Is
  <2>4. \A b \in Int : b % 65536 # Below(c, sp, 1) /\ b % 65536 # Below(c, sp, 2)
                         => read8(d, b) = read8(c, b)
    BY <2>1, <2>2, <2>3
  <2> QED
    BY <2>3, <2>4 DEF a, d, v
<1>2. CASE r \in ByteRegs
  <2>1. v \in Byte /\ a = Below(c, sp, 1) /\ d = write8(c, a, v) /\ r \notin WordRegs /\ a \in Word
    BY <1>2, GetIs, SizeIs, StackIs DEF StoreReg
  <2> HIDE DEF a, v, d
  <2>3. /\ Changed(c, d, JustMem)
        /\ \A b \in Int : read8(d, b) = IF b % 65536 = a THEN v ELSE read8(c, b)
    BY <2>1, WriteIs
  <2>4. \A b \in Int : b % 65536 # Below(c, sp, 1) /\ b % 65536 # Below(c, sp, 2)
                         => read8(d, b) = read8(c, b)
    BY <2>1, <2>3
  <2> QED
    BY <2>1, <2>3, <2>4 DEF a, d, v
<1> QED
  BY <1>1, <1>2, SizeIs

\* A push of any register.
LEMMA PushIs ==
  ASSUME NEW c \in Cpu, NEW sp \in Stacks, NEW r \in Regs, NEW e, e = PushReg(c, sp, r)
  PROVE  /\ Changed(c, e, StoreFields(sp))
         /\ Sp(e, sp) = Below(c, sp, Size(r))
         /\ r \in WordRegs => RDMEM16(e, Below(c, sp, 2)) = Get(c, r)
         /\ \A b \in Int : b % 65536 # Below(c, sp, 1) /\ b % 65536 # Below(c, sp, 2)
                             => read8(e, b) = read8(c, b)
<1> DEFINE a == Below(c, sp, Size(r))
           d == StoreReg(c, a, r)
<1>1. a \in Word /\ a \in Int
  BY StackIs, SizeIs
<1>2. /\ Changed(c, d, JustMem)
      /\ r \in WordRegs => RDMEM16(d, a) = Get(c, r)
      /\ \A b \in Int : b % 65536 # Below(c, sp, 1) /\ b % 65536 # Below(c, sp, 2)
                          => read8(d, b) = read8(c, b)
  BY StoreIs
<1>3. e = MoveStack(d, sp, a)
  BY DEF PushReg, Below, Sp
<1>4. r \in WordRegs => a = Below(c, sp, 2)
  BY SizeIs
<1> HIDE DEF a, d
<1>5. d \in Cpu
  BY <1>2 DEF Changed
<1>6. Changed(d, e, JustStack(sp)) /\ Sp(e, sp) = a % 65536
  BY <1>1, <1>3, <1>5, MoveStackIs
<1>7. a % 65536 = a
  BY <1>1, Wrap
<1>8. Changed(c, d, StoreFields(sp)) /\ Changed(d, e, StoreFields(sp))
  BY <1>2, <1>6, StackFieldsAre, ChangedMore
<1>9. Changed(c, e, StoreFields(sp))
  BY <1>8, ChangedTwo
<1>10. e.mem = d.mem
  BY <1>6 DEF Changed, Names, Stacks, JustStack
<1>11. \A b : read8(e, b) = read8(d, b) /\ RDMEM16(e, b) = RDMEM16(d, b)
  BY <1>10 DEF read8, RDMEM16
<1>12. r \in WordRegs => RDMEM16(e, Below(c, sp, 2)) = Get(c, r)
  BY <1>2, <1>4, <1>11
<1>13. \A b \in Int : b % 65536 # Below(c, sp, 1) /\ b % 65536 # Below(c, sp, 2)
                        => read8(e, b) = read8(c, b)
  BY <1>2, <1>11
<1> QED
  BY <1>6, <1>7, <1>9, <1>12, <1>13 DEF a

\* A pull of any register takes what is on the stack, with the stack pointer past it.
LEMMA PullIs ==
  ASSUME NEW c \in Cpu, NEW sp \in Stacks, NEW r \in Regs, r # "D"
  PROVE  Changed(c, PullReg(c, sp, r), PullFields(r, sp))
<1> DEFINE d == FetchReg(c, Sp(c, sp), r)
           a == Sp(d, sp) + Size(r)
           e == PullReg(c, sp, r)
<1>0. Sp(c, sp) \in Int
  BY StackIs
<1>1. Changed(c, d, Holds(r))
  <2>1. CASE r \in WordRegs
    <3>1. RDMEM16(c, Sp(c, sp)) \in Word
      BY <1>0, ReadIs
    <3> QED
      BY <2>1, <3>1, SetWordIs DEF FetchReg
  <2>2. CASE r \in ByteRegs
    <3>1. read8(c, Sp(c, sp)) \in Byte
      BY <1>0, ReadIs
    <3>2. r \notin WordRegs
      BY <2>2, SizeIs
    <3> QED
      BY <2>2, <3>1, <3>2, SetByteIs DEF FetchReg
  <2> QED
    BY <2>1, <2>2, SizeIs
<1>2. e = MoveStack(d, sp, a)
  BY DEF PullReg, Sp
<1> HIDE DEF d, e
<1>3. d \in Cpu
  BY <1>1 DEF Changed
<1>4. a \in Int
  BY <1>3, StackIs, SizeIs
<1> HIDE DEF a
<1>5. Changed(d, e, JustStack(sp))
  BY <1>2, <1>3, <1>4, MoveStackIs
<1>6. Holds(r) \subseteq PullFields(r, sp) /\ JustStack(sp) \subseteq PullFields(r, sp)
  BY DEF PullFields, JustStack
<1>7. Changed(c, d, PullFields(r, sp)) /\ Changed(d, e, PullFields(r, sp))
  BY <1>1, <1>5, <1>6, ChangedMore
<1>8. Changed(c, e, PullFields(r, sp))
  BY <1>7, ChangedTwo
<1> QED
  BY <1>8 DEF e

\* d is like c but for the fields in S, and not earlier.
Later(c, d, S) == Changed(c, d, S) /\ d.cycles >= c.cycles

\* One after the other.
LEMMA LaterTwo ==
  ASSUME NEW c, NEW d, NEW e, NEW S, Later(c, d, S), Later(d, e, S)
  PROVE  Later(c, e, S)
<1>1. Changed(c, e, S)
  BY ChangedTwo DEF Later
<1>2. c.cycles \in Int /\ d.cycles \in Int /\ e.cycles \in Int
  BY CpuIs DEF Later, Changed
<1> QED
  BY <1>1, <1>2 DEF Later

\* No change is later, too.
LEMMA LaterSame ==
  ASSUME NEW c \in Cpu, NEW S
  PROVE  Later(c, c, S)
BY CpuIs DEF Later, Changed

\* More fields may have changed.
LEMMA LaterMore ==
  ASSUME NEW c, NEW d, NEW S, NEW T, S \subseteq T, Later(c, d, S)
  PROVE  Later(c, d, T)
BY ChangedMore DEF Later

\* Counting cycles is later.
LEMMA LaterClock ==
  ASSUME NEW c \in Cpu, NEW d, NEW S, "cycles" \in S, Changed(c, d, S),
         d.cycles = c.cycles, NEW n \in Nat
  PROVE  Later(c, Clock(d, n), S)
<1>1. d \in Cpu /\ c.cycles \in Int /\ d.cycles \in Int
  BY CpuIs DEF Changed
<1>2. Changed(d, Clock(d, n), JustCycles) /\ Clock(d, n).cycles = d.cycles + n
  BY <1>1, ClockIs
<1>3. Changed(d, Clock(d, n), S)
  BY <1>2, ChangedMore DEF JustCycles
<1>4. Changed(c, Clock(d, n), S)
  BY <1>3, ChangedTwo
<1> QED
  BY <1>1, <1>2, <1>4 DEF Later

\* A push that the post-byte asks for, or not.
LEMMA PushIfIs ==
  ASSUME NEW c \in Cpu, NEW sp \in Stacks, NEW post, NEW mask, NEW r \in Regs
  PROVE  Later(c, PushIf(c, sp, post, mask, r), PushFields(sp))
<1> DEFINE d == PushReg(c, sp, r)
           S == PushFields(sp)
<1>1. Changed(c, d, StoreFields(sp))
  BY PushIs
<1>2. d.cycles = c.cycles
  BY <1>1, StackFieldsAre DEF Changed, Names
<1>3. Changed(c, d, S) /\ "cycles" \in S
  BY <1>1, StackFieldsAre, ChangedMore
<1>4. Size(r) \in Nat
  BY SizeIs
<1> HIDE DEF d
<1>5. Later(c, Clock(d, Size(r)), S)
  BY <1>2, <1>3, <1>4, LaterClock
<1>6. Later(c, c, S)
  BY LaterSame
<1> QED
  BY <1>5, <1>6 DEF PushIf, d

\* Where the registers of a pull are, PC left out.
Data == {"A", "B", "DP", "X", "Y", "U", "S", "EFI", "f", "cycles"}
DataPC == Data \cup JustPC

\* What a pull of r changes, PC left out, is in Data.
LEMMA HoldsIs ==
  /\ \A r \in Regs : Holds(r) \subseteq DataPC /\ (r # "PC" => Holds(r) \subseteq Data)
  /\ \A r \in Regs : "cycles" \notin Holds(r) /\ "mem" \notin Holds(r) /\ "stopped" \notin Holds(r)
  /\ Stacks \subseteq Data /\ "cycles" \in Data /\ "cycles" \notin Stacks
<1>1. ASSUME NEW r \in Regs
      PROVE  /\ r \in DataPC \cup {"D", "CC"} /\ r \notin {"cycles", "mem", "stopped"}
             /\ r # "PC" => r \in Data \cup {"D", "CC"}
  <2>1. r \in {"D", "X", "Y", "U", "S", "PC", "A", "B", "DP", "CC"}
    BY DEF Regs, WordRegs, ByteRegs
  <2>2. r \notin {"cycles", "mem", "stopped"}
    BY <2>1
  <2>3. r # "PC" => r \in Data \cup {"D", "CC"}
    BY <2>1 DEF Data
  <2> QED
    BY <2>2, <2>3 DEF DataPC, JustPC
<1>2. ASSUME NEW r \in Regs
      PROVE  /\ Holds(r) \subseteq DataPC /\ (r # "PC" => Holds(r) \subseteq Data)
             /\ "cycles" \notin Holds(r) /\ "mem" \notin Holds(r) /\ "stopped" \notin Holds(r)
  <2>1. CASE r = "D"
    BY <2>1 DEF Holds, JustD, Data, DataPC
  <2>2. CASE r = "CC"
    BY <2>2 DEF Holds, Codes, Data, DataPC
  <2>3. CASE r \notin {"D", "CC"}
    BY <1>1, <2>3 DEF Holds, Just
  <2> QED
    BY <2>1, <2>2, <2>3
<1>3. Stacks \subseteq Data /\ "cycles" \in Data /\ "cycles" \notin Stacks
  BY DEF Stacks, Data
<1> QED
  BY <1>2, <1>3

\* A pull that the post-byte asks for, or not.
LEMMA PullIfIs ==
  ASSUME NEW c \in Cpu, NEW sp \in Stacks, NEW post, NEW mask, NEW r \in Regs, r # "D"
  PROVE  /\ Later(c, PullIf(c, sp, post, mask, r), DataPC)
         /\ r # "PC" \/ ~Has(post, mask) => Later(c, PullIf(c, sp, post, mask, r), Data)
<1> DEFINE d == PullReg(c, sp, r)
<1>1. Changed(c, d, PullFields(r, sp))
  BY PullIs
<1>2. d.cycles = c.cycles
  BY <1>1, HoldsIs DEF Changed, Names, PullFields
<1>4. Size(r) \in Nat
  BY SizeIs
<1> HIDE DEF d
<1>5. ASSUME NEW S, Holds(r) \subseteq S, sp \in S, "cycles" \in S
      PROVE  Later(c, Clock(d, Size(r)), S)
  <2>1. PullFields(r, sp) \subseteq S
    BY <1>5 DEF PullFields
  <2>2. Changed(c, d, S)
    BY <1>1, <2>1, ChangedMore
  <2> QED
    BY <1>2, <1>4, <1>5, <2>2, LaterClock
<1>6. Later(c, c, DataPC) /\ Later(c, c, Data)
  BY LaterSame
<1>7. Later(c, Clock(d, Size(r)), DataPC)
  BY <1>5, HoldsIs DEF DataPC, JustPC
<1>8. r # "PC" => Later(c, Clock(d, Size(r)), Data)
  BY <1>5, HoldsIs
<1> QED
  BY <1>6, <1>7, <1>8 DEF PullIf, d

\* The opcode's second byte is read, and five cycles are counted.
LEMMA PostIs ==
  ASSUME NEW c \in Cpu
  PROVE  LET d == Clock(Advance(c, 1), 5)
         IN  d \in Cpu /\ d.PC = c.PC + 1 /\ d.cycles = c.cycles + 5
<1> DEFINE a == Advance(c, 1)
           d == Clock(a, 5)
<1>1. Changed(c, a, JustPC) /\ a.PC = c.PC + 1
  BY AdvanceIs
<1>2. a \in Cpu /\ a.cycles = c.cycles
  BY <1>1 DEF Changed, Names, JustPC
<1> HIDE DEF a
<1>3. Changed(a, d, JustCycles) /\ d.cycles = a.cycles + 5
  BY <1>2, ClockIs
<1>4. d \in Cpu /\ d.PC = a.PC
  BY <1>3 DEF Changed, Names, JustCycles
<1> QED
  BY <1>1, <1>2, <1>3, <1>4 DEF a

EightRegs(order) ==
  /\ order[1] \in Regs /\ order[2] \in Regs /\ order[3] \in Regs /\ order[4] \in Regs
  /\ order[5] \in Regs /\ order[6] \in Regs /\ order[7] \in Regs /\ order[8] \in Regs

\* The orders of both stacks name registers, D nowhere and PC first only.
LEMMA OrdersAre ==
  \A order \in {SysOrder, UsrOrder} :
    /\ EightRegs(order) /\ order[1] # "D"
    /\ order[2] \notin {"D", "PC"} /\ order[3] \notin {"D", "PC"} /\ order[4] \notin {"D", "PC"}
    /\ order[5] \notin {"D", "PC"} /\ order[6] \notin {"D", "PC"} /\ order[7] \notin {"D", "PC"}
    /\ order[8] \notin {"D", "PC"}
BY DEF EightRegs, SysOrder, UsrOrder, Regs, WordRegs, ByteRegs

\* PSHS and PSHU take at least five cycles and leave PC past the post-byte.
LEMMA PushAllIs ==
  ASSUME NEW c \in Cpu, NEW sp \in Stacks, NEW order \in {SysOrder, UsrOrder}
  PROVE  LET d == Push(c, sp, order)
         IN  d \in Cpu /\ d.PC = c.PC + 1 /\ d.cycles >= c.cycles + 5
<1> DEFINE post == imm_byte(c)
           S == PushFields(sp)
           d0 == Clock(Advance(c, 1), 5)
           d1 == PushIf(d0, sp, post, 128, order[1])
           d2 == PushIf(d1, sp, post, 64, order[2])
           d3 == PushIf(d2, sp, post, 32, order[3])
           d4 == PushIf(d3, sp, post, 16, order[4])
           d5 == PushIf(d4, sp, post, 8, order[5])
           d6 == PushIf(d5, sp, post, 4, order[6])
           d7 == PushIf(d6, sp, post, 2, order[7])
           d8 == PushIf(d7, sp, post, 1, order[8])
<1>0. Push(c, sp, order) = d8
  BY DEF Push
<1>o. EightRegs(order)
  BY OrdersAre
<1>c. d0 \in Cpu /\ d0.PC = c.PC + 1 /\ d0.cycles = c.cycles + 5
  BY PostIs
<1> HIDE DEF post, d0
<1>l. ASSUME NEW d, NEW e, NEW m, NEW r \in Regs, Later(d0, d, S), e = PushIf(d, sp, post, m, r)
      PROVE  Later(d0, e, S)
  <2>1. d \in Cpu
    BY <1>l DEF Later, Changed
  <2>2. Later(d, e, S)
    BY <1>l, <2>1, PushIfIs
  <2> QED
    BY <1>l, <2>2, LaterTwo
<1>1. Later(d0, d1, S)
  BY <1>c, <1>o, <1>l, LaterSame DEF EightRegs
<1> HIDE DEF d1
<1>2. Later(d0, d2, S)
  BY <1>1, <1>o, <1>l DEF EightRegs
<1> HIDE DEF d2
<1>3. Later(d0, d3, S)
  BY <1>2, <1>o, <1>l DEF EightRegs
<1> HIDE DEF d3
<1>4. Later(d0, d4, S)
  BY <1>3, <1>o, <1>l DEF EightRegs
<1> HIDE DEF d4
<1>5. Later(d0, d5, S)
  BY <1>4, <1>o, <1>l DEF EightRegs
<1> HIDE DEF d5
<1>6. Later(d0, d6, S)
  BY <1>5, <1>o, <1>l DEF EightRegs
<1> HIDE DEF d6
<1>7. Later(d0, d7, S)
  BY <1>6, <1>o, <1>l DEF EightRegs
<1> HIDE DEF d7
<1>8. Later(d0, d8, S)
  BY <1>7, <1>o, <1>l DEF EightRegs
<1> HIDE DEF d8
<1>9. d8 \in Cpu /\ d8.PC = d0.PC /\ d8.cycles >= d0.cycles
  BY <1>8 DEF Later, Changed, Names, Stacks, PushFields
<1> QED
  BY <1>0, <1>c, <1>9

\* PULS and PULU too, PC unless they pull it.
LEMMA PullAllIs ==
  ASSUME NEW c \in Cpu, NEW sp \in Stacks, NEW order \in {SysOrder, UsrOrder}
  PROVE  LET d == Pull(c, sp, order)
         IN  /\ d \in Cpu /\ d.cycles >= c.cycles + 5
             /\ ~Has(imm_byte(c), 128) => d.PC = c.PC + 1
<1> DEFINE post == imm_byte(c)
           d0 == Clock(Advance(c, 1), 5)
           d1 == PullIf(d0, sp, post, 1, order[8])
           d2 == PullIf(d1, sp, post, 2, order[7])
           d3 == PullIf(d2, sp, post, 4, order[6])
           d4 == PullIf(d3, sp, post, 8, order[5])
           d5 == PullIf(d4, sp, post, 16, order[4])
           d6 == PullIf(d5, sp, post, 32, order[3])
           d7 == PullIf(d6, sp, post, 64, order[2])
           d8 == PullIf(d7, sp, post, 128, order[1])
<1>0. Pull(c, sp, order) = d8
  BY DEF Pull
<1>o. /\ EightRegs(order) /\ order[1] # "D"
      /\ order[2] \notin {"D", "PC"} /\ order[3] \notin {"D", "PC"} /\ order[4] \notin {"D", "PC"}
      /\ order[5] \notin {"D", "PC"} /\ order[6] \notin {"D", "PC"} /\ order[7] \notin {"D", "PC"}
      /\ order[8] \notin {"D", "PC"}
  BY OrdersAre
<1>c. d0 \in Cpu /\ d0.PC = c.PC + 1 /\ d0.cycles = c.cycles + 5
  BY PostIs
<1> HIDE DEF post, d0
<1>l. ASSUME NEW d, NEW e, NEW m, NEW r \in Regs, r \notin {"D", "PC"}, Later(d0, d, Data),
             e = PullIf(d, sp, post, m, r)
      PROVE  Later(d0, e, Data)
  <2>1. d \in Cpu
    BY <1>l DEF Later, Changed
  <2>2. Later(d, e, Data)
    BY <1>l, <2>1, PullIfIs
  <2> QED
    BY <1>l, <2>2, LaterTwo
<1>1. Later(d0, d1, Data)
  BY <1>c, <1>o, <1>l, LaterSame DEF EightRegs
<1> HIDE DEF d1
<1>2. Later(d0, d2, Data)
  BY <1>1, <1>o, <1>l DEF EightRegs
<1> HIDE DEF d2
<1>3. Later(d0, d3, Data)
  BY <1>2, <1>o, <1>l DEF EightRegs
<1> HIDE DEF d3
<1>4. Later(d0, d4, Data)
  BY <1>3, <1>o, <1>l DEF EightRegs
<1> HIDE DEF d4
<1>5. Later(d0, d5, Data)
  BY <1>4, <1>o, <1>l DEF EightRegs
<1> HIDE DEF d5
<1>6. Later(d0, d6, Data)
  BY <1>5, <1>o, <1>l DEF EightRegs
<1> HIDE DEF d6
<1>7. Later(d0, d7, Data)
  BY <1>6, <1>o, <1>l DEF EightRegs
<1> HIDE DEF d7
<1>8. d7 \in Cpu /\ Later(d0, d7, DataPC)
  BY <1>7, LaterMore DEF Later, Changed, DataPC
<1>9. Later(d7, d8, DataPC) /\ (~Has(post, 128) => Later(d7, d8, Data))
  BY <1>8, <1>o, PullIfIs DEF EightRegs
<1> HIDE DEF d8
<1>10. Later(d0, d8, DataPC) /\ (~Has(post, 128) => Later(d0, d8, Data))
  BY <1>7, <1>8, <1>9, LaterTwo
<1>11. d8 \in Cpu /\ d8.cycles >= d0.cycles /\ (~Has(post, 128) => d8.PC = d0.PC)
  BY <1>10 DEF Later, Changed, Names, Data
<1> QED
  BY <1>0, <1>c, <1>11 DEF post

\* The word w is on the stack of d at a, with k bytes pushed after it.
OnStack(d, a, w, k) ==
  d \in Cpu /\ Sp(d, "S") = (a - k) % 65536 /\ RDMEM16(d, a) = w

\* The word pushed first is at the stack pointer.
LEMMA PushFirst ==
  ASSUME NEW c \in Cpu, NEW r \in WordRegs, NEW d, d = PushReg(c, "S", r)
  PROVE  OnStack(d, Below(c, "S", 2), Get(c, r), 0) /\ Changed(c, d, StoreFields("S"))
<1>1. r \in Regs /\ "S" \in Stacks /\ Size(r) = 2
  BY SizeIs DEF Stacks
<1>2. /\ Changed(c, d, StoreFields("S")) /\ Sp(d, "S") = Below(c, "S", Size(r))
      /\ RDMEM16(d, Below(c, "S", 2)) = Get(c, r)
  BY <1>1, PushIs
<1> DEFINE a == Below(c, "S", 2)
<1>3. a \in Word /\ a \in Int
  BY <1>1, StackIs
<1> HIDE DEF a
<1>4. a = (a - 0) % 65536
  BY <1>3, Wrap
<1> QED
  BY <1>1, <1>2, <1>4 DEF OnStack, Changed, a

\* A later push leaves it where it is.
LEMMA PushOnto ==
  ASSUME NEW c, NEW d, NEW a \in Word, NEW w, NEW k \in Nat, k < 100, NEW r \in Regs,
         OnStack(c, a, w, k), d = PushReg(c, "S", r)
  PROVE  OnStack(d, a, w, k + Size(r)) /\ Changed(c, d, StoreFields("S"))
<1> DEFINE s == Sp(c, "S")
<1>1. c \in Cpu /\ s = (a - k) % 65536 /\ RDMEM16(c, a) = w /\ "S" \in Stacks
  BY DEF OnStack, Stacks
<1>2. /\ Changed(c, d, StoreFields("S")) /\ Sp(d, "S") = Below(c, "S", Size(r))
      /\ \A b \in Int : b % 65536 # Below(c, "S", 1) /\ b % 65536 # Below(c, "S", 2)
                          => read8(d, b) = read8(c, b)
  BY <1>1, PushIs
<1>3. a \in Int /\ a % 65536 = a /\ 0 <= a /\ a < 65536
  BY DEF Word
<1>4. Size(r) \in Nat /\ Size(r) <= 2
  BY SizeIs
<1>b. \A n \in Int : Below(c, "S", n) = (s - n) % 65536
  BY DEF Below
<1>5. Sp(d, "S") = (a - (k + Size(r))) % 65536
  <2>1. Sp(d, "S") = (s - Size(r)) % 65536
    BY <1>2, <1>4, <1>b
  <2> HIDE DEF s
  <2> QED
    BY <2>1, <1>1, <1>3, <1>4
<1>6. /\ a % 65536 # Below(c, "S", 1) /\ a % 65536 # Below(c, "S", 2)
      /\ (a + 1) % 65536 # Below(c, "S", 1) /\ (a + 1) % 65536 # Below(c, "S", 2)
  <2> HIDE DEF s
  <2>1. Below(c, "S", 1) = (a - k - 1) % 65536 /\ Below(c, "S", 2) = (a - k - 2) % 65536
    BY <1>1, <1>3, <1>b
  <2>2. CASE a - k - 2 >= 0
    BY <1>3, <2>1, <2>2
  <2>3. CASE a - k - 2 < 0
    BY <1>3, <2>1, <2>3
  <2> QED
    BY <2>2, <2>3, <1>3
<1>7. read8(d, a) = read8(c, a) /\ read8(d, a + 1) = read8(c, a + 1)
  BY <1>2, <1>3, <1>6
<1>8. RDMEM16(d, a) = w
  BY <1>1, <1>7 DEF RDMEM16
<1> QED
  BY <1>2, <1>5, <1>8 DEF OnStack, Changed

\* The frame of an interrupt: PC is ten bytes up.
LEMMA FrameIs ==
  ASSUME NEW c \in Cpu
  PROVE  LET d == stack_machine_state(c)
         IN  /\ d \in Cpu /\ d.cycles = c.cycles + 19 /\ d.PC = c.PC
             /\ d.waiting = c.waiting /\ d.stopped = c.stopped
             /\ d.S \in Word /\ RDMEM16(d, d.S + 10) = c.PC % 65536
<1> DEFINE efi == c.EFI | 128
           e0 == [c EXCEPT !.EFI = efi]
           d0 == Clock(e0, 19)
           d1 == PushReg(d0, "S", "PC")
           d2 == PushReg(d1, "S", "U")
           d3 == PushReg(d2, "S", "Y")
           d4 == PushReg(d3, "S", "X")
           d5 == PushReg(d4, "S", "DP")
           d6 == PushReg(d5, "S", "B")
           d7 == PushReg(d6, "S", "A")
           d8 == PushReg(d7, "S", "CC")
           a == Below(c, "S", 2)
           w == c.PC % 65536
           T == StoreFields("S")
<1>a. stack_machine_state(c) = d8
  BY DEF stack_machine_state
<1>b. efi \in Efis
  BY CpuIs, EfisKept
<1> HIDE DEF efi
<1>c. Changed(c, e0, JustEFI)
  BY <1>b DEF Changed, Names, Cpu, JustEFI
<1>d. e0 \in Cpu
  BY <1>c DEF Changed
<1> HIDE DEF e0
<1>e. Changed(e0, d0, JustCycles) /\ d0.cycles = e0.cycles + 19
  BY <1>d, ClockIs
<1>f. /\ d0 \in Cpu /\ d0.cycles = c.cycles + 19 /\ d0.PC = c.PC /\ d0.S = c.S
      /\ d0.waiting = c.waiting /\ d0.stopped = c.stopped
  BY <1>c, <1>e DEF Changed, Names, JustEFI, JustCycles
<1> HIDE DEF d0
<1>g. a \in Word
  BY StackIs DEF Stacks
<1>r. /\ "PC" \in Regs /\ "U" \in Regs /\ "Y" \in Regs /\ "X" \in Regs
      /\ "DP" \in Regs /\ "B" \in Regs /\ "A" \in Regs /\ "CC" \in Regs
      /\ Size("PC") = 2 /\ Size("U") = 2 /\ Size("Y") = 2 /\ Size("X") = 2
      /\ Size("DP") = 1 /\ Size("B") = 1 /\ Size("A") = 1 /\ Size("CC") = 1
      /\ "PC" \in WordRegs /\ "S" \in Stacks
  BY DEF Regs, WordRegs, ByteRegs, Size, Stacks
<1>1. /\ Changed(d0, d1, T) /\ OnStack(d1, a, w, 0)
  <2>1. Get(d0, "PC") = w
    BY <1>f DEF Get
  <2>2. OnStack(d1, Below(d0, "S", 2), Get(d0, "PC"), 0) /\ Changed(d0, d1, StoreFields("S"))
    BY <1>f, <1>r, PushFirst
  <2>3. Below(d0, "S", 2) = a
    BY <1>f DEF Below, Sp
  <2> QED
    BY <2>1, <2>2, <2>3
<1> HIDE DEF a, w, d1
<1>2. Changed(d1, d2, T) /\ OnStack(d2, a, w, 2)
  <2>1. OnStack(d2, a, w, 0 + Size("U")) /\ Changed(d1, d2, T)
    BY <1>1, <1>g, <1>r, PushOnto
  <2> QED
    BY <2>1, <1>r
<1> HIDE DEF d2
<1>3. Changed(d2, d3, T) /\ OnStack(d3, a, w, 4)
  <2>1. OnStack(d3, a, w, 2 + Size("Y")) /\ Changed(d2, d3, T)
    BY <1>2, <1>g, <1>r, PushOnto
  <2> QED
    BY <2>1, <1>r
<1> HIDE DEF d3
<1>4. Changed(d3, d4, T) /\ OnStack(d4, a, w, 6)
  <2>1. OnStack(d4, a, w, 4 + Size("X")) /\ Changed(d3, d4, T)
    BY <1>3, <1>g, <1>r, PushOnto
  <2> QED
    BY <2>1, <1>r
<1> HIDE DEF d4
<1>5. Changed(d4, d5, T) /\ OnStack(d5, a, w, 7)
  <2>1. OnStack(d5, a, w, 6 + Size("DP")) /\ Changed(d4, d5, T)
    BY <1>4, <1>g, <1>r, PushOnto
  <2> QED
    BY <2>1, <1>r
<1> HIDE DEF d5
<1>6. Changed(d5, d6, T) /\ OnStack(d6, a, w, 8)
  <2>1. OnStack(d6, a, w, 7 + Size("B")) /\ Changed(d5, d6, T)
    BY <1>5, <1>g, <1>r, PushOnto
  <2> QED
    BY <2>1, <1>r
<1> HIDE DEF d6
<1>7. Changed(d6, d7, T) /\ OnStack(d7, a, w, 9)
  <2>1. OnStack(d7, a, w, 8 + Size("A")) /\ Changed(d6, d7, T)
    BY <1>6, <1>g, <1>r, PushOnto
  <2> QED
    BY <2>1, <1>r
<1> HIDE DEF d7
<1>8. Changed(d7, d8, T) /\ OnStack(d8, a, w, 10)
  <2>1. OnStack(d8, a, w, 9 + Size("CC")) /\ Changed(d7, d8, T)
    BY <1>7, <1>g, <1>r, PushOnto
  <2> QED
    BY <2>1, <1>r
<1> HIDE DEF d8
<1>9. Changed(d0, d8, T)
  BY <1>1, <1>2, <1>3, <1>4, <1>5, <1>6, <1>7, <1>8, ChangedTwo
<1>10. /\ d8 \in Cpu /\ d8.cycles = d0.cycles /\ d8.PC = d0.PC
       /\ d8.waiting = d0.waiting /\ d8.stopped = d0.stopped
  BY <1>9 DEF Changed, Names, StoreFields
<1>11. d8.S \in Word /\ d8.S = (a - 10) % 65536 /\ RDMEM16(d8, a) = w
  BY <1>8, CpuIs DEF OnStack, Sp
<1>12. (d8.S + 10) % 65536 = a % 65536 /\ (d8.S + 10 + 1) % 65536 = (a + 1) % 65536
  <2>1. a \in Int
    BY <1>g, WordIs
  <2> QED
    BY <2>1, <1>11
<1>13. RDMEM16(d8, d8.S + 10) = w
  BY <1>11, <1>12 DEF RDMEM16, read8
<1> QED
  BY <1>a, <1>f, <1>10, <1>11, <1>13 DEF w

\* Masking changes nothing else.
LEMMA SetEfiIs ==
  ASSUME NEW c \in Cpu, NEW efi \in Efis
  PROVE  Changed(c, [c EXCEPT !.EFI = efi], JustEFI)
BY DEF Changed, Names, Cpu, JustEFI

JustWaiting == {"waiting"}

\* Waiting changes nothing else.
LEMMA SetWaitingIs ==
  ASSUME NEW c \in Cpu
  PROVE  Changed(c, [c EXCEPT !.waiting = TRUE], JustWaiting)
BY DEF Changed, Names, Cpu, JustWaiting

\* A software interrupt stacks the address after it.
LEMMA SoftwareInterruptIs ==
  ASSUME NEW c \in Cpu, NEW n \in Nat, NEW masked, masked = 0 \/ masked = 80, NEW vector \in Int
  PROVE  LET d == SoftwareInterrupt(c, n, masked, vector)
         IN  /\ d \in Cpu /\ d.cycles >= c.cycles + 19
             /\ RDMEM16(d, d.S + 10) = c.PC % 65536
<1> DEFINE a == Clock(c, n)
           b == stack_machine_state(a)
           efi == b.EFI | masked
           e == [b EXCEPT !.EFI = efi]
           pc == RDMEM16(b, vector)
           d == change_pc(e, pc)
<1>1. a \in Cpu /\ a.cycles = c.cycles + n /\ a.PC = c.PC
  BY ClockIs DEF Changed, Names, JustCycles
<1> HIDE DEF a
<1>2. /\ b \in Cpu /\ b.cycles = a.cycles + 19
      /\ RDMEM16(b, b.S + 10) = a.PC % 65536
  BY <1>1, FrameIs
<1>3. SoftwareInterrupt(c, n, masked, vector) = d
  BY DEF SoftwareInterrupt, a
<1> HIDE DEF b
<1>4. efi \in Efis
  BY <1>2, CpuIs, EfisKept
<1> HIDE DEF efi
<1>5. Changed(b, e, JustEFI)
  BY <1>2, <1>4, SetEfiIs
<1>6. e \in Cpu /\ e.cycles = b.cycles /\ e.S = b.S /\ e.mem = b.mem
  BY <1>5 DEF Changed, Names, JustEFI
<1> HIDE DEF e
<1>7. pc \in Int
  BY <1>2, ReadIs, WordIs
<1> HIDE DEF pc
<1>8. Changed(e, d, JustPC)
  BY <1>6, <1>7, ChangePcIs
<1>9. d \in Cpu /\ d.cycles = e.cycles /\ d.S = e.S /\ d.mem = e.mem
  BY <1>8 DEF Changed, Names, JustPC
<1> HIDE DEF d
<1>10. RDMEM16(d, d.S + 10) = RDMEM16(b, b.S + 10)
  BY <1>6, <1>9 DEF RDMEM16, read8
<1>11. c.cycles \in Int
  BY CpuIs
<1> QED
  BY <1>1, <1>2, <1>3, <1>6, <1>9, <1>10, <1>11

\* A pull takes no time back.
LEMMA PullOne ==
  ASSUME NEW c, NEW d \in Cpu, NEW r \in Regs, r # "D", NEW e, e = PullReg(d, "S", r),
         d.cycles >= c
  PROVE  e \in Cpu /\ e.cycles >= c
<1>1. Changed(d, e, PullFields(r, "S"))
  BY PullIs DEF Stacks
<1>2. e \in Cpu /\ e.cycles = d.cycles
  BY <1>1, HoldsIs DEF Changed, Names, PullFields
<1> QED
  BY <1>2

\* The registers of a frame.
LEMMA RegsAre ==
  /\ "PC" \in Regs /\ "U" \in Regs /\ "Y" \in Regs /\ "X" \in Regs
  /\ "DP" \in Regs /\ "B" \in Regs /\ "A" \in Regs /\ "CC" \in Regs
BY DEF Regs, WordRegs, ByteRegs

\* RTS keeps the processor well formed and takes time.
LEMMA RtsIs ==
  ASSUME NEW c \in Cpu
  PROVE  rts(c) \in Cpu /\ rts(c).cycles >= c.cycles + 5
<1> DEFINE a == Clock(c, 5)
           n == c.cycles + 5
<1>1. a \in Cpu /\ a.cycles = c.cycles + 5 /\ c.cycles \in Int
  BY ClockIs, CpuIs DEF Changed
<1>2. a.cycles >= n
  BY <1>1
<1> HIDE DEF a, n
<1>3. rts(c) \in Cpu /\ rts(c).cycles >= n
  BY <1>1, <1>2, RegsAre, PullOne DEF rts, a
<1> QED
  BY <1>3 DEF n

\* RTI does, with either frame.
LEMMA RtiIs ==
  ASSUME NEW c \in Cpu
  PROVE  rti(c) \in Cpu /\ rti(c).cycles >= c.cycles + 6
<1> DEFINE a == Clock(c, 6)
           n == c.cycles + 6
           d0 == PullReg(a, "S", "CC")
           d1 == Clock(d0, 9)
           d2 == PullReg(d1, "S", "A")
           d3 == PullReg(d2, "S", "B")
           d4 == PullReg(d3, "S", "DP")
           d5 == PullReg(d4, "S", "X")
           d6 == PullReg(d5, "S", "Y")
           d7 == PullReg(d6, "S", "U")
           e == IF Has(d0.EFI, 128) THEN d7 ELSE d0
<1>a. rti(c) = PullReg(e, "S", "PC")
  BY DEF rti
<1>b. a \in Cpu /\ a.cycles = c.cycles + 6 /\ c.cycles \in Int
  BY ClockIs, CpuIs DEF Changed
<1>c. a.cycles >= n /\ n \in Int
  BY <1>b
<1> HIDE DEF a, n
<1>0. d0 \in Cpu /\ d0.cycles >= n
  BY <1>b, <1>c, RegsAre, PullOne
<1> HIDE DEF d0
<1>1. d1 \in Cpu /\ d1.cycles >= n
  <2>1. d1 \in Cpu /\ d1.cycles = d0.cycles + 9 /\ d0.cycles \in Int
    BY <1>0, ClockIs, CpuIs DEF Changed
  <2> QED
    BY <2>1, <1>0, <1>c
<1> HIDE DEF d1
<1>2. d2 \in Cpu /\ d2.cycles >= n
  BY <1>1, RegsAre, PullOne
<1> HIDE DEF d2
<1>3. d3 \in Cpu /\ d3.cycles >= n
  BY <1>2, RegsAre, PullOne
<1> HIDE DEF d3
<1>4. d4 \in Cpu /\ d4.cycles >= n
  BY <1>3, RegsAre, PullOne
<1> HIDE DEF d4
<1>5. d5 \in Cpu /\ d5.cycles >= n
  BY <1>4, RegsAre, PullOne
<1> HIDE DEF d5
<1>6. d6 \in Cpu /\ d6.cycles >= n
  BY <1>5, RegsAre, PullOne
<1> HIDE DEF d6
<1>7. d7 \in Cpu /\ d7.cycles >= n
  BY <1>6, RegsAre, PullOne
<1> HIDE DEF d7
<1>8. e \in Cpu /\ e.cycles >= n
  BY <1>0, <1>7
<1> HIDE DEF e
<1>9. rti(c) \in Cpu /\ rti(c).cycles >= n
  BY <1>a, <1>8, RegsAre, PullOne
<1> QED
  BY <1>9 DEF n

\* CWAI stacks the address after it once, and then repeats itself.
LEMMA CwaiIs ==
  ASSUME NEW c \in Cpu
  PROVE  /\ cwai(c) \in Cpu /\ cwai(c).cycles >= c.cycles + 1
         /\ ~c.waiting => RDMEM16(cwai(c), cwai(c).S + 10) = (c.PC + 1) % 65536
<1>0. c.cycles \in Int /\ c.PC \in Nat /\ imm_byte(c) \in Byte
  BY CpuIs, ReadIs DEF imm_byte
<1>1. CASE c.waiting
  <2> DEFINE a == Clock(c, 1)
             pc == c.PC - 1
             d == change_pc(a, pc)
  <2>1. a \in Cpu /\ a.cycles = c.cycles + 1 /\ pc \in Int
    <3>1. Changed(c, a, JustCycles) /\ a.cycles = c.cycles + 1
      BY ClockIs
    <3> QED
      BY <1>0, <3>1 DEF Changed
  <2>2. cwai(c) = d
    BY <1>1 DEF cwai
  <2> HIDE DEF a, pc
  <2>3. d \in Cpu /\ d.cycles = a.cycles
    BY <2>1, ChangePcIs DEF Changed, Names, JustPC
  <2> QED
    BY <1>0, <1>1, <2>1, <2>2, <2>3
<1>2. CASE ~c.waiting
  <2> DEFINE efi == c.EFI & imm_byte(c)
             a0 == [c EXCEPT !.EFI = efi]
             a1 == Advance(a0, 1)
             a2 == Clock(a1, 1)
             b == stack_machine_state(a2)
             e == [b EXCEPT !.waiting = TRUE]
             pc == b.PC - 2
             d == change_pc(e, pc)
  <2>0. cwai(c) = d
    BY <1>2 DEF cwai
  <2>1. efi \in Efis
    <3>1. c.EFI \in Efis
      BY CpuIs
    <3> QED
      BY <1>0, <3>1, EfisKept
  <2> HIDE DEF efi
  <2>2. Changed(c, a0, JustEFI)
    BY <2>1, SetEfiIs
  <2>3. a0 \in Cpu /\ a0.cycles = c.cycles /\ a0.PC = c.PC
    BY <2>2 DEF Changed, Names, JustEFI
  <2> HIDE DEF a0
  <2>4. a1 \in Cpu /\ a1.cycles = c.cycles /\ a1.PC = c.PC + 1
    BY <2>3, AdvanceIs DEF Changed, Names, JustPC
  <2> HIDE DEF a1
  <2>5. a2 \in Cpu /\ a2.cycles = c.cycles + 1 /\ a2.PC = c.PC + 1
    BY <2>4, ClockIs DEF Changed, Names, JustCycles
  <2> HIDE DEF a2
  <2>6. b \in Cpu /\ b.cycles = a2.cycles + 19 /\ RDMEM16(b, b.S + 10) = a2.PC % 65536
    BY <2>5, FrameIs
  <2> HIDE DEF b
  <2>7. e \in Cpu /\ e.cycles = b.cycles /\ e.S = b.S /\ e.mem = b.mem
    BY <2>6, SetWaitingIs DEF Changed, Names, JustWaiting
  <2> HIDE DEF e
  <2>8. pc \in Int
    BY <2>6, CpuIs
  <2> HIDE DEF pc
  <2>9. d \in Cpu /\ d.cycles = e.cycles /\ d.S = e.S /\ d.mem = e.mem
    BY <2>7, <2>8, ChangePcIs DEF Changed, Names, JustPC
  <2> HIDE DEF d
  <2>10. RDMEM16(d, d.S + 10) = RDMEM16(b, b.S + 10)
    BY <2>7, <2>9 DEF RDMEM16, read8
  <2> QED
    BY <1>0, <2>0, <2>5, <2>6, <2>7, <2>9, <2>10
<1> QED
  BY <1>1, <1>2

-----------------------------------------------------------------------------
(* TFR and EXG. *)

Nibble == {n \in Nat : n < 16}

\* v has the size of register number n.
Fits(n, v) == (n < 8 => v \in Word) /\ (n >= 8 => v \in Byte)

\* Numbers below 8 name 16-bit registers, the others 8-bit ones.
LEMMA RegNumberIs ==
  ASSUME NEW n \in Nibble, RegNumber(n) # "none"
  PROVE  /\ n < 8 => RegNumber(n) \in WordRegs
         /\ n >= 8 => RegNumber(n) \in ByteRegs
         /\ RegNumber(n) \in Regs
         /\ n # 5 => RegNumber(n) # "PC"
<1>1. n \in Int /\ n >= 0 /\ n < 16
  BY DEF Nibble
<1>2. CASE n < 8
  BY <1>1, <1>2 DEF RegNumber, WordRegs, Regs
<1>3. CASE n >= 8
  <2>1. n = 8 \/ n = 9 \/ n = 10 \/ n = 11
    BY <1>1, <1>3 DEF RegNumber
  <2>2. RegNumber(n) \in ByteRegs /\ RegNumber(n) # "PC"
    BY <2>1 DEF RegNumber, ByteRegs
  <2> QED
    BY <1>1, <1>3, <2>2, SizeIs
<1> QED
  BY <1>1, <1>2, <1>3

\* What a missing register reads as fits any register.
LEMMA FitsAny ==
  ASSUME NEW n \in Nibble
  PROVE  Fits(n, 255)
BY DEF Fits, Word, Byte

\* A register read by its number has the size of that number.
LEMMA GetRegIs ==
  ASSUME NEW c \in Cpu, NEW n \in Nibble
  PROVE  Fits(n, get_reg(c, n))
<1>1. CASE RegNumber(n) = "none"
  BY <1>1, FitsAny DEF get_reg
<1>2. CASE RegNumber(n) # "none"
  BY <1>2, RegNumberIs, GetIs DEF get_reg, Fits
<1> QED
  BY <1>1, <1>2

\* A register set by its number leaves PC alone, unless it is PC.
LEMMA SetRegIs ==
  ASSUME NEW c \in Cpu, NEW n \in Nibble, NEW v, Fits(n, v)
  PROVE  LET d == set_reg(c, n, v)
         IN  d \in Cpu /\ d.cycles = c.cycles /\ (n # 5 => d.PC = c.PC)
<1> DEFINE d == set_reg(c, n, v)
           r == RegNumber(n)
<1>1. CASE r = "none"
  BY <1>1 DEF set_reg
<1>2. CASE r # "none"
  <2>1. Changed(c, Set(c, r, v), Holds(r))
    <3>1. n \in Int
      BY DEF Nibble
    <3>2. n < 8 \/ n >= 8
      BY <3>1
    <3> QED
      BY <1>2, <3>2, RegNumberIs, SetWordIs, SetByteIs DEF Fits
  <2>2. d = Set(c, r, v)
    BY <1>2 DEF set_reg
  <2>3. r \in Regs /\ (n # 5 => r # "PC")
    BY <1>2, RegNumberIs
  <2> HIDE DEF d, r
  <2>4. "cycles" \notin Holds(r) /\ (n # 5 => "PC" \notin Holds(r))
    <3>1. "PC" \notin Data
      BY DEF Data
    <3> QED
      BY <2>3, <3>1, HoldsIs
  <2>5. Changed(c, d, Holds(r))
    BY <2>1, <2>2
  <2>6. d \in Cpu /\ d.cycles = c.cycles /\ (n # 5 => d.PC = c.PC)
    BY <2>4, <2>5 DEF Changed, Names
  <2> QED
    BY <2>6 DEF d
<1> QED
  BY <1>1, <1>2

\* A post-byte of one size: what fits the one register fits the other.
LEMMA Nibbles ==
  ASSUME NEW post \in Byte
  PROVE  /\ post \div 16 \in Nibble /\ post % 16 \in Nibble
         /\ SameSize(post) => \A v : Fits(post \div 16, v) <=> Fits(post % 16, v)
<1>1. post \in Int /\ 0 <= post /\ post < 256
  BY DEF Byte
<1>2. post \div 16 \in Nibble /\ post % 16 \in Nibble
  BY <1>1 DEF Nibble
<1>3. Has(post, 128) <=> post \div 16 >= 8
  BY <1>1 DEF Has
<1>4. Has(post, 8) <=> post % 16 >= 8
  <2> DEFINE h == post \div 16
             l == post % 16
  <2>1. post = 16 * h + l /\ h \in Int /\ l \in Int /\ 0 <= l /\ l < 16
    BY <1>1
  <2>2. post % 16 = l
    OBVIOUS
  <2> HIDE DEF h, l
  <2>3. CASE l < 8
    <3>1. post \div 8 = 2 * h
      BY <2>1, <2>3
    <3> QED
      BY <2>1, <2>2, <2>3, <3>1 DEF Has
  <2>4. CASE l >= 8
    <3>1. post \div 8 = 2 * h + 1
      BY <2>1, <2>4
    <3> QED
      BY <2>1, <2>2, <2>4, <3>1 DEF Has
  <2> QED
    BY <2>1, <2>3, <2>4
<1> DEFINE h == post \div 16
           l == post % 16
<1>5. SameSize(post) => (h >= 8 <=> l >= 8) /\ (h < 8 <=> l < 8)
  BY <1>2, <1>3, <1>4 DEF SameSize, Nibble
<1> HIDE DEF h, l
<1>6. SameSize(post) => \A v : Fits(h, v) <=> Fits(l, v)
  BY <1>5 DEF Fits
<1> QED
  BY <1>2, <1>6 DEF h, l

\* Post-bytes that do not move PC leave it past the post-byte.
LEMMA TfrIs ==
  ASSUME NEW c \in Cpu
  PROVE  /\ tfr(c) \in Cpu /\ tfr(c).cycles = c.cycles + 6
         /\ imm_byte(c) % 16 # 5 => tfr(c).PC = c.PC + 1
<1> DEFINE post == imm_byte(c)
           h == post \div 16
           l == post % 16
           d == Advance(c, 1)
           v == IF SameSize(post) THEN get_reg(d, h) ELSE 255
           e == set_reg(d, l, v)
<1>0. tfr(c) = Clock(e, 6)
  BY DEF tfr
<1>1. h \in Nibble /\ l \in Nibble /\ (SameSize(post) => \A w : Fits(h, w) <=> Fits(l, w))
  BY CpuIs, ReadIs, Nibbles DEF imm_byte
<1>2. d \in Cpu /\ d.cycles = c.cycles /\ d.PC = c.PC + 1
  BY AdvanceIs DEF Changed, Names, JustPC
<1> HIDE DEF d, h
<1>3. Fits(l, v)
  <2> HIDE DEF l
  <2> QED
    BY <1>1, <1>2, GetRegIs, FitsAny
<1> HIDE DEF v
<1>4. e \in Cpu /\ e.cycles = c.cycles /\ (l # 5 => e.PC = c.PC + 1)
  <2> HIDE DEF l
  <2>1. e \in Cpu /\ e.cycles = d.cycles /\ (l # 5 => e.PC = d.PC)
    BY <1>1, <1>2, <1>3, SetRegIs
  <2> QED
    BY <1>2, <2>1
<1> HIDE DEF e
<1>5. Clock(e, 6) \in Cpu /\ Clock(e, 6).cycles = e.cycles + 6 /\ Clock(e, 6).PC = e.PC
  <2> DEFINE g == Clock(e, 6)
  <2>1. Changed(e, g, JustCycles) /\ g.cycles = e.cycles + 6
    BY <1>4, ClockIs
  <2> HIDE DEF g
  <2>2. g \in Cpu /\ g.PC = e.PC
    BY <2>1 DEF Changed, Names, JustCycles
  <2> QED
    BY <2>1, <2>2 DEF g
<1> QED
  BY <1>0, <1>4, <1>5

\* EXG as TFR: post-bytes without PC leave it past the post-byte.
LEMMA ExgIs ==
  ASSUME NEW c \in Cpu
  PROVE  /\ exg(c) \in Cpu /\ exg(c).cycles = c.cycles + 8
         /\ imm_byte(c) \div 16 # 5 /\ imm_byte(c) % 16 # 5 => exg(c).PC = c.PC + 1
<1> DEFINE post == imm_byte(c)
           h == post \div 16
           l == post % 16
           d == Advance(c, 1)
           v == IF SameSize(post) THEN get_reg(d, h) ELSE 255
           w == IF SameSize(post) THEN get_reg(d, l) ELSE 255
           e == set_reg(d, l, v)
           g == set_reg(e, h, w)
<1>0. exg(c) = Clock(g, 8)
  BY DEF exg
<1>1. h \in Nibble /\ l \in Nibble /\ (SameSize(post) => \A u : Fits(h, u) <=> Fits(l, u))
  BY CpuIs, ReadIs, Nibbles DEF imm_byte
<1>2. d \in Cpu /\ d.cycles = c.cycles /\ d.PC = c.PC + 1
  BY AdvanceIs DEF Changed, Names, JustPC
<1> HIDE DEF d
<1>3. Fits(l, v) /\ Fits(h, w)
  <2> HIDE DEF l, h
  <2> QED
    BY <1>1, <1>2, GetRegIs, FitsAny
<1> HIDE DEF v, w
<1>4. e \in Cpu /\ e.cycles = c.cycles /\ (l # 5 => e.PC = c.PC + 1)
  <2> HIDE DEF l
  <2>1. e \in Cpu /\ e.cycles = d.cycles /\ (l # 5 => e.PC = d.PC)
    BY <1>1, <1>2, <1>3, SetRegIs
  <2> QED
    BY <1>2, <2>1
<1> HIDE DEF e
<1>6. g \in Cpu /\ g.cycles = e.cycles /\ (h # 5 => g.PC = e.PC)
  <2> HIDE DEF h
  <2> QED
    BY <1>1, <1>3, <1>4, SetRegIs
<1> HIDE DEF g
<1>5. Clock(g, 8) \in Cpu /\ Clock(g, 8).cycles = g.cycles + 8 /\ Clock(g, 8).PC = g.PC
  BY <1>6, ClockIs DEF Changed, Names, JustCycles
<1> QED
  BY <1>0, <1>4, <1>5, <1>6

\* ORCC and ANDCC.
LEMMA CodesSetIs ==
  ASSUME NEW c \in Cpu, NEW v \in Byte
  PROVE  LET d == Clock(set_CC(Advance(c, 1), v), 3)
         IN  d \in Cpu /\ d.cycles = c.cycles + 3 /\ d.PC = c.PC + 1
<1> DEFINE a == Advance(c, 1)
           b == set_CC(a, v)
           d == Clock(b, 3)
<1>1. a \in Cpu /\ a.cycles = c.cycles /\ a.PC = c.PC + 1
  BY AdvanceIs DEF Changed, Names, JustPC
<1> HIDE DEF a
<1>2. b \in Cpu /\ b.cycles = a.cycles /\ b.PC = a.PC
  BY <1>1, SetCCIs DEF Changed, Names, Codes
<1> HIDE DEF b
<1>3. d \in Cpu /\ d.cycles = b.cycles + 3 /\ d.PC = b.PC
  BY <1>2, ClockIs DEF Changed, Names, JustCycles
<1> HIDE DEF d
<1> QED
  BY <1>1, <1>2, <1>3 DEF d, b, a

\* ABX.
LEMMA AbxIs ==
  ASSUME NEW c \in Cpu
  PROVE  abx(c) \in Cpu /\ abx(c).cycles = c.cycles + 3 /\ abx(c).PC = c.PC
<1> DEFINE x == (c.X + c.B) % 65536
           d == [c EXCEPT !.X = x]
<1>1. abx(c) = Clock(d, 3)
  BY DEF abx
<1>2. c.X \in Int /\ c.B \in Int
  BY CpuIs, WordIs DEF Byte
<1>3. x \in Word
  BY <1>2, Wrap
<1> HIDE DEF x
<1>4. Changed(c, d, Just("X"))
  BY <1>3 DEF Changed, Names, Cpu, Just
<1>5. d \in Cpu /\ d.cycles = c.cycles /\ d.PC = c.PC
  BY <1>4 DEF Changed, Names, Just
<1> HIDE DEF d
<1>6. Clock(d, 3) \in Cpu /\ Clock(d, 3).cycles = d.cycles + 3 /\ Clock(d, 3).PC = d.PC
  BY <1>5, ClockIs DEF Changed, Names, JustCycles
<1> QED
  BY <1>1, <1>5, <1>6

-----------------------------------------------------------------------------
(* Effective addresses. *)

IndexRegs == {"X", "Y", "U", "S"}
EaFields  == {"PC", "cycles", "X", "Y", "U", "S", "stopped"}

\* e is an address and the processor past the n operand bytes it was formed from.
Formed(c, e, n) ==
  /\ Changed(c, e.c, EaFields)
  /\ e.ea \in Word
  /\ e.c.PC = c.PC + n

\* Forming it took time, or was an error.
Timed(c, e) == e.c.stopped = TRUE \/ e.c.cycles >= c.cycles + 4

\* What forming an address may change.
LEMMA EaFieldsAre ==
  /\ JustPC \subseteq EaFields /\ JustCycles \subseteq EaFields /\ JustStopped \subseteq EaFields
  /\ \A r \in IndexRegs : Just(r) \subseteq EaFields
BY DEF JustPC, JustCycles, JustStopped, Just, IndexRegs, EaFields

\* An address from operand bytes alone.
LEMMA FormIs ==
  ASSUME NEW c \in Cpu, NEW a \in Int, NEW n \in Nat, NEW clk \in Nat, clk >= 4,
         NEW e, e = [c |-> Clock(Advance(c, n), clk), ea |-> a % 65536]
  PROVE  Formed(c, e, n) /\ Timed(c, e)
<1> DEFINE b == Advance(c, n)
           d == Clock(b, clk)
<1>5. e.c = d /\ e.ea = a % 65536
  OBVIOUS
<1>1. Changed(c, b, JustPC) /\ b.PC = c.PC + n
  BY AdvanceIs
<1>2. b \in Cpu /\ b.cycles = c.cycles /\ Changed(c, b, EaFields)
  BY <1>1, EaFieldsAre, ChangedMore DEF Changed, Names, JustPC
<1> HIDE DEF b
<1>3. Changed(b, d, JustCycles) /\ d.cycles = b.cycles + clk
  BY <1>2, ClockIs
<1>4. d.PC = b.PC /\ Changed(b, d, EaFields)
  BY <1>3, EaFieldsAre, ChangedMore DEF Changed, Names, JustCycles
<1> HIDE DEF d
<1>6. Changed(c, d, EaFields) /\ d.PC = c.PC + n /\ d.cycles = c.cycles + clk
  BY <1>1, <1>2, <1>3, <1>4, ChangedTwo
<1>7. a % 65536 \in Word
  BY Wrap
<1>8. d.cycles >= c.cycles + 4
  BY <1>6, CpuIs
<1> QED
  BY <1>5, <1>6, <1>7, <1>8 DEF Formed, Timed

\* An address that steps its register.
LEMMA StepIs ==
  ASSUME NEW c \in Cpu, NEW r \in IndexRegs, NEW s \in Int, NEW a \in Int,
         NEW clk \in Nat, clk >= 4,
         NEW e, e = [c |-> Clock([c EXCEPT ![r] = s % 65536], clk), ea |-> a % 65536]
  PROVE  Formed(c, e, 0) /\ Timed(c, e)
<1> DEFINE w == s % 65536
           b == [c EXCEPT ![r] = w]
           d == Clock(b, clk)
<1>0. w \in Word
  BY Wrap
<1>9. e.c = d /\ e.ea = a % 65536
  OBVIOUS
<1> HIDE DEF w
<1>1. Changed(c, b, Just(r))
  BY <1>0 DEF Changed, Names, Cpu, Just, IndexRegs
<1>2. b \in Cpu /\ b.cycles = c.cycles /\ b.PC = c.PC
  BY <1>1 DEF Changed, Names, Just, IndexRegs
<1>3. Changed(c, b, EaFields)
  BY <1>1, EaFieldsAre, ChangedMore
<1> HIDE DEF b
<1>4. Changed(b, d, JustCycles) /\ d.cycles = b.cycles + clk
  BY <1>2, ClockIs
<1>5. d.PC = b.PC /\ Changed(b, d, EaFields)
  BY <1>4, EaFieldsAre, ChangedMore DEF Changed, Names, JustCycles
<1> HIDE DEF d
<1>6. Changed(c, d, EaFields) /\ d.PC = c.PC + 0 /\ d.cycles = c.cycles + clk
  BY <1>2, <1>3, <1>4, <1>5, CpuIs, ChangedTwo
<1>7. a % 65536 \in Word
  BY Wrap
<1>8. d.cycles >= c.cycles + 4
  BY <1>6, CpuIs
<1> QED
  BY <1>6, <1>7, <1>8, <1>9 DEF Formed, Timed

\* The operand bytes of an index mode.
Modes == {n \in Nat : n < 16 /\ n # 7 /\ n # 10 /\ n # 14}
ModeBytes(n) == CASE n = 8 -> 1 [] n = 12 -> 1 [] n = 9 -> 2 [] n = 13 -> 2 [] n = 15 -> 2 [] OTHER -> 0

\* Offsets are numbers.
LEMMA SignedIs ==
  /\ \A x \in Byte : Signed(x, 256) \in Int
  /\ \A x \in Word : Signed(x, 65536) \in Int
BY ByteInNat DEF Signed

\* Each of the index modes.
LEMMA IndexModeIs ==
  ASSUME NEW c \in Cpu, NEW r \in IndexRegs, NEW n \in Modes, NEW e, e = IndexMode(c, r, n)
  PROVE  Formed(c, e, ModeBytes(n)) /\ Timed(c, e)
<1> DEFINE x == c[r]
<1>1. x \in Int
  <2>1. x \in Word
    BY CpuIs DEF IndexRegs
  <2> QED
    BY <2>1, WordIs
<1>2. Signed(c.A, 256) \in Int /\ Signed(c.B, 256) \in Int
  BY CpuIs, SignedIs
<1>3. Signed(imm_byte(c), 256) \in Int /\ imm_word(c) \in Int
  BY CpuIs, ReadIs, SignedIs, WordIs DEF imm_byte, imm_word
<1>4. get_d(c) \in Int /\ c.PC \in Int
  BY CpuIs, Bytes2, WordIs DEF get_d
<1> HIDE DEF x
<1>5. CASE n = 0
  BY <1>1, <1>5, StepIs DEF IndexMode, ModeBytes, x
<1>6. CASE n = 1
  BY <1>1, <1>6, StepIs DEF IndexMode, ModeBytes, x
<1>7. CASE n = 2
  BY <1>1, <1>7, StepIs DEF IndexMode, ModeBytes, x
<1>8. CASE n = 3
  <2>1. x + (-2) \in Int /\ x - 2 \in Int
    BY <1>1
  <2>2. e = [c |-> Clock([c EXCEPT ![r] = (x + (-2)) % 65536], 7), ea |-> (x - 2) % 65536]
    BY <1>8 DEF IndexMode, x
  <2> QED
    BY <1>8, <2>1, <2>2, StepIs DEF ModeBytes
<1>9. CASE n = 4
  BY <1>1, <1>9, FormIs DEF IndexMode, ModeBytes, x
<1>10. CASE n = 5
  BY <1>1, <1>2, <1>10, FormIs DEF IndexMode, ModeBytes, x
<1>11. CASE n = 6
  BY <1>1, <1>2, <1>11, FormIs DEF IndexMode, ModeBytes, x
<1>12. CASE n = 8
  BY <1>1, <1>3, <1>12, FormIs DEF IndexMode, ModeBytes, x
<1>13. CASE n = 9
  BY <1>1, <1>3, <1>13, FormIs DEF IndexMode, ModeBytes, x
<1>14. CASE n = 11
  BY <1>1, <1>4, <1>14, FormIs DEF IndexMode, ModeBytes, x
<1>15. CASE n = 12
  BY <1>3, <1>4, <1>15, FormIs DEF IndexMode, ModeBytes
<1>16. CASE n = 13
  BY <1>3, <1>4, <1>16, FormIs DEF IndexMode, ModeBytes
<1>17. CASE n = 15
  BY <1>3, <1>17, FormIs DEF IndexMode, ModeBytes
<1> QED
  BY <1>5, <1>6, <1>7, <1>8, <1>9, <1>10, <1>11, <1>12, <1>13, <1>14, <1>15, <1>16, <1>17 DEF Modes

\* The operand bytes of an indexed instruction are the ones dasm() counts.
LEMMA PostBytes ==
  ASSUME NEW post \in Byte
  PROVE  /\ index_regs[1 + ((post \div 32) % 4)] \in IndexRegs
         /\ post < 128 => DasmIndexed(post) = 0
         /\ post >= 128 /\ ~Has(post, 16) /\ post % 16 \in DirectModes =>
              post % 16 \in Modes /\ DasmIndexed(post) = ModeBytes(post % 16)
         /\ post >= 128 /\ Has(post, 16) /\ post % 16 \in IndirectModes =>
              post % 16 \in Modes /\ DasmIndexed(post) = ModeBytes(post % 16)
         /\ post >= 128 /\ ~Has(post, 16) /\ post % 16 \notin DirectModes => DasmIndexed(post) = 0
         /\ post >= 128 /\ Has(post, 16) /\ post % 16 \notin IndirectModes => DasmIndexed(post) = 0
<1>1. post \in Int /\ 0 <= post /\ post < 256
  BY DEF Byte
<1>2. index_regs[1 + ((post \div 32) % 4)] \in IndexRegs
  <2> DEFINE k == (post \div 32) % 4
  <2>1. k = 0 \/ k = 1 \/ k = 2 \/ k = 3
    BY <1>1
  <2> HIDE DEF k
  <2>2. index_regs[1 + k] \in IndexRegs
    BY <2>1 DEF index_regs, IndexRegs
  <2> QED
    BY <2>2 DEF k
<1> DEFINE n == post % 16
           m == post % 32
<1>3. n \in Int /\ 0 <= n /\ n < 16
  BY <1>1
<1>4. ~Has(post, 16) => m = n
  BY <1>1 DEF Has
<1>5. Has(post, 16) => m = n + 16
  BY <1>1 DEF Has
<1>6. DasmIndexed(post) = CASE post >= 128 /\ m \in {8, 12, 24, 28}     -> 1
                           [] post >= 128 /\ m \in {9, 13, 25, 29, 31} -> 2
                           [] OTHER -> 0
  BY DEF DasmIndexed
<1> HIDE DEF n, m
<1>7. post < 128 => DasmIndexed(post) = 0
  BY <1>1, <1>6
<1>8. ASSUME post >= 128, ~Has(post, 16)
      PROVE  /\ n \in DirectModes => n \in Modes /\ DasmIndexed(post) = ModeBytes(n)
             /\ n \notin DirectModes => DasmIndexed(post) = 0
  BY <1>3, <1>4, <1>6, <1>8 DEF DirectModes, Modes, ModeBytes
<1>9. ASSUME post >= 128, Has(post, 16)
      PROVE  /\ n \in IndirectModes => n \in Modes /\ DasmIndexed(post) = ModeBytes(n)
             /\ n \notin IndirectModes => DasmIndexed(post) = 0
  BY <1>3, <1>5, <1>6, <1>9 DEF IndirectModes, Modes, ModeBytes
<1> QED
  BY <1>2, <1>7, <1>8, <1>9 DEF n

\* Every post-byte, valid or not.
LEMMA IndexedIs ==
  ASSUME NEW c \in Cpu, NEW e, e = indexed(c)
  PROVE  Formed(c, e, 1 + DasmIndexed(imm_byte(c))) /\ Timed(c, e)
<1> DEFINE post == imm_byte(c)
           d == Advance(c, 1)
           r == index_regs[1 + ((post \div 32) % 4)]
           n == post % 16
<1>1. post \in Byte /\ post \in Int
  <2>1. post \in Byte
    BY CpuIs, ReadIs DEF imm_byte
  <2> HIDE DEF post
  <2> QED
    BY <2>1 DEF Byte
<1>2. Changed(c, d, JustPC) /\ d.PC = c.PC + 1
  BY AdvanceIs
<1>3. d \in Cpu /\ d.cycles = c.cycles /\ Changed(c, d, EaFields)
  BY <1>2, EaFieldsAre, ChangedMore DEF Changed, Names, JustPC
<1>4. r \in IndexRegs
  BY <1>1, PostBytes
<1>5. ASSUME NEW i, NEW k \in Nat, Formed(d, i, k) PROVE Formed(c, i, 1 + k)
  <2>1. Changed(c, i.c, EaFields)
    BY <1>3, <1>5, ChangedTwo DEF Formed
  <2>2. i.c.PC = c.PC + (1 + k)
    <3> HIDE DEF d
    <3> QED
      BY <1>2, <1>5, CpuIs DEF Formed
  <2> QED
    BY <1>5, <2>1, <2>2 DEF Formed
<1>6. ASSUME NEW i, Timed(d, i) PROVE Timed(c, i)
  <2> HIDE DEF d
  <2> QED
    BY <1>3, <1>6 DEF Timed
<1>7. CASE post < 128
  <2> DEFINE a == d[r] + n + (IF Has(post, 16) THEN 65520 ELSE 0)
  <2>1. d[r] \in Int
    <3> HIDE DEF d, r
    <3>1. d[r] \in Word
      BY <1>3, <1>4, CpuIs DEF IndexRegs
    <3> QED
      BY <3>1, WordIs
  <2>2. a \in Int
    <3>1. n \in Int
      BY <1>1
    <3> DEFINE x == d[r]
    <3> HIDE DEF x, n
    <3>2. x + n + (IF Has(post, 16) THEN 65520 ELSE 0) \in Int
      BY <2>1, <3>1 DEF x
    <3> QED
      BY <3>2 DEF x
  <2>3. e = [c |-> Clock(d, 5), ea |-> a % 65536]
    BY <1>1, <1>7 DEF indexed
  <2>4. DasmIndexed(post) = 0
    BY <1>1, <1>7, PostBytes
  <2> HIDE DEF d, a
  <2>5. Formed(d, e, 0) /\ Timed(d, e)
    <3> DEFINE g == Clock(d, 5)
    <3>1. Changed(d, g, JustCycles) /\ g.cycles = d.cycles + 5
      BY <1>3, ClockIs
    <3>2. Changed(d, g, EaFields) /\ g.PC = d.PC
      BY <3>1, EaFieldsAre, ChangedMore DEF Changed, Names, JustCycles
    <3>3. e.c = g /\ e.ea \in Word
      BY <2>2, <2>3, Wrap
    <3> HIDE DEF g
    <3>4. g.PC = d.PC + 0 /\ g.cycles >= d.cycles + 4
      BY <1>3, <3>1, <3>2, CpuIs
    <3> QED
      BY <3>2, <3>3, <3>4 DEF Formed, Timed
  <2> QED
    BY <1>5, <1>6, <2>4, <2>5
<1>8. CASE post >= 128 /\ ~Has(post, 16) /\ n \in DirectModes
  <2>1. e = IndexMode(d, r, n)
    BY <1>1, <1>8 DEF indexed
  <2>2. n \in Modes /\ DasmIndexed(post) = ModeBytes(n) /\ ModeBytes(n) \in Nat
    <3>1. n \in Modes /\ DasmIndexed(post) = ModeBytes(n)
      BY <1>1, <1>8, PostBytes
    <3> HIDE DEF n
    <3> QED
      BY <3>1 DEF ModeBytes
  <2> HIDE DEF d, r, n
  <2>3. Formed(d, e, ModeBytes(n)) /\ Timed(d, e)
    BY <1>3, <1>4, <2>1, <2>2, IndexModeIs
  <2> QED
    BY <1>5, <1>6, <2>2, <2>3
<1>9. CASE post >= 128 /\ Has(post, 16) /\ n \in IndirectModes
  <2> DEFINE i == IndexMode(d, r, n)
  <2>1. e = [c |-> Clock(i.c, 3), ea |-> RDMEM16(i.c, i.ea)]
    BY <1>1, <1>9 DEF indexed
  <2>2. n \in Modes /\ DasmIndexed(post) = ModeBytes(n) /\ ModeBytes(n) \in Nat
    <3>1. n \in Modes /\ DasmIndexed(post) = ModeBytes(n)
      BY <1>1, <1>9, PostBytes
    <3> HIDE DEF n
    <3> QED
      BY <3>1 DEF ModeBytes
  <2> HIDE DEF d, r, n
  <2>3. Formed(d, i, ModeBytes(n)) /\ Timed(d, i)
    BY <1>3, <1>4, <2>2, IndexModeIs
  <2> HIDE DEF i
  <2>4. Formed(c, i, 1 + ModeBytes(n)) /\ Timed(c, i)
    BY <1>5, <1>6, <2>2, <2>3
  <2> DEFINE b == i.c
             g == Clock(b, 3)
  <2>5. Changed(c, b, EaFields) /\ b \in Cpu /\ b.PC = c.PC + (1 + ModeBytes(n)) /\ i.ea \in Int
    BY <2>4, WordIs DEF Formed, Changed
  <2>6. RDMEM16(b, i.ea) \in Word
    BY <2>5, ReadIs
  <2>7. b.stopped = TRUE \/ b.cycles >= c.cycles + 4
    BY <2>4 DEF Timed
  <2>8. e.c = g /\ e.ea = RDMEM16(b, i.ea)
    BY <2>1
  <2> HIDE DEF b
  <2>9. Changed(b, g, JustCycles) /\ g.cycles = b.cycles + 3
    BY <2>5, ClockIs
  <2>10. Changed(b, g, EaFields) /\ g.PC = b.PC /\ g.stopped = b.stopped
    BY <2>9, EaFieldsAre, ChangedMore DEF Changed, Names, JustCycles
  <2> HIDE DEF g
  <2>11. Changed(c, g, EaFields)
    BY <2>5, <2>10, ChangedTwo
  <2>12. g.stopped = TRUE \/ g.cycles >= c.cycles + 4
    BY <2>5, <2>7, <2>9, <2>10, CpuIs
  <2> QED
    BY <2>2, <2>5, <2>6, <2>8, <2>10, <2>11, <2>12 DEF Formed, Timed
<1>10. CASE /\ post >= 128
            /\ Has(post, 16) \/ n \notin DirectModes
            /\ ~Has(post, 16) \/ n \notin IndirectModes
  <2>1. e = [c |-> sim_error(d), ea |-> 0]
    BY <1>1, <1>10 DEF indexed
  <2>2. DasmIndexed(post) = 0
    BY <1>1, <1>10, PostBytes
  <2> DEFINE g == sim_error(d)
  <2>3. e.c = g /\ e.ea = 0
    BY <2>1
  <2> HIDE DEF d
  <2>4. Changed(d, g, JustStopped) /\ g.stopped = TRUE
    BY <1>3, SimErrorIs, Zenon
  <2>5. Changed(d, g, EaFields) /\ g.PC = d.PC
    BY <2>4, EaFieldsAre, ChangedMore DEF Changed, Names, JustStopped
  <2> HIDE DEF g
  <2>6. g.PC = d.PC + 0 /\ 0 \in Word
    BY <1>3, <2>5, CpuIs DEF Word
  <2>7. Formed(d, e, 0) /\ Timed(d, e)
    BY <2>3, <2>4, <2>5, <2>6 DEF Formed, Timed
  <2> QED
    BY <1>5, <1>6, <2>2, <2>7
<1> QED
  BY <1>1, <1>7, <1>8, <1>9, <1>10

-----------------------------------------------------------------------------
(* Operands. *)

MemModes  == {"direct", "indexed", "extended"}

\* The operand bytes of an addressing mode, post being the first of them.
OperandBytes(mode, post) ==
  CASE mode \in {"direct", "imm_byte", "rel_byte", "post"} -> 1
    [] mode \in {"extended", "imm_word", "rel_word"} -> 2
    [] mode = "indexed" -> 1 + DasmIndexed(post)
    [] OTHER -> 0

\* With the cycles of the mode, clk makes for a positive time.
Costs(mode, clk) == clk \in Int /\ (IF mode = "indexed" THEN clk >= -3 ELSE clk >= 1)

\* d is c past the operand, with clk cycles still to be counted.
Reached(c, d, mode, clk) ==
  /\ Changed(c, d, EaFields)
  /\ d.PC = c.PC + OperandBytes(mode, imm_byte(c))
  /\ d.stopped = TRUE \/ d.cycles + clk > c.cycles

\* An immediate operand is reached by advancing PC.
LEMMA AdvancedIs ==
  ASSUME NEW c \in Cpu, NEW n \in Nat, NEW mode, NEW clk \in Nat, clk >= 1,
         OperandBytes(mode, imm_byte(c)) = n
  PROVE  Reached(c, Advance(c, n), mode, clk)
<1> DEFINE d == Advance(c, n)
<1>1. Changed(c, d, JustPC) /\ d.PC = c.PC + n
  BY AdvanceIs
<1>2. Changed(c, d, EaFields) /\ d.cycles = c.cycles
  BY <1>1, EaFieldsAre, ChangedMore DEF Changed, Names, JustPC
<1> HIDE DEF d
<1>3. d.cycles + clk > c.cycles
  BY <1>2, CpuIs
<1>4. Reached(c, d, mode, clk)
  BY <1>1, <1>2, <1>3 DEF Reached
<1> QED
  BY <1>4 DEF d

\* A memory operand is reached through its effective address.
LEMMA EaIs ==
  ASSUME NEW c \in Cpu, NEW mode \in MemModes, NEW clk, Costs(mode, clk), NEW e, e = EA(c, mode)
  PROVE  Reached(c, e.c, mode, clk) /\ e.ea \in Word
<1>1. CASE mode = "direct"
  <2>1. e.c = Advance(c, 1) /\ e.ea = imm_byte(c) + c.DP
    BY <1>1 DEF EA, direct
  <2>2. e.ea \in Word
    BY <2>1, CpuIs, ReadIs, PageIs DEF imm_byte
  <2>3. clk \in Nat /\ clk >= 1 /\ OperandBytes(mode, imm_byte(c)) = 1
    BY <1>1 DEF Costs, OperandBytes
  <2> QED
    BY <2>1, <2>2, <2>3, AdvancedIs
<1>2. CASE mode = "extended"
  <2>1. e.c = Advance(c, 2) /\ e.ea = imm_word(c)
    BY <1>2 DEF EA, extended
  <2>2. e.ea \in Word
    BY <2>1, CpuIs, ReadIs DEF imm_word
  <2>3. clk \in Nat /\ clk >= 1 /\ OperandBytes(mode, imm_byte(c)) = 2
    BY <1>2 DEF Costs, OperandBytes
  <2> QED
    BY <2>1, <2>2, <2>3, AdvancedIs
<1>3. CASE mode = "indexed"
  <2>1. e = indexed(c)
    BY <1>3 DEF EA
  <2>2. Formed(c, e, 1 + DasmIndexed(imm_byte(c))) /\ Timed(c, e)
    BY <2>1, IndexedIs
  <2>3. OperandBytes(mode, imm_byte(c)) = 1 + DasmIndexed(imm_byte(c))
    BY <1>3 DEF OperandBytes
  <2>4. e.c.stopped = TRUE \/ e.c.cycles + clk > c.cycles
    <3>1. e.c.cycles \in Int /\ c.cycles \in Int
      BY <2>2, CpuIs DEF Formed, Changed
    <3>2. clk \in Int /\ clk >= -3
      BY <1>3 DEF Costs
    <3> QED
      BY <2>2, <3>1, <3>2 DEF Timed
  <2> QED
    BY <2>2, <2>3, <2>4 DEF Formed, Reached
<1> QED
  BY <1>1, <1>2, <1>3 DEF MemModes

\* A byte operand, immediate or in memory.
LEMMA ByteOperandIs ==
  ASSUME NEW c \in Cpu, NEW mode, mode = "imm_byte" \/ mode \in MemModes,
         NEW clk, Costs(mode, clk), NEW o, o = ByteOperand(c, mode)
  PROVE  Reached(c, o.c, mode, clk) /\ o.val \in Byte
<1>1. CASE mode = "imm_byte"
  <2>1. o.c = Advance(c, 1) /\ o.val = imm_byte(c)
    BY <1>1 DEF ByteOperand
  <2>2. o.val \in Byte
    BY <2>1, CpuIs, ReadIs DEF imm_byte
  <2>3. clk \in Nat /\ clk >= 1 /\ OperandBytes(mode, imm_byte(c)) = 1
    BY <1>1 DEF Costs, OperandBytes
  <2> QED
    BY <2>1, <2>2, <2>3, AdvancedIs
<1>2. CASE mode \in MemModes
  <2> DEFINE e == EA(c, mode)
  <2>1. mode # "imm_byte"
    BY <1>2 DEF MemModes
  <2>2. o.c = e.c /\ o.val = read8(e.c, e.ea)
    BY <2>1 DEF ByteOperand
  <2>3. Reached(c, e.c, mode, clk) /\ e.ea \in Word
    BY <1>2, EaIs
  <2> HIDE DEF e
  <2>4. read8(e.c, e.ea) \in Byte
    BY <2>3, ReadIs, WordIs DEF Reached, Changed
  <2> QED
    BY <2>2, <2>3, <2>4
<1> QED
  BY <1>1, <1>2

\* A word operand, immediate or in memory.
LEMMA WordOperandIs ==
  ASSUME NEW c \in Cpu, NEW op, NEW mode, mode = "imm_word" \/ mode \in MemModes,
         NEW clk, Costs(mode, clk), NEW o, o = WordOperand(c, op, mode)
  PROVE  Reached(c, o.c, mode, clk) /\ o.val \in Word
<1>1. CASE mode = "imm_word"
  <2>1. o.c = Advance(c, 2) /\ o.val = imm_word(c)
    BY <1>1 DEF WordOperand
  <2>2. o.val \in Word
    BY <2>1, CpuIs, ReadIs DEF imm_word
  <2>3. clk \in Nat /\ clk >= 1 /\ OperandBytes(mode, imm_byte(c)) = 2
    BY <1>1 DEF Costs, OperandBytes
  <2> QED
    BY <2>1, <2>2, <2>3, AdvancedIs
<1>2. CASE mode \in MemModes
  <2> DEFINE e == EA(c, mode)
             b == e.c
             n == IF op = "ld16" THEN 1 ELSE 2
             d == Clock(b, n)
  <2>1. mode # "imm_word"
    BY <1>2 DEF MemModes
  <2>2. o.c = d /\ o.val = RDMEM16(b, e.ea)
    BY <2>1 DEF WordOperand
  <2>3. Reached(c, b, mode, clk) /\ e.ea \in Word
    BY <1>2, EaIs
  <2>4. n \in Int /\ n >= 0
    OBVIOUS
  <2> HIDE DEF e, b, n
  <2>5. RDMEM16(b, e.ea) \in Word
    BY <2>3, ReadIs, WordIs DEF Reached, Changed
  <2>6. b \in Cpu
    BY <2>3 DEF Reached, Changed
  <2>7. Changed(b, d, JustCycles) /\ d.cycles = b.cycles + n
    BY <2>4, <2>6, ClockIs
  <2>8. Changed(b, d, EaFields) /\ d.PC = b.PC /\ d.stopped = b.stopped
    BY <2>7, EaFieldsAre, ChangedMore DEF Changed, Names, JustCycles
  <2> HIDE DEF d
  <2>9. Changed(c, d, EaFields)
    BY <2>3, <2>8, ChangedTwo DEF Reached
  <2>10. d.stopped = TRUE \/ d.cycles + clk > c.cycles
    <3>1. b.cycles \in Int /\ c.cycles \in Int /\ clk \in Int
      BY <2>6, CpuIs DEF Costs
    <3> QED
      BY <2>3, <2>4, <2>7, <2>8, <3>1 DEF Reached
  <2> QED
    BY <2>2, <2>3, <2>5, <2>8, <2>9, <2>10 DEF Reached
<1> QED
  BY <1>1, <1>2

-----------------------------------------------------------------------------
(* The bodies of the switch that compute. *)

JustF   == {"f"}
Results == {"A", "B", "DP", "X", "Y", "U", "S", "mem"}

\* Setting the flags changes nothing else.
LEMMA FlagsIs ==
  ASSUME NEW c \in Cpu, NEW f \in Lazy
  PROVE  Changed(c, Flags(c, f), JustF) /\ Flags(c, f).f = f
BY DEF Flags, Changed, Names, Cpu, JustF

\* d is c after an instruction of one operand of this mode.
Done(c, d, mode) ==
  /\ d \in Cpu
  /\ d.PC = c.PC + OperandBytes(mode, imm_byte(c))
  /\ d.stopped = TRUE \/ d.cycles > c.cycles

\* Flags and cycles after the operand.
LEMMA FinishIs ==
  ASSUME NEW c \in Cpu, NEW b, NEW mode, NEW clk \in Int, Reached(c, b, mode, clk),
         NEW f \in Lazy, NEW g, g = Clock(Flags(b, f), clk)
  PROVE  /\ Done(c, g, mode)
         /\ g.f = f /\ g.EFI = c.EFI /\ g.A = c.A /\ g.B = c.B
         /\ g.X = b.X /\ g.Y = b.Y /\ g.U = b.U /\ g.S = b.S /\ g.mem = c.mem /\ b.mem = c.mem
<1> DEFINE a == Flags(b, f)
<1>1. b \in Cpu /\ b.EFI = c.EFI /\ b.A = c.A /\ b.B = c.B /\ b.mem = c.mem
  BY DEF Reached, Changed, Names, EaFields
<1>2. /\ a \in Cpu /\ a.f = f /\ a.EFI = b.EFI /\ a.A = b.A /\ a.B = b.B /\ a.X = b.X /\ a.Y = b.Y
      /\ a.U = b.U /\ a.S = b.S /\ a.mem = b.mem /\ a.PC = b.PC /\ a.cycles = b.cycles
      /\ a.stopped = b.stopped
  BY <1>1, FlagsIs DEF Changed, Names, JustF
<1> HIDE DEF a
<1>3. /\ g \in Cpu /\ g.f = a.f /\ g.EFI = a.EFI /\ g.A = a.A /\ g.B = a.B /\ g.X = a.X /\ g.Y = a.Y
      /\ g.U = a.U /\ g.S = a.S /\ g.mem = a.mem /\ g.PC = a.PC /\ g.cycles = a.cycles + clk
      /\ g.stopped = a.stopped
  <2>1. g = Clock(a, clk)
    BY DEF a
  <2> QED
    BY <1>2, <2>1, ClockIs DEF Changed, Names, JustCycles
<1>4. Done(c, g, mode)
  BY <1>2, <1>3 DEF Done, Reached
<1> QED
  BY <1>1, <1>2, <1>3, <1>4

\* Storing a result keeps what is done.
LEMMA PutIs ==
  ASSUME NEW c \in Cpu, NEW g, NEW mode, Done(c, g, mode), NEW d, Changed(g, d, Results)
  PROVE  Done(c, d, mode) /\ d.f = g.f /\ d.EFI = g.EFI
BY DEF Done, Changed, Names, Results

\* Where results go is not where flags and PC are.
LEMMA ResultsAre ==
  /\ JustMem \subseteq Results
  /\ \A r \in WordRegs \cup ByteRegs : r # "PC" /\ r # "CC" => Holds(r) \subseteq Results
BY DEF JustMem, Results, Holds, Just, JustD, WordRegs, ByteRegs

\* The flags.
LEMMA ShowsIs ==
  ASSUME NEW c \in Cpu
  PROVE  Shows(c.f, Get(c, "CC"))
BY CpuIs, GetCC DEF Get

\* An exact operation shows the ideal flags in CC.
LEMMA CCIs ==
  ASSUME NEW c \in Cpu, NEW d, NEW op, NEW x, NEW y, NEW r,
         Exact(op, x, y, Get(c, "CC"), r), d.EFI = c.EFI, d.f = r.f
  PROVE  Get(d, "CC") = IdealCC(op, x, y, Get(c, "CC"))
<1> DEFINE old == Get(c, "CC")
<1>1. old = get_cc(c.EFI, c.f) /\ Get(d, "CC") = get_cc(d.EFI, d.f)
  BY DEF Get
<1>2. old \in Byte /\ old & EFI_FLAGS = c.EFI /\ c.EFI \in Efis
  BY <1>1, CpuIs, GetCC
<1> HIDE DEF old
<1>3. get_cc(c.EFI, r.f) = IdealCC(op, x, y, old)
  <2>1. Exact(op, x, y, old, r)
    BY DEF old
  <2> QED
    BY <1>2, <2>1, ExactCC
<1> QED
  BY <1>1, <1>3 DEF old

\* The kinds of operations are disjoint.
LEMMA OpsAre ==
  /\ \A op \in UnaryOps : op \notin ByteOps /\ op \notin WordOps /\ Width(op) = 256
  /\ \A op \in ByteOps : op \notin UnaryOps /\ op \notin WordOps /\ Width(op) = 256
  /\ \A op \in WordOps : op \notin UnaryOps /\ op \notin ByteOps
BY DEF UnaryOps, ByteOps, WordOps, Width

\* The result of an exact operation has its width.
LEMMA ExactIs ==
  ASSUME NEW op, NEW x, NEW y, NEW old, NEW r, Exact(op, x, y, old, r)
  PROVE  /\ r.f \in Lazy /\ r.res = IdealResult(op, x, y, CarryIn(op, old))
         /\ r.res \in Word /\ (Width(op) = 256 => r.res \in Byte)
BY DEF Exact, Decodes

Accumulators == {"A", "B"}

\* NEG to CLR in memory: flags and result are the ideal ones.
LEMMA ExecUnaryIs ==
  ASSUME NEW c \in Cpu, NEW i, i.op \in UnaryOps, i.clk \in Int, i.mode \in MemModes,
         Costs(i.mode, i.clk + 2), NEW e, e = EA(c, i.mode), NEW d, d = ExecUnary(c, i)
  PROVE  LET x == read8(e.c, e.ea)
             old == Get(c, "CC")
         IN  /\ Done(c, d, i.mode)
             /\ Get(d, "CC") = IdealCC(i.op, x, 0, old)
             /\ i.op \notin TestOps => read8(d, e.ea) = IdealResult(i.op, x, 0, CarryIn(i.op, old))
<1> DEFINE x == read8(e.c, e.ea)
           r == Unary(i.op, c.f, x)
           g == Clock(Flags(e.c, r.f), i.clk + 2)
           old == Get(c, "CC")
<1>1. i.mode # "inherent"
  BY DEF MemModes
<1>2. d = IF i.op \in TestOps THEN g ELSE write8(g, e.ea, r.res)
  BY <1>1 DEF ExecUnary
<1>3. Reached(c, e.c, i.mode, i.clk + 2) /\ e.ea \in Word /\ i.clk + 2 \in Int
  BY EaIs
<1>4. x \in Byte
  BY <1>3, ReadIs, WordIs DEF Reached, Changed
<1> HIDE DEF x
<1>5. Exact(i.op, x, 0, old, r)
  BY <1>4, ShowsIs, UnaryExact
<1> HIDE DEF r, old
<1>6. r.f \in Lazy /\ r.res \in Byte /\ r.res = IdealResult(i.op, x, 0, CarryIn(i.op, old))
  BY <1>5, ExactIs, OpsAre
<1>7. Done(c, g, i.mode) /\ g.f = r.f /\ g.EFI = c.EFI
  BY <1>3, <1>6, FinishIs
<1> HIDE DEF g
<1>8. CASE i.op \in TestOps
  BY <1>2, <1>5, <1>7, <1>8, CCIs DEF x, old
<1>9. CASE i.op \notin TestOps
  <2>1. d = write8(g, e.ea, r.res)
    BY <1>2, <1>9
  <2>2. Changed(g, d, JustMem) /\ \A b \in Int : read8(d, b) = IF b % 65536 = e.ea THEN r.res ELSE read8(g, b)
    BY <1>3, <1>6, <1>7, <2>1, WriteIs DEF Done
  <2>3. Changed(g, d, Results)
    BY <2>2, ResultsAre, ChangedMore
  <2>4. Done(c, d, i.mode) /\ d.f = r.f /\ d.EFI = c.EFI
    BY <1>7, <2>3, PutIs
  <2>5. e.ea \in Int /\ e.ea % 65536 = e.ea
    BY <1>3, Wrap, WordIs
  <2>6. read8(d, e.ea) = r.res
    BY <2>2, <2>5
  <2>7. Get(d, "CC") = IdealCC(i.op, x, 0, old)
    BY <1>5, <2>4, CCIs DEF old
  <2> QED
    BY <1>6, <2>4, <2>6, <2>7 DEF x, old
<1> QED
  BY <1>8, <1>9

\* The result goes to accumulator r.
PutByte(g, r, v) == [g EXCEPT ![r] = v]

\* Storing a byte in an accumulator.
LEMMA PutByteIs ==
  ASSUME NEW c \in Cpu, NEW g, NEW mode, Done(c, g, mode), NEW r \in Accumulators,
         NEW v \in Byte, NEW d, d = PutByte(g, r, v)
  PROVE  Done(c, d, mode) /\ d.f = g.f /\ d.EFI = g.EFI /\ Get(d, r) = v
<1>1. g \in Cpu
  BY DEF Done
<1>2. Changed(g, d, Just(r)) /\ d[r] = v
  BY <1>1 DEF Changed, Names, Cpu, Just, Accumulators, PutByte
<1>3. Just(r) \subseteq Results
  BY DEF Just, Results, Accumulators
<1>4. Changed(g, d, Results)
  BY <1>2, <1>3, ChangedMore
<1>5. Get(d, r) = d[r]
  BY DEF Get, Accumulators
<1>6. Done(c, d, mode) /\ d.f = g.f /\ d.EFI = g.EFI
  BY <1>4, PutIs
<1> QED
  BY <1>2, <1>5, <1>6

\* An accumulator is a byte.
LEMMA AccumulatorIs ==
  ASSUME NEW c \in Cpu, NEW r \in Accumulators
  PROVE  c[r] \in Byte /\ Get(c, r) = c[r]
<1>1. CASE r = "A"
  BY <1>1, CpuIs DEF Get
<1>2. CASE r = "B"
  BY <1>2, CpuIs DEF Get
<1> QED
  BY <1>1, <1>2 DEF Accumulators

\* NEGA to CLRB.
LEMMA ExecInherentIs ==
  ASSUME NEW c \in Cpu, NEW i, i.op \in UnaryOps, i.clk = 0, i.mode = "inherent",
         i.reg \in Accumulators, NEW d, d = ExecUnary(c, i)
  PROVE  LET x == Get(c, i.reg)
             old == Get(c, "CC")
         IN  /\ Done(c, d, i.mode)
             /\ Get(d, "CC") = IdealCC(i.op, x, 0, old)
             /\ i.op \notin TestOps => Get(d, i.reg) = IdealResult(i.op, x, 0, CarryIn(i.op, old))
<1> DEFINE x == c[i.reg]
           r == Unary(i.op, c.f, x)
           g == Clock(Flags(c, r.f), 2)
           old == Get(c, "CC")
<1>1. d = IF i.op \in TestOps THEN g ELSE [g EXCEPT ![i.reg] = r.res]
  <2>1. ExecUnary(c, i) = LET q == Clock(Flags(c, r.f), i.clk + 2)
                          IN  IF i.op \in TestOps THEN q ELSE [q EXCEPT ![i.reg] = r.res]
    BY DEF ExecUnary
  <2>2. i.clk + 2 = 2
    OBVIOUS
  <2> HIDE DEF r
  <2> QED
    BY <2>1, <2>2
<1>2. x \in Byte /\ x = Get(c, i.reg)
  BY AccumulatorIs
<1> HIDE DEF x
<1>3. Reached(c, c, i.mode, 2)
  <2>1. Changed(c, c, EaFields)
    BY DEF Changed
  <2>2. OperandBytes(i.mode, imm_byte(c)) = 0
    BY DEF OperandBytes
  <2>3. c.PC = c.PC + 0 /\ c.cycles + 2 > c.cycles
    BY CpuIs
  <2> QED
    BY <2>1, <2>2, <2>3 DEF Reached
<1>5. Exact(i.op, x, 0, old, r)
  BY <1>2, ShowsIs, UnaryExact
<1> HIDE DEF r, old
<1>6. r.f \in Lazy /\ r.res \in Byte /\ r.res = IdealResult(i.op, x, 0, CarryIn(i.op, old))
  BY <1>5, ExactIs, OpsAre
<1>7. Done(c, g, i.mode) /\ g.f = r.f /\ g.EFI = c.EFI
  BY <1>3, <1>6, FinishIs
<1> HIDE DEF g
<1>8. CASE i.op \in TestOps
  BY <1>1, <1>2, <1>5, <1>7, <1>8, CCIs DEF old
<1>9. CASE i.op \notin TestOps
  <2>1. d = PutByte(g, i.reg, r.res)
    BY <1>1, <1>9 DEF PutByte
  <2>2. Done(c, d, i.mode) /\ d.f = r.f /\ d.EFI = c.EFI /\ Get(d, i.reg) = r.res
    BY <1>6, <1>7, <2>1, PutByteIs
  <2>3. Get(d, "CC") = IdealCC(i.op, x, 0, old)
    BY <1>5, <2>2, CCIs DEF old
  <2> QED
    BY <1>2, <1>6, <2>2, <2>3 DEF old
<1> QED
  BY <1>8, <1>9

\* SUBA to ADDB: flags and result are the ideal ones.
LEMMA ExecByteIs ==
  ASSUME NEW c \in Cpu, NEW i, i.op \in ByteOps, Costs(i.mode, i.clk),
         i.mode = "imm_byte" \/ i.mode \in MemModes, i.reg \in Accumulators,
         NEW o, o = ByteOperand(c, i.mode), NEW d, d = ExecByte(c, i)
  PROVE  LET x == Get(o.c, i.reg)
             old == Get(c, "CC")
         IN  /\ Done(c, d, i.mode)
             /\ x \in Byte /\ o.val \in Byte
             /\ Exact(i.op, x, o.val, old, [f |-> d.f, res |-> IdealResult(i.op, x, o.val, CarryIn(i.op, old))])
             /\ Get(d, "CC") = IdealCC(i.op, x, o.val, old)
             /\ i.op \notin TestOps => Get(d, i.reg) = IdealResult(i.op, x, o.val, CarryIn(i.op, old))
<1> DEFINE x == c[i.reg]
           y == o.val
           r == Binary(i.op, c.f, x, y)
           g == Clock(Flags(o.c, r.f), i.clk)
           old == Get(c, "CC")
<1>1. d = IF i.op \in TestOps THEN g ELSE [g EXCEPT ![i.reg] = r.res]
  BY DEF ExecByte
<1>2. Reached(c, o.c, i.mode, i.clk) /\ y \in Byte /\ i.clk \in Int
  BY ByteOperandIs DEF Costs
<1>3. x \in Byte /\ x = Get(o.c, i.reg)
  <2>1. o.c \in Cpu /\ o.c[i.reg] = c[i.reg]
    BY <1>2 DEF Reached, Changed, Names, EaFields, Accumulators
  <2> QED
    BY <2>1, AccumulatorIs
<1> HIDE DEF x, y
<1>5. Exact(i.op, x, y, old, r)
  BY <1>2, <1>3, ShowsIs, BinaryExact
<1> HIDE DEF r, old
<1>6. r.f \in Lazy /\ r.res \in Byte /\ r.res = IdealResult(i.op, x, y, CarryIn(i.op, old))
  BY <1>5, ExactIs, OpsAre
<1>7. Done(c, g, i.mode) /\ g.f = r.f /\ g.EFI = c.EFI
  BY <1>2, <1>6, FinishIs
<1> HIDE DEF g
<1>10. ASSUME d.f = r.f
       PROVE  Exact(i.op, x, y, old, [f |-> d.f, res |-> IdealResult(i.op, x, y, CarryIn(i.op, old))])
  BY <1>5, <1>6, <1>10 DEF Exact
<1>8. CASE i.op \in TestOps
  <2>1. Done(c, d, i.mode) /\ d.f = r.f /\ d.EFI = c.EFI
    BY <1>1, <1>7, <1>8
  <2>2. Get(d, "CC") = IdealCC(i.op, x, y, old)
    BY <1>5, <2>1, CCIs DEF old
  <2> QED
    BY <1>2, <1>3, <1>8, <1>10, <2>1, <2>2 DEF y, old
<1>9. CASE i.op \notin TestOps
  <2>1. d = PutByte(g, i.reg, r.res)
    BY <1>1, <1>9 DEF PutByte
  <2>2. Done(c, d, i.mode) /\ d.f = r.f /\ d.EFI = c.EFI /\ Get(d, i.reg) = r.res
    BY <1>6, <1>7, <2>1, PutByteIs
  <2>3. Get(d, "CC") = IdealCC(i.op, x, y, old)
    BY <1>5, <2>2, CCIs DEF old
  <2> QED
    BY <1>2, <1>3, <1>6, <1>10, <2>2, <2>3 DEF y, old
<1> QED
  BY <1>8, <1>9

\* Storing a word in a 16-bit register.
LEMMA PutWordIs ==
  ASSUME NEW c \in Cpu, NEW g, NEW mode, Done(c, g, mode), NEW r \in WordRegs, r # "PC",
         NEW v \in Word, NEW d, d = Set(g, r, v)
  PROVE  Done(c, d, mode) /\ d.f = g.f /\ d.EFI = g.EFI /\ Get(d, r) = v
<1>1. g \in Cpu
  BY DEF Done
<1>2. Changed(g, d, Holds(r)) /\ Get(d, r) = v
  BY <1>1, SetWordIs
<1>3. Holds(r) \subseteq Results
  <2>1. r # "CC" /\ r \in WordRegs \cup ByteRegs
    BY DEF WordRegs
  <2> QED
    BY <2>1, ResultsAre
<1>4. Changed(g, d, Results)
  BY <1>2, <1>3, ChangedMore
<1> QED
  BY <1>2, <1>4, PutIs

\* ADDD to LDS: flags and result are the ideal ones, of the stepped register.
LEMMA ExecWordIs ==
  ASSUME NEW c \in Cpu, NEW i, i.op \in WordOps, Costs(i.mode, i.clk),
         i.mode = "imm_word" \/ i.mode \in MemModes, i.reg \in WordRegs, i.reg # "PC",
         NEW o, o = WordOperand(c, i.op, i.mode), NEW d, d = ExecWord(c, i)
  PROVE  LET x == Get(o.c, i.reg)
             old == Get(c, "CC")
         IN  /\ Done(c, d, i.mode)
             /\ x \in Word /\ o.val \in Word
             /\ Exact(i.op, x, o.val, old, [f |-> d.f, res |-> IdealResult(i.op, x, o.val, CarryIn(i.op, old))])
             /\ Get(d, "CC") = IdealCC(i.op, x, o.val, old)
             /\ i.op \notin TestOps => Get(d, i.reg) = IdealResult(i.op, x, o.val, CarryIn(i.op, old))
<1> DEFINE x == Get(o.c, i.reg)
           y == o.val
           r == Binary16(i.op, c.f, x, y)
           g == Clock(Flags(o.c, r.f), i.clk)
           old == Get(c, "CC")
<1>1. d = IF i.op \in TestOps THEN g ELSE Set(g, i.reg, r.res)
  BY DEF ExecWord
<1>2. Reached(c, o.c, i.mode, i.clk) /\ y \in Word /\ i.clk \in Int
  BY WordOperandIs DEF Costs
<1>3. x \in Word
  BY <1>2, GetIs DEF Reached, Changed
<1> HIDE DEF x, y
<1>5. Exact(i.op, x, y, old, r)
  BY <1>2, <1>3, ShowsIs, WordExact
<1> HIDE DEF r, old
<1>6. r.f \in Lazy /\ r.res \in Word /\ r.res = IdealResult(i.op, x, y, CarryIn(i.op, old))
  BY <1>5, ExactIs
<1>7. Done(c, g, i.mode) /\ g.f = r.f /\ g.EFI = c.EFI
  BY <1>2, <1>6, FinishIs
<1> HIDE DEF g
<1>10. ASSUME d.f = r.f
       PROVE  Exact(i.op, x, y, old, [f |-> d.f, res |-> IdealResult(i.op, x, y, CarryIn(i.op, old))])
  BY <1>5, <1>6, <1>10 DEF Exact
<1>8. CASE i.op \in TestOps
  <2>1. Done(c, d, i.mode) /\ d.f = r.f /\ d.EFI = c.EFI
    BY <1>1, <1>7, <1>8
  <2>2. Get(d, "CC") = IdealCC(i.op, x, y, old)
    BY <1>5, <2>1, CCIs DEF old
  <2> QED
    BY <1>2, <1>3, <1>8, <1>10, <2>1, <2>2 DEF x, y, old
<1>9. CASE i.op \notin TestOps
  <2>1. d = Set(g, i.reg, r.res)
    BY <1>1, <1>9
  <2>2. Done(c, d, i.mode) /\ d.f = r.f /\ d.EFI = c.EFI /\ Get(d, i.reg) = r.res
    BY <1>6, <1>7, <2>1, PutWordIs
  <2>3. Get(d, "CC") = IdealCC(i.op, x, y, old)
    BY <1>5, <2>2, CCIs DEF old
  <2> QED
    BY <1>2, <1>3, <1>6, <1>10, <2>2, <2>3 DEF x, y, old
<1> QED
  BY <1>8, <1>9

\* Cycles after the operand.
LEMMA ClockedIs ==
  ASSUME NEW c \in Cpu, NEW b, NEW mode, NEW clk \in Int, Reached(c, b, mode, clk),
         NEW d, d = Clock(b, clk)
  PROVE  /\ Done(c, d, mode)
         /\ d.f = c.f /\ d.EFI = c.EFI /\ d.A = c.A /\ d.B = c.B
         /\ d.X = b.X /\ d.Y = b.Y /\ d.U = b.U /\ d.S = b.S /\ d.mem = c.mem
<1>1. b \in Cpu /\ b.EFI = c.EFI /\ b.f = c.f /\ b.A = c.A /\ b.B = c.B /\ b.mem = c.mem
  BY DEF Reached, Changed, Names, EaFields
<1>2. /\ d \in Cpu /\ d.f = b.f /\ d.EFI = b.EFI /\ d.A = b.A /\ d.B = b.B /\ d.X = b.X /\ d.Y = b.Y
      /\ d.U = b.U /\ d.S = b.S /\ d.mem = b.mem /\ d.PC = b.PC /\ d.cycles = b.cycles + clk
      /\ d.stopped = b.stopped
  BY <1>1, ClockIs DEF Changed, Names, JustCycles
<1> QED
  BY <1>1, <1>2 DEF Done, Reached

\* Flags set at the end keep what is done.
LEMMA FlagsDone ==
  ASSUME NEW c \in Cpu, NEW b, NEW mode, Done(c, b, mode), NEW f \in Lazy, NEW d, d = Flags(b, f)
  PROVE  Done(c, d, mode)
<1>1. d \in Cpu /\ d.PC = b.PC /\ d.cycles = b.cycles /\ d.stopped = b.stopped
  BY FlagsIs DEF Done, Changed, Names, JustF
<1> QED
  BY <1>1 DEF Done

\* More cycles do too.
LEMMA ClockDone ==
  ASSUME NEW c \in Cpu, NEW b, NEW mode, Done(c, b, mode), NEW n \in Nat, NEW d, d = Clock(b, n)
  PROVE  Done(c, d, mode)
<1>1. d \in Cpu /\ d.PC = b.PC /\ d.cycles = b.cycles + n /\ d.stopped = b.stopped
  BY ClockIs DEF Done, Changed, Names, JustCycles
<1>2. b.cycles \in Int /\ c.cycles \in Int
  BY CpuIs DEF Done
<1> QED
  BY <1>1, <1>2 DEF Done

\* The flags of a load or a store.
LEMMA LoadedFlags ==
  ASSUME NEW f \in Lazy
  PROVE  /\ \A v \in Byte : ld(f, v).f \in Lazy
         /\ \A v \in Word : ld16(f, v).f \in Lazy
<1>1. ASSUME NEW v \in Byte PROVE ld(f, v).f \in Lazy
  <2>1. v \in Nat
    BY ByteInNat
  <2>2. ld(f, v).f = [f EXCEPT !.N = v, !.Z = v, !.OV = 0]
    BY DEF ld, Logic, Ret
  <2>3. [f EXCEPT !.N = v, !.Z = v, !.OV = 0] \in Lazy
    BY <2>1 DEF Lazy
  <2> QED
    BY <2>2, <2>3
<1>2. ASSUME NEW v \in Word PROVE ld16(f, v).f \in Lazy
  <2>2. ld16(f, v).f = LoadFlags(f, v)
    BY DEF ld16, Ret, LoadFlags
  <2> QED
    BY <2>2, LoadFlagsDecode DEF Decodes
<1> QED
  BY <1>1, <1>2

\* STA to STS.
LEMMA ExecStoreIs ==
  ASSUME NEW c \in Cpu, NEW i, Costs(i.mode, i.clk), i.mode \in MemModes,
         \/ i.op = "st" /\ i.reg \in Accumulators
         \/ i.op = "st16" /\ i.reg \in WordRegs,
         NEW d, d = ExecStore(c, i)
  PROVE  Done(c, d, i.mode)
<1> DEFINE e == EA(c, i.mode)
           b == e.c
           a == e.ea
           v == Get(b, i.reg)
           g == Clock(b, i.clk)
<1>1. /\ i.op = "st" => d = write8(Flags(g, ld(g.f, v).f), a, v)
      /\ i.op = "st16" => d = Clock(WRMEM16(Flags(g, ld16(g.f, v).f), a, v), 1)
  BY DEF ExecStore
<1>2. Reached(c, b, i.mode, i.clk) /\ a \in Word /\ i.clk \in Int
  BY EaIs DEF Costs
<1> HIDE DEF a, b
<1>3. Done(c, g, i.mode)
  BY <1>2, ClockedIs
<1>4. b \in Cpu
  BY <1>2 DEF Reached, Changed
<1> HIDE DEF g
<1>5. g.f \in Lazy
  BY <1>3, CpuIs DEF Done
<1>6. CASE i.op = "st"
  <2> DEFINE h == Flags(g, ld(g.f, v).f)
  <2>1. v \in Byte
    BY <1>4, <1>6, GetIs DEF Accumulators, ByteRegs
  <2> HIDE DEF v
  <2>2. Done(c, h, i.mode)
    BY <1>3, <1>5, <2>1, LoadedFlags, FlagsDone
  <2>3. d = write8(h, a, v)
    BY <1>1, <1>6
  <2> HIDE DEF h
  <2>4. Changed(h, d, Results)
    BY <1>2, <2>1, <2>2, <2>3, WriteIs, ResultsAre, ChangedMore DEF Done
  <2> QED
    BY <2>2, <2>4, PutIs
<1>7. CASE i.op = "st16"
  <2> DEFINE h == Flags(g, ld16(g.f, v).f)
             q == WRMEM16(h, a, v)
  <2>1. v \in Word
    BY <1>4, <1>7, GetIs
  <2> HIDE DEF v
  <2>2. Done(c, h, i.mode)
    BY <1>3, <1>5, <2>1, LoadedFlags, FlagsDone
  <2>3. d = Clock(q, 1)
    BY <1>1, <1>7
  <2> HIDE DEF h
  <2>4. Changed(h, q, Results)
    BY <1>2, <2>1, <2>2, Write16Is, ResultsAre, ChangedMore DEF Done
  <2> HIDE DEF q
  <2>5. Done(c, q, i.mode)
    BY <2>2, <2>4, PutIs
  <2> QED
    BY <2>3, <2>5, ClockDone
<1> QED
  BY <1>6, <1>7

\* LEAX to LEAS.
LEMMA ExecLeaIs ==
  ASSUME NEW c \in Cpu, NEW i, i.reg \in IndexRegs, i.mode = "indexed", NEW d, d = ExecLea(c, i)
  PROVE  Done(c, d, i.mode)
<1> DEFINE e == indexed(c)
           b == e.c
           a == e.ea
           g == [b EXCEPT ![i.reg] = a]
<1>1. d = IF i.reg \in {"X", "Y"} THEN [g EXCEPT !.f.Z = a] ELSE g
  BY DEF ExecLea
<1>2. Reached(c, b, i.mode, 0) /\ a \in Word
  <2>1. Costs(i.mode, 0) /\ i.mode \in MemModes
    BY DEF Costs, MemModes
  <2>2. e = EA(c, i.mode)
    BY DEF EA
  <2> HIDE DEF e
  <2> QED
    BY <2>1, <2>2, EaIs
<1> HIDE DEF a, b
<1>3. Done(c, b, i.mode)
  <2>1. b \in Cpu
    BY <1>2 DEF Reached, Changed
  <2>2. b.cycles + 0 = b.cycles
    BY <2>1, CpuIs
  <2> QED
    BY <1>2, <2>1, <2>2 DEF Reached, Done
<1>4. Done(c, g, i.mode)
  <2>1. b \in Cpu
    BY <1>3 DEF Done
  <2>2. Changed(b, g, Just(i.reg))
    BY <1>2, <2>1 DEF Changed, Names, Cpu, Just, IndexRegs
  <2>3. Just(i.reg) \subseteq Results
    BY DEF Just, Results, IndexRegs
  <2> HIDE DEF g
  <2> QED
    BY <1>3, <2>2, <2>3, ChangedMore, PutIs
<1> HIDE DEF g
<1>5. Done(c, [g EXCEPT !.f.Z = a], i.mode)
  <2> DEFINE f == [g.f EXCEPT !.Z = a]
  <2>1. g \in Cpu
    BY <1>4 DEF Done
  <2>2. f \in Lazy
    <3>1. g.f \in Lazy /\ a \in Nat
      BY <1>2, <2>1, CpuIs, ByteInNat
    <3> QED
      BY <3>1 DEF Lazy
  <2>3. [g EXCEPT !.f.Z = a] = Flags(g, f)
    BY DEF Flags
  <2> HIDE DEF f
  <2> QED
    BY <1>4, <2>2, <2>3, FlagsDone
<1> QED
  BY <1>1, <1>4, <1>5

\* DAA, SEX and MUL.
AccResult(i, f, a, b) ==
  CASE i.op = "daa" -> daa(f, a) [] i.op = "sex" -> sex(f, b) [] i.op = "mul" -> mul(f, a, b)

\* Values put in the flags.
LEMMA LazyIs ==
  ASSUME NEW f \in Lazy, NEW a \in Nat, NEW b \in Nat
  PROVE  /\ [f EXCEPT !.C = a, !.N = b, !.Z = b, !.OV = 0] \in Lazy
         /\ [f EXCEPT !.Z = a, !.N = b] \in Lazy
         /\ [f EXCEPT !.Z = a, !.C = b] \in Lazy
BY Zenon DEF Lazy

\* DAA leaves a byte.
LEMMA DaaIs ==
  ASSUME NEW f \in Lazy, NEW a \in Byte
  PROVE  daa(f, a).f \in Lazy /\ daa(f, a).res \in Byte
<1> DEFINE lsn == a % 16
           msn == a - lsn
           res == a + (IF lsn > 9 \/ Has(f.H, 16) THEN 6 ELSE 0)
                    + (IF msn > 128 /\ lsn > 9 THEN 96 ELSE 0)
                    + (IF msn > 144 \/ f.C # 0 THEN 96 ELSE 0)
           low == res % 256
           cry == IF Has(res, 256) THEN WithBit(f.C, 256) ELSE f.C
<1>1. /\ daa(f, a).f = [f EXCEPT !.C = cry, !.N = low, !.Z = low, !.OV = 0]
      /\ daa(f, a).res = low
  BY DEF daa, Ret
<1>2. res \in Int
  <2>1. a \in Int
    BY ByteInNat
  <2> HIDE DEF msn, lsn
  <2> QED
    BY <2>1
<1> HIDE DEF res
<1>3. low \in Byte
  BY <1>2 DEF Byte
<1>4. f.C \in Nat
  BY DEF Lazy
<1>5. cry \in Nat
  BY <1>4 DEF WithBit
<1>6. low \in Nat
  <2> HIDE DEF low
  <2> QED
    BY <1>3, ByteInNat
<1> HIDE DEF low, cry
<1>7. [f EXCEPT !.C = cry, !.N = low, !.Z = low, !.OV = 0] \in Lazy
  BY <1>5, <1>6, LazyIs, Zenon
<1> QED
  BY <1>1, <1>3, <1>7

\* SEX leaves a word.
LEMMA SexIs ==
  ASSUME NEW f \in Lazy, NEW b \in Byte
  PROVE  sex(f, b).f \in Lazy /\ sex(f, b).res \in Word
<1> DEFINE sign == Only(b, 128)
           res == b + (IF sign # 0 THEN 65280 ELSE 0)
<1>1. sex(f, b).f = [f EXCEPT !.Z = b, !.N = sign] /\ sex(f, b).res = res
  BY DEF sex, Ret
<1>2. b \in Nat /\ b < 256
  BY DEF Byte
<1>3. sign \in Nat
  BY DEF Only
<1> HIDE DEF sign
<1>4. [f EXCEPT !.Z = b, !.N = sign] \in Lazy
  BY <1>2, <1>3, LazyIs, Zenon
<1>5. res \in Nat /\ res < 65536
  BY <1>2
<1> HIDE DEF res
<1>6. res \in Word
  BY <1>5 DEF Word
<1> QED
  BY <1>1, <1>4, <1>6

\* MUL leaves a word.
LEMMA MulIs ==
  ASSUME NEW f \in Lazy, NEW a \in Byte, NEW b \in Byte
  PROVE  mul(f, a, b).f \in Lazy /\ mul(f, a, b).res \in Word
<1> DEFINE p == a * b
           res == p % 65536
           cry == Only(res, 128)
<1>1. mul(f, a, b).f = [f EXCEPT !.Z = res, !.C = cry] /\ mul(f, a, b).res = res
  BY DEF mul, Ret
<1>2. p \in Int
  BY ByteInNat
<1> HIDE DEF p
<1>3. res \in Word /\ res \in Nat
  BY <1>2, Wrap, WordIs
<1>4. cry \in Nat
  BY DEF Only
<1> HIDE DEF res, cry
<1>5. [f EXCEPT !.Z = res, !.C = cry] \in Lazy
  BY <1>3, <1>4, LazyIs, Zenon
<1> QED
  BY <1>1, <1>3, <1>5

\* All three are done with no operand.
LEMMA ExecAccumulatorIs ==
  ASSUME NEW c \in Cpu, NEW i, i.clk \in Nat, i.clk >= 2, i.mode = "inherent",
         (i.op = "daa" /\ i.reg = "A") \/ (i.op \in {"sex", "mul"} /\ i.reg = "D"),
         NEW d, d = ExecAccumulator(c, i)
  PROVE  Done(c, d, i.mode)
<1> DEFINE r == AccResult(i, c.f, c.A, c.B)
           g == Flags(c, r.f)
           h == Set(g, i.reg, r.res)
<1>1. d = Clock(h, i.clk)
  BY DEF ExecAccumulator, AccResult
<1>2. /\ r.f \in Lazy
      /\ i.reg = "A" => r.res \in Byte
      /\ i.reg = "D" => r.res \in Word
  <2>1. c.f \in Lazy /\ c.A \in Byte /\ c.B \in Byte
    BY CpuIs
  <2>2. CASE i.op = "daa"
    BY <2>1, <2>2, DaaIs DEF AccResult
  <2>3. CASE i.op = "sex"
    BY <2>1, <2>3, SexIs DEF AccResult
  <2>4. CASE i.op = "mul"
    BY <2>1, <2>4, MulIs DEF AccResult
  <2> QED
    BY <2>2, <2>3, <2>4
<1> HIDE DEF r
<1>3. g \in Cpu /\ g.PC = c.PC /\ g.cycles = c.cycles
  BY <1>2, FlagsIs DEF Changed, Names, JustF
<1> HIDE DEF g
<1>4. Changed(g, h, Holds(i.reg))
  <2>1. "A" \in ByteRegs /\ "D" \in WordRegs
    BY DEF ByteRegs, WordRegs
  <2> QED
    BY <1>2, <1>3, <2>1, SetByteIs, SetWordIs
<1>5. Holds(i.reg) \subseteq Results
  BY DEF Holds, Just, JustD, Results
<1> HIDE DEF h
<1>6. h \in Cpu /\ h.PC = c.PC /\ h.cycles = c.cycles
  BY <1>3, <1>4, <1>5 DEF Changed, Names, Results
<1>7. d \in Cpu /\ d.PC = h.PC /\ d.cycles = h.cycles + i.clk
  <2>1. i.clk \in Int
    OBVIOUS
  <2>2. Changed(h, d, JustCycles) /\ d.cycles = h.cycles + i.clk
    BY <1>1, <1>6, <2>1, ClockIs
  <2> QED
    BY <2>2 DEF Changed, Names, JustCycles
<1>8. OperandBytes(i.mode, imm_byte(c)) = 0
  BY DEF OperandBytes
<1>9. d.PC = c.PC + 0 /\ d.cycles > c.cycles
  BY <1>6, <1>7, CpuIs
<1> QED
  BY <1>7, <1>8, <1>9 DEF Done

-----------------------------------------------------------------------------
(* Jumps, calls and branches. *)

JustClockPC == {"PC", "cycles"}

\* d is c that goes on at pc, n cycles later.
Goes(c, d, pc, n) ==
  /\ Changed(c, d, JustClockPC)
  /\ d.PC = pc
  /\ d.cycles = c.cycles + n

\* change_pc() and the cycles.
LEMMA GoesIs ==
  ASSUME NEW c \in Cpu, NEW pc \in Int, NEW n \in Nat, NEW d, d = Clock(change_pc(c, pc), n)
  PROVE  Goes(c, d, pc % 65536, n)
<1> DEFINE b == change_pc(c, pc)
<1>1. Changed(c, b, JustPC) /\ b.PC = pc % 65536
  BY ChangePcIs
<1>2. b \in Cpu /\ b.cycles = c.cycles
  BY <1>1 DEF Changed, Names, JustPC
<1> HIDE DEF b
<1>3. Changed(b, d, JustCycles) /\ d.cycles = b.cycles + n
  BY <1>2, ClockIs DEF b
<1>4. d.PC = b.PC
  BY <1>3 DEF Changed, Names, JustCycles
<1>5. JustPC \subseteq JustClockPC /\ JustCycles \subseteq JustClockPC
  BY DEF JustPC, JustCycles, JustClockPC
<1>6. Changed(c, d, JustClockPC)
  <2>1. Changed(c, b, JustClockPC) /\ Changed(b, d, JustClockPC)
    BY <1>1, <1>3, <1>5, ChangedMore
  <2> QED
    BY <2>1, ChangedTwo
<1> QED
  BY <1>1, <1>2, <1>3, <1>4, <1>6 DEF Goes

\* BRN and LBRN step over their offset.
LEMMA StepOverIs ==
  ASSUME NEW c \in Cpu, NEW k \in Nat, NEW n \in Nat, NEW d, d = Clock(Advance(c, k), n)
  PROVE  Goes(c, d, c.PC + k, n)
<1> DEFINE b == Advance(c, k)
<1>1. Changed(c, b, JustPC) /\ b.PC = c.PC + k
  BY AdvanceIs
<1>2. b \in Cpu /\ b.cycles = c.cycles
  BY <1>1 DEF Changed, Names, JustPC
<1> HIDE DEF b
<1>3. Changed(b, d, JustCycles) /\ d.cycles = b.cycles + n
  BY <1>2, ClockIs DEF b
<1>4. d.PC = b.PC
  BY <1>3 DEF Changed, Names, JustCycles
<1>5. JustPC \subseteq JustClockPC /\ JustCycles \subseteq JustClockPC
  BY DEF JustPC, JustCycles, JustClockPC
<1>6. Changed(c, b, JustClockPC) /\ Changed(b, d, JustClockPC)
  BY <1>1, <1>3, <1>5, ChangedMore
<1>7. Changed(c, d, JustClockPC)
  BY <1>6, ChangedTwo
<1> QED
  BY <1>1, <1>2, <1>3, <1>4, <1>7 DEF Goes

\* A short branch, taken or not.
LEMMA BranchIs ==
  ASSUME NEW c \in Cpu, NEW i, i.reg # 1, NEW d, d = branch(c, i)
  PROVE  Goes(c, d, (c.PC + 1 + (IF cond(i.reg, c.f) THEN Signed(imm_byte(c), 256) ELSE 0)) % 65536, 3)
<1> DEFINE s == Signed(imm_byte(c), 256)
           t == c.PC + 1 + (IF cond(i.reg, c.f) THEN s ELSE 0)
<1>1. d = Clock(change_pc(c, t), 3)
  BY DEF branch
<1>2. s \in Int
  BY CpuIs, ReadIs, SignedIs DEF imm_byte
<1> HIDE DEF s
<1>3. t \in Int
  BY <1>2, CpuIs
<1> HIDE DEF t
<1>4. Goes(c, d, t % 65536, 3)
  BY <1>1, <1>3, GoesIs
<1> QED
  BY <1>4 DEF t, s

\* A long branch, taken or not.
LEMMA LongBranchIs ==
  ASSUME NEW c \in Cpu, NEW i, i.reg # 1, NEW d, d = long_branch(c, i)
  PROVE  LET taken == cond(i.reg, c.f)
         IN  Goes(c, d, (c.PC + 2 + (IF taken THEN Signed(imm_word(c), 65536) ELSE 0)) % 65536,
                  IF taken THEN 6 ELSE 5)
<1> DEFINE s == Signed(imm_word(c), 65536)
           taken == cond(i.reg, c.f)
           t == c.PC + 2 + (IF taken THEN s ELSE 0)
           n == IF taken THEN 6 ELSE 5
<1>1. d = Clock(change_pc(c, t), n)
  BY DEF long_branch
<1>2. s \in Int
  BY CpuIs, ReadIs, SignedIs DEF imm_word
<1> HIDE DEF s
<1>3. t \in Int /\ n \in Nat
  BY <1>2, CpuIs
<1> HIDE DEF t, n
<1>4. Goes(c, d, t % 65536, n)
  BY <1>1, <1>3, GoesIs
<1> QED
  BY <1>4 DEF t, s, n

\* LBRA.
LEMMA LongBraIs ==
  ASSUME NEW c \in Cpu, NEW i, i.clk = 5, NEW d, d = long_bra(c, i)
  PROVE  Goes(c, d, (c.PC + 2 + Signed(imm_word(c), 65536)) % 65536, 5)
<1> DEFINE s == Signed(imm_word(c), 65536)
           t == c.PC + 2 + s
<1>1. d = Clock(change_pc(c, t), 5)
  BY DEF long_bra
<1>2. s \in Int
  BY CpuIs, ReadIs, SignedIs DEF imm_word
<1> HIDE DEF s
<1>3. t \in Int
  BY <1>2, CpuIs
<1> HIDE DEF t
<1>4. Goes(c, d, t % 65536, 5)
  BY <1>1, <1>3, GoesIs
<1> QED
  BY <1>4 DEF t, s

\* What is read depends on the memory alone.
LEMMA SameMemory ==
  ASSUME NEW c, NEW d, d.mem = c.mem
  PROVE  \A a : read8(d, a) = read8(c, a) /\ RDMEM16(d, a) = RDMEM16(c, a)
BY DEF read8, RDMEM16

\* A call stacks the PC and goes elsewhere.
LEMMA CallIs ==
  ASSUME NEW b \in Cpu, NEW n \in Int, NEW t \in Int,
         NEW d, d = change_pc(PushReg(Clock(b, n), "S", "PC"), t)
  PROVE  /\ d \in Cpu /\ d.cycles = b.cycles + n /\ d.stopped = b.stopped
         /\ RDMEM16(d, d.S) = b.PC % 65536
<1> DEFINE g == Clock(b, n)
           p == PushReg(g, "S", "PC")
           a == Below(g, "S", 2)
<1>0. d = change_pc(p, t)
  OBVIOUS
<1>1. g \in Cpu /\ g.cycles = b.cycles + n /\ g.PC = b.PC /\ g.stopped = b.stopped
  BY ClockIs DEF Changed, Names, JustCycles
<1> HIDE DEF g
<1>2. OnStack(p, a, Get(g, "PC"), 0) /\ Changed(g, p, StoreFields("S"))
  <2>1. "PC" \in WordRegs
    BY DEF WordRegs
  <2> QED
    BY <1>1, <2>1, PushFirst
<1>3. a \in Word
  BY <1>1, StackIs DEF Stacks
<1> HIDE DEF p, a
<1>4. p \in Cpu /\ p.cycles = g.cycles /\ p.stopped = g.stopped
  BY <1>2 DEF Changed, Names, StoreFields
<1>5. p.S = a /\ RDMEM16(p, a) = b.PC % 65536
  <2>1. (a - 0) % 65536 = a
    BY <1>3 DEF Word
  <2>2. Get(g, "PC") = g.PC % 65536
    BY DEF Get
  <2> QED
    BY <1>1, <1>2, <2>1, <2>2 DEF OnStack, Sp
<1>6. Changed(p, d, JustPC)
  BY <1>0, <1>4, ChangePcIs
<1>7. d \in Cpu /\ d.cycles = p.cycles /\ d.stopped = p.stopped /\ d.S = p.S /\ d.mem = p.mem
  BY <1>6 DEF Changed, Names, JustPC
<1>8. RDMEM16(d, d.S) = RDMEM16(p, a)
  BY <1>5, <1>7, SameMemory
<1> QED
  BY <1>1, <1>4, <1>5, <1>7, <1>8

Calls(c, d, mode) ==
  /\ d \in Cpu /\ (d.stopped = TRUE \/ d.cycles > c.cycles)
  /\ RDMEM16(d, d.S) = (c.PC + OperandBytes(mode, imm_byte(c))) % 65536

\* JSR stacks the address behind its operand.
LEMMA JsrIs ==
  ASSUME NEW c \in Cpu, NEW i, i.mode \in MemModes, Costs(i.mode, i.clk), NEW d, d = jsr(c, i)
  PROVE  Calls(c, d, i.mode)
<1> DEFINE e == EA(c, i.mode)
           b == e.c
           a == e.ea
<1>1. d = change_pc(PushReg(Clock(b, i.clk), "S", "PC"), a)
  BY DEF jsr
<1>2. Reached(c, b, i.mode, i.clk) /\ a \in Word /\ i.clk \in Int
  BY EaIs DEF Costs
<1> HIDE DEF a, b
<1>3. b \in Cpu /\ a \in Int
  BY <1>2, WordIs DEF Reached, Changed
<1>4. /\ d \in Cpu /\ d.cycles = b.cycles + i.clk /\ d.stopped = b.stopped
      /\ RDMEM16(d, d.S) = b.PC % 65536
  BY <1>1, <1>2, <1>3, CallIs
<1> QED
  BY <1>2, <1>4 DEF Reached, Calls

Called(c, n, clk, off) ==
  change_pc(PushReg(Clock(Advance(c, n), clk), "S", "PC"), Advance(c, n).PC + off)

\* d is c after a call whose operand has n bytes.
Stacked(c, d, n) ==
  /\ d \in Cpu /\ d.cycles > c.cycles
  /\ RDMEM16(d, d.S) = (c.PC + n) % 65536

\* A relative call stacks the address behind its offset.
LEMMA SubroutineIs ==
  ASSUME NEW c \in Cpu, NEW n \in Nat, NEW clk \in Nat, clk > 0, NEW off \in Int,
         NEW d, d = Called(c, n, clk, off)
  PROVE  Stacked(c, d, n)
<1> DEFINE b == Advance(c, n)
           t == b.PC + off
<1>0. d = change_pc(PushReg(Clock(b, clk), "S", "PC"), t)
  BY DEF Called
<1>1. b \in Cpu /\ b.PC = c.PC + n /\ b.cycles = c.cycles
  BY AdvanceIs DEF Changed, Names, JustPC
<1> HIDE DEF b
<1>2. t \in Int /\ clk \in Int
  BY <1>1, CpuIs
<1> HIDE DEF t
<1>3. d \in Cpu /\ d.cycles = b.cycles + clk /\ RDMEM16(d, d.S) = b.PC % 65536
  BY <1>0, <1>1, <1>2, CallIs
<1>4. d.cycles > c.cycles
  BY <1>1, <1>3, CpuIs
<1> QED
  BY <1>1, <1>3, <1>4 DEF Stacked

\* BSR.
LEMMA BsrIs ==
  ASSUME NEW c \in Cpu, NEW i, NEW d, d = bsr(c, i)
  PROVE  Stacked(c, d, 1)
<1> DEFINE s == Signed(imm_byte(c), 256)
<1>1. s \in Int
  BY CpuIs, ReadIs, SignedIs DEF imm_byte
<1> DEFINE n == 1
           k == 7
<1>2. d = Called(c, n, k, s)
  BY DEF bsr, Called
<1>3. n \in Nat /\ k \in Nat /\ k > 0
  OBVIOUS
<1> HIDE DEF s, n, k
<1>4. Stacked(c, d, n)
  BY <1>1, <1>2, <1>3, SubroutineIs
<1> QED
  BY <1>4 DEF n

\* LBSR.
LEMMA LongBsrIs ==
  ASSUME NEW c \in Cpu, NEW i, NEW d, d = long_bsr(c, i)
  PROVE  Stacked(c, d, 2)
<1> DEFINE s == Signed(imm_word(c), 65536)
<1>1. s \in Int
  BY CpuIs, ReadIs, SignedIs DEF imm_word
<1> DEFINE n == 2
           k == 9
<1>2. d = Called(c, n, k, s)
  BY DEF long_bsr, Called
<1>3. n \in Nat /\ k \in Nat /\ k > 0
  OBVIOUS
<1> HIDE DEF s, n, k
<1>4. Stacked(c, d, n)
  BY <1>1, <1>2, <1>3, SubroutineIs
<1> QED
  BY <1>4 DEF n

\* JMP takes time.
LEMMA JmpIs ==
  ASSUME NEW c \in Cpu, NEW i, i.mode \in MemModes, Costs(i.mode, i.clk), NEW d, d = jmp(c, i)
  PROVE  d \in Cpu /\ (d.stopped = TRUE \/ d.cycles > c.cycles)
<1> DEFINE e == EA(c, i.mode)
           b == e.c
           a == e.ea
           g == [b EXCEPT !.PC = a]
<1>1. d = Clock(g, i.clk)
  BY DEF jmp
<1>2. Reached(c, b, i.mode, i.clk) /\ a \in Word /\ i.clk \in Int
  BY EaIs DEF Costs
<1> HIDE DEF a, b
<1>3. b \in Cpu /\ a \in Nat
  BY <1>2, WordIs DEF Reached, Changed
<1>4. Changed(b, g, JustPC)
  BY <1>3 DEF Changed, Names, Cpu, JustPC
<1>5. g \in Cpu /\ g.cycles = b.cycles /\ g.stopped = b.stopped
  BY <1>4 DEF Changed, Names, JustPC
<1> HIDE DEF g
<1>6. d \in Cpu /\ d.cycles = g.cycles + i.clk /\ d.stopped = g.stopped
  BY <1>1, <1>2, <1>5, ClockIs DEF Changed, Names, JustCycles
<1> QED
  BY <1>2, <1>5, <1>6 DEF Reached

\* ORCC and ANDCC leave PC past their mask.
LEMMA OrAndIs ==
  ASSUME NEW c \in Cpu, NEW d, d = orcc(c) \/ d = andcc(c)
  PROVE  d \in Cpu /\ d.cycles = c.cycles + 3 /\ d.PC = c.PC + 1
<1> DEFINE x == Get(c, "CC")
           m == imm_byte(c)
<1>1. x \in Byte /\ m \in Byte
  BY CpuIs, GetIs, ReadIs DEF ByteRegs, imm_byte
<1>2. x & m \in Byte /\ x | m \in Byte
  BY <1>1, EfisAre
<1>3. d = Clock(set_CC(Advance(c, 1), x | m), 3) \/ d = Clock(set_CC(Advance(c, 1), x & m), 3)
  BY DEF orcc, andcc
<1> DEFINE o == x | m
           a == x & m
<1>4. o \in Byte /\ a \in Byte
  BY <1>2
<1> HIDE DEF x, m, o, a
<1>5. d = Clock(set_CC(Advance(c, 1), o), 3) \/ d = Clock(set_CC(Advance(c, 1), a), 3)
  BY <1>3 DEF o, a
<1> QED
  BY <1>4, <1>5, CodesSetIs

\* NOP.
LEMMA NopIs ==
  ASSUME NEW c \in Cpu, NEW d, d = Clock(c, 2)
  PROVE  d \in Cpu /\ d.cycles = c.cycles + 2 /\ d.PC = c.PC
BY ClockIs DEF Changed, Names, JustCycles

\* An invalid opcode stops the processor.
LEMMA InvalidIs ==
  ASSUME NEW c \in Cpu, cpu \in Cpu, NEW i, i.clk \in Int, NEW d, d = Invalid(c, i)
  PROVE  d \in Cpu /\ d.stopped = TRUE
<1> DEFINE a == sim_error(c)
           b == Clock(a, i.clk)
           e == [b EXCEPT !.PC = cpu.PC]
<1>1. d = IF i.op = "invalid" /\ OpcodeBytes(cpu) = 1 THEN e ELSE b
  BY DEF Invalid
<1>2. Changed(c, a, JustStopped) /\ a.stopped = TRUE
  BY SimErrorIs, Zenon
<1>3. a \in Cpu
  BY <1>2 DEF Changed
<1> HIDE DEF a
<1>4. b \in Cpu /\ b.stopped = a.stopped
  BY <1>3, ClockIs DEF Changed, Names, JustCycles
<1> HIDE DEF b
<1>5. Changed(b, e, JustPC)
  <2>1. cpu.PC \in Nat
    BY CpuIs
  <2> QED
    BY <1>4, <2>1 DEF Changed, Names, Cpu, JustPC
<1>6. e \in Cpu /\ e.stopped = b.stopped
  BY <1>5 DEF Changed, Names, JustPC
<1> HIDE DEF e
<1> QED
  BY <1>1, <1>2, <1>4, <1>6

-----------------------------------------------------------------------------
(* Decoding. *)

\* What the switch can hand to each of the bodies.
UnaryShape(i) ==
  /\ i.op \in UnaryOps
  /\ \/ i.mode = "inherent" /\ i.reg \in Accumulators /\ i.clk = 0
     \/ i.mode \in MemModes /\ i.clk \in Int /\ Costs(i.mode, i.clk + 2)
ByteShape(i) ==
  /\ i.op \in ByteOps /\ i.reg \in Accumulators
  /\ i.mode = "imm_byte" \/ i.mode \in MemModes
  /\ Costs(i.mode, i.clk)
DataRegs == {"D", "X", "Y", "U", "S"}
WordShape(i) ==
  /\ i.op \in WordOps /\ i.reg \in DataRegs
  /\ i.mode = "imm_word" \/ i.mode \in MemModes
  /\ Costs(i.mode, i.clk)
StoreShape(i) ==
  /\ (i.op = "st" /\ i.reg \in Accumulators) \/ (i.op = "st16" /\ i.reg \in DataRegs)
  /\ i.mode \in MemModes /\ Costs(i.mode, i.clk)
LeaShape(i) == i.op = "lea" /\ i.reg \in IndexRegs /\ i.mode = "indexed"
AccShape(i) ==
  /\ (i.op = "daa" /\ i.reg = "A") \/ (i.op \in {"sex", "mul"} /\ i.reg = "D")
  /\ i.mode = "inherent" /\ i.clk \in Nat /\ i.clk >= 2
JumpShape(i) == (i.op = "jmp" \/ i.op = "jsr") /\ i.mode \in MemModes /\ Costs(i.mode, i.clk)
BranchShape(i) ==
  \/ i.op = "branch" /\ i.mode = "rel_byte" /\ i.reg \in Nibble
  \/ i.op = "long_branch" /\ i.mode = "rel_word" /\ i.reg \in Nibble
  \/ i.op = "lbra" /\ i.mode = "rel_word" /\ i.clk = 5

PostOps     == {"pshs", "puls", "pshu", "pulu", "exg", "tfr"}
InherentOps == {"nop", "rts", "abx", "rti", "swi", "swi2", "swi3"}
CodeOps     == {"orcc", "andcc", "cwai"}
PlainShape(i) ==
  \/ i.op \in PostOps /\ i.mode = "post"
  \/ i.op \in InherentOps /\ i.mode = "inherent"
  \/ i.op \in CodeOps /\ i.mode = "imm_byte"
  \/ i.op = "bsr" /\ i.mode = "rel_byte"
  \/ i.op = "lbsr" /\ i.mode = "rel_word"
  \/ i.op \in {"sync", "invalid"} /\ i.mode = "inherent" /\ i.clk \in Int

Shape(i) == \/ UnaryShape(i) \/ ByteShape(i) \/ WordShape(i) \/ StoreShape(i) \/ LeaShape(i)
            \/ AccShape(i) \/ JumpShape(i) \/ BranchShape(i) \/ PlainShape(i)

\* The switch and the tables of the disassembler take the same operand bytes.
Agrees(mode, dmode) ==
  \/ mode # "post" /\ mode # "inherent" /\ dmode = mode
  \/ mode = "inherent" /\ dmode = "implied"
  \/ mode = "post" /\ dmode \in {"sys_post", "usr_post", "reg_post"}

Decoded(i, dmode) == Shape(i) /\ (i.op = "invalid" \/ Agrees(i.mode, dmode))

\* The parts of what is decoded.
LEMMA InsnIs ==
  ASSUME NEW op, NEW reg, NEW mode, NEW clk
  PROVE  /\ Insn(op, reg, mode, clk).op = op /\ Insn(op, reg, mode, clk).reg = reg
         /\ Insn(op, reg, mode, clk).mode = mode /\ Insn(op, reg, mode, clk).clk = clk
BY DEF Insn

\* An opcode that is not one.
LEMMA NoInsnIs ==
  ASSUME NEW clk \in Int, NEW dmode
  PROVE  Decoded(NoInsn(clk), dmode)
<1> DEFINE i == NoInsn(clk)
<1>1. i.op = "invalid" /\ i.mode = "inherent" /\ i.clk = clk
  BY Zenon DEF NoInsn, Insn
<1> HIDE DEF i
<1>2. PlainShape(i)
  BY <1>1 DEF PlainShape
<1> QED
  BY <1>1, <1>2 DEF Decoded, Shape, i

\* The rows of NEG to CLR.
LEMMA UnaryRowIs ==
  ASSUME NEW n \in Nibble, NEW reg, NEW mode, NEW clk, NEW dmode,
         \/ mode = "inherent" /\ reg \in Accumulators /\ clk = 0
         \/ mode \in MemModes /\ clk \in Int /\ Costs(mode, clk + 2),
         UnaryOp(n) = "invalid" \/ Agrees(mode, dmode)
  PROVE  Decoded(UnaryRow(n, reg, mode, clk), dmode)
<1> DEFINE i == Insn(UnaryOp(n), reg, mode, clk)
<1>1. CASE UnaryOp(n) = "invalid"
  BY <1>1, NoInsnIs DEF UnaryRow
<1>2. CASE UnaryOp(n) # "invalid"
  <2>1. UnaryOp(n) \in UnaryOps
    BY <1>2 DEF UnaryOp, UnaryOps, Nibble
  <2>2. i.op = UnaryOp(n) /\ i.reg = reg /\ i.mode = mode /\ i.clk = clk
    BY InsnIs
  <2>3. UnaryRow(n, reg, mode, clk) = i
    BY <1>2 DEF UnaryRow
  <2> HIDE DEF i
  <2>4. UnaryShape(i)
    BY <2>1, <2>2 DEF UnaryShape
  <2> QED
    BY <1>2, <2>2, <2>3, <2>4 DEF Decoded, Shape
<1> QED
  BY <1>1, <1>2

\* The same in memory, with JMP.
LEMMA MemoryRowIs ==
  ASSUME NEW n \in Nibble, NEW mode \in MemModes, NEW clk \in Int, NEW jclk, NEW dmode,
         Costs(mode, clk + 2), Costs(mode, jclk),
         (UnaryOp(n) = "invalid" /\ n # 14) \/ Agrees(mode, dmode)
  PROVE  Decoded(MemoryRow(n, mode, clk, jclk), dmode)
<1> DEFINE i == Insn("jmp", "PC", mode, jclk)
<1>1. CASE n = 14
  <2>1. i.op = "jmp" /\ i.mode = mode /\ i.clk = jclk
    BY InsnIs
  <2>2. MemoryRow(n, mode, clk, jclk) = i
    BY <1>1 DEF MemoryRow
  <2> HIDE DEF i
  <2>3. JumpShape(i)
    BY <2>1 DEF JumpShape
  <2> QED
    BY <1>1, <2>1, <2>2, <2>3 DEF Decoded, Shape
<1>2. CASE n # 14
  BY <1>2, UnaryRowIs DEF MemoryRow
<1> QED
  BY <1>1, <1>2

\* The columns of SUBA to ADDB.
LEMMA ByteRowIs ==
  ASSUME NEW n \in Nibble, NEW reg \in Accumulators, NEW mode, NEW clk, NEW dmode,
         mode = "imm_byte" \/ mode \in MemModes, Costs(mode, clk),
         ByteOp(n) = "invalid" \/ Agrees(mode, dmode)
  PROVE  Decoded(ByteRow(n, reg, mode, clk), dmode)
<1> DEFINE i == Insn(ByteOp(n), reg, mode, clk)
<1>1. CASE ByteOp(n) = "invalid"
  BY <1>1, NoInsnIs DEF ByteRow
<1>2. CASE ByteOp(n) # "invalid"
  <2>1. ByteOp(n) \in ByteOps
    BY <1>2 DEF ByteOp, ByteOps, Nibble
  <2>2. i.op = ByteOp(n) /\ i.reg = reg /\ i.mode = mode /\ i.clk = clk
    BY InsnIs
  <2>3. ByteRow(n, reg, mode, clk) = i
    BY <1>2 DEF ByteRow
  <2> HIDE DEF i
  <2>4. ByteShape(i)
    BY <2>1, <2>2 DEF ByteShape
  <2> QED
    BY <1>2, <2>2, <2>3, <2>4 DEF Decoded, Shape
<1> QED
  BY <1>1, <1>2

\* The 16-bit operations.
LEMMA WordInsnIs ==
  ASSUME NEW op \in WordOps, NEW reg \in DataRegs, NEW mode, NEW clk,
         mode = "imm_word" \/ mode \in MemModes, Costs(mode, clk),
         NEW dmode, Agrees(mode, dmode)
  PROVE  Decoded(Insn(op, reg, mode, clk), dmode)
<1> DEFINE i == Insn(op, reg, mode, clk)
<1>1. i.op = op /\ i.reg = reg /\ i.mode = mode /\ i.clk = clk
  BY InsnIs
<1> HIDE DEF i
<1>2. WordShape(i)
  BY <1>1 DEF WordShape
<1> QED
  BY <1>1, <1>2 DEF Decoded, Shape, i

\* STA and STB.
LEMMA StIs ==
  ASSUME NEW reg \in Accumulators, NEW mode \in MemModes, NEW clk, Costs(mode, clk),
         NEW dmode, Agrees(mode, dmode)
  PROVE  Decoded(Insn("st", reg, mode, clk), dmode)
<1> DEFINE i == Insn("st", reg, mode, clk)
<1>1. i.op = "st" /\ i.reg = reg /\ i.mode = mode /\ i.clk = clk
  BY InsnIs
<1> HIDE DEF i
<1>2. StoreShape(i)
  BY <1>1 DEF StoreShape
<1> QED
  BY <1>1, <1>2 DEF Decoded, Shape, i

\* The 16-bit stores.
LEMMA St16Is ==
  ASSUME NEW reg \in DataRegs, NEW mode \in MemModes, NEW clk, Costs(mode, clk),
         NEW dmode, Agrees(mode, dmode)
  PROVE  Decoded(Insn("st16", reg, mode, clk), dmode)
<1> DEFINE i == Insn("st16", reg, mode, clk)
<1>1. i.op = "st16" /\ i.reg = reg /\ i.mode = mode /\ i.clk = clk
  BY InsnIs
<1> HIDE DEF i
<1>2. StoreShape(i)
  BY <1>1 DEF StoreShape
<1> QED
  BY <1>1, <1>2 DEF Decoded, Shape, i

\* JSR.
LEMMA JsrInsnIs ==
  ASSUME NEW reg, NEW mode \in MemModes, NEW clk, Costs(mode, clk), NEW dmode, Agrees(mode, dmode)
  PROVE  Decoded(Insn("jsr", reg, mode, clk), dmode)
<1> DEFINE i == Insn("jsr", reg, mode, clk)
<1>1. i.op = "jsr" /\ i.reg = reg /\ i.mode = mode /\ i.clk = clk
  BY InsnIs
<1> HIDE DEF i
<1>2. JumpShape(i)
  BY <1>1 DEF JumpShape
<1> QED
  BY <1>1, <1>2 DEF Decoded, Shape, i

\* Rows 9, A and B.
LEMMA MemRowAIs ==
  ASSUME NEW n \in Nibble, NEW mode \in MemModes, NEW clk, NEW jclk, NEW dmode,
         Costs(mode, clk), Costs(mode, jclk), Agrees(mode, dmode)
  PROVE  Decoded(MemRowA(n, mode, clk, jclk), dmode)
<1>1. "X" \in DataRegs /\ "D" \in DataRegs /\ "A" \in Accumulators
  BY DEF DataRegs, Accumulators
<1>2. "subd" \in WordOps /\ "cmp16" \in WordOps /\ "ld16" \in WordOps
  BY DEF WordOps
<1>3. CASE n = 3
  <2>1. MemRowA(n, mode, clk, jclk) = Insn("subd", "D", mode, clk)
    BY <1>3 DEF MemRowA
  <2> QED
    BY <2>1, <1>1, <1>2, WordInsnIs
<1>4. CASE n = 7
  <2>1. MemRowA(n, mode, clk, jclk) = Insn("st", "A", mode, clk)
    BY <1>4 DEF MemRowA
  <2> QED
    BY <2>1, <1>1, StIs
<1>5. CASE n = 12
  <2>1. MemRowA(n, mode, clk, jclk) = Insn("cmp16", "X", mode, clk)
    BY <1>5 DEF MemRowA
  <2> QED
    BY <2>1, <1>1, <1>2, WordInsnIs
<1>6. CASE n = 13
  <2>1. MemRowA(n, mode, clk, jclk) = Insn("jsr", "", mode, jclk)
    BY <1>6 DEF MemRowA
  <2> QED
    BY <2>1, JsrInsnIs, Zenon
<1>7. CASE n = 14
  <2>1. MemRowA(n, mode, clk, jclk) = Insn("ld16", "X", mode, clk)
    BY <1>7 DEF MemRowA
  <2> QED
    BY <2>1, <1>1, <1>2, WordInsnIs
<1>8. CASE n = 15
  <2>1. MemRowA(n, mode, clk, jclk) = Insn("st16", "X", mode, clk)
    BY <1>8 DEF MemRowA
  <2> QED
    BY <2>1, <1>1, St16Is
<1>9. CASE n # 3 /\ n # 7 /\ n # 12 /\ n # 13 /\ n # 14 /\ n # 15
  BY <1>1, <1>9, ByteRowIs DEF MemRowA
<1> QED
  BY <1>3, <1>4, <1>5, <1>6, <1>7, <1>8, <1>9

\* Rows D, E and F.
LEMMA MemRowBIs ==
  ASSUME NEW n \in Nibble, NEW mode \in MemModes, NEW clk, NEW dmode,
         Costs(mode, clk), Agrees(mode, dmode)
  PROVE  Decoded(MemRowB(n, mode, clk), dmode)
<1>1. "U" \in DataRegs /\ "D" \in DataRegs /\ "B" \in Accumulators
  BY DEF DataRegs, Accumulators
<1>2. "addd" \in WordOps /\ "ld16" \in WordOps
  BY DEF WordOps
<1>3. CASE n = 3
  <2>1. MemRowB(n, mode, clk) = Insn("addd", "D", mode, clk)
    BY <1>3 DEF MemRowB
  <2> QED
    BY <2>1, <1>1, <1>2, WordInsnIs
<1>4. CASE n = 7
  <2>1. MemRowB(n, mode, clk) = Insn("st", "B", mode, clk)
    BY <1>4 DEF MemRowB
  <2> QED
    BY <2>1, <1>1, StIs
<1>5. CASE n = 12
  <2>1. MemRowB(n, mode, clk) = Insn("ld16", "D", mode, clk)
    BY <1>5 DEF MemRowB
  <2> QED
    BY <2>1, <1>1, <1>2, WordInsnIs
<1>6. CASE n = 13
  <2>1. MemRowB(n, mode, clk) = Insn("st16", "D", mode, clk)
    BY <1>6 DEF MemRowB
  <2> QED
    BY <2>1, <1>1, St16Is
<1>7. CASE n = 14
  <2>1. MemRowB(n, mode, clk) = Insn("ld16", "U", mode, clk)
    BY <1>7 DEF MemRowB
  <2> QED
    BY <2>1, <1>1, <1>2, WordInsnIs
<1>8. CASE n = 15
  <2>1. MemRowB(n, mode, clk) = Insn("st16", "U", mode, clk)
    BY <1>8 DEF MemRowB
  <2> QED
    BY <2>1, <1>1, St16Is
<1>9. CASE n # 3 /\ n # 7 /\ n # 12 /\ n # 13 /\ n # 14 /\ n # 15
  BY <1>1, <1>9, ByteRowIs DEF MemRowB
<1> QED
  BY <1>3, <1>4, <1>5, <1>6, <1>7, <1>8, <1>9

\* The instructions of the rows that are not alike.
PostModes == {"sys_post", "usr_post", "reg_post"}

\* LEA.
LEMMA LeaInsnIs ==
  ASSUME NEW reg \in IndexRegs, NEW clk, NEW dmode, dmode = "indexed"
  PROVE  Decoded(Insn("lea", reg, "indexed", clk), dmode)
<1> DEFINE i == Insn("lea", reg, "indexed", clk)
<1>1. i.op = "lea" /\ i.reg = reg /\ i.mode = "indexed" /\ i.clk = clk
  BY InsnIs
<1> HIDE DEF i
<1>2. LeaShape(i)
  BY <1>1 DEF LeaShape
<1> QED
  BY <1>1, <1>2 DEF Decoded, Shape, Agrees, i

\* Those with a post-byte.
LEMMA PostInsnIs ==
  ASSUME NEW op \in PostOps, NEW reg, NEW clk, NEW dmode, dmode \in PostModes
  PROVE  Decoded(Insn(op, reg, "post", clk), dmode)
<1> DEFINE i == Insn(op, reg, "post", clk)
<1>1. i.op = op /\ i.reg = reg /\ i.mode = "post" /\ i.clk = clk
  BY InsnIs
<1> HIDE DEF i
<1>2. PlainShape(i)
  BY <1>1 DEF PlainShape
<1> QED
  BY <1>1, <1>2 DEF Decoded, Shape, Agrees, PostModes, i

\* Those with no operand.
LEMMA InherentInsnIs ==
  ASSUME NEW op \in InherentOps, NEW reg, NEW clk, NEW dmode, dmode = "implied"
  PROVE  Decoded(Insn(op, reg, "inherent", clk), dmode)
<1> DEFINE i == Insn(op, reg, "inherent", clk)
<1>1. i.op = op /\ i.reg = reg /\ i.mode = "inherent" /\ i.clk = clk
  BY InsnIs
<1> HIDE DEF i
<1>2. PlainShape(i)
  BY <1>1 DEF PlainShape
<1> QED
  BY <1>1, <1>2 DEF Decoded, Shape, Agrees, i

\* ORCC, ANDCC and CWAI.
LEMMA CodeInsnIs ==
  ASSUME NEW op \in CodeOps, NEW reg, NEW clk, NEW dmode, dmode = "imm_byte"
  PROVE  Decoded(Insn(op, reg, "imm_byte", clk), dmode)
<1> DEFINE i == Insn(op, reg, "imm_byte", clk)
<1>1. i.op = op /\ i.reg = reg /\ i.mode = "imm_byte" /\ i.clk = clk
  BY InsnIs
<1> HIDE DEF i
<1>2. PlainShape(i)
  BY <1>1 DEF PlainShape
<1> QED
  BY <1>1, <1>2 DEF Decoded, Shape, Agrees, i

\* BSR.
LEMMA BsrInsnIs ==
  ASSUME NEW reg, NEW clk, NEW dmode, dmode = "rel_byte"
  PROVE  Decoded(Insn("bsr", reg, "rel_byte", clk), dmode)
<1> DEFINE i == Insn("bsr", reg, "rel_byte", clk)
<1>1. i.op = "bsr" /\ i.reg = reg /\ i.mode = "rel_byte" /\ i.clk = clk
  BY InsnIs
<1> HIDE DEF i
<1>2. PlainShape(i)
  BY <1>1 DEF PlainShape
<1> QED
  BY <1>1, <1>2 DEF Decoded, Shape, Agrees, i

\* LBSR.
LEMMA LbsrInsnIs ==
  ASSUME NEW reg, NEW clk, NEW dmode, dmode = "rel_word"
  PROVE  Decoded(Insn("lbsr", reg, "rel_word", clk), dmode)
<1> DEFINE i == Insn("lbsr", reg, "rel_word", clk)
<1>1. i.op = "lbsr" /\ i.reg = reg /\ i.mode = "rel_word" /\ i.clk = clk
  BY InsnIs
<1> HIDE DEF i
<1>2. PlainShape(i)
  BY <1>1 DEF PlainShape
<1> QED
  BY <1>1, <1>2 DEF Decoded, Shape, Agrees, i

\* LBRA.
LEMMA LbraInsnIs ==
  ASSUME NEW reg, NEW clk, clk = 5, NEW dmode, dmode = "rel_word"
  PROVE  Decoded(Insn("lbra", reg, "rel_word", clk), dmode)
<1> DEFINE i == Insn("lbra", reg, "rel_word", clk)
<1>1. i.op = "lbra" /\ i.reg = reg /\ i.mode = "rel_word" /\ i.clk = clk
  BY InsnIs
<1> HIDE DEF i
<1>2. BranchShape(i)
  BY <1>1 DEF BranchShape
<1> QED
  BY <1>1, <1>2 DEF Decoded, Shape, Agrees, i

\* SYNC.
LEMMA SyncInsnIs ==
  ASSUME NEW reg, NEW clk \in Int, NEW dmode, dmode = "implied"
  PROVE  Decoded(Insn("sync", reg, "inherent", clk), dmode)
<1> DEFINE i == Insn("sync", reg, "inherent", clk)
<1>1. i.op = "sync" /\ i.reg = reg /\ i.mode = "inherent" /\ i.clk = clk
  BY InsnIs
<1> HIDE DEF i
<1>2. PlainShape(i)
  BY <1>1 DEF PlainShape
<1> QED
  BY <1>1, <1>2 DEF Decoded, Shape, Agrees, i

\* Short branches.
LEMMA BranchInsnIs ==
  ASSUME NEW reg \in Nibble, NEW clk, NEW dmode, dmode = "rel_byte"
  PROVE  Decoded(Insn("branch", reg, "rel_byte", clk), dmode)
<1> DEFINE i == Insn("branch", reg, "rel_byte", clk)
<1>1. i.op = "branch" /\ i.reg = reg /\ i.mode = "rel_byte" /\ i.clk = clk
  BY InsnIs
<1> HIDE DEF i
<1>2. BranchShape(i)
  BY <1>1 DEF BranchShape
<1> QED
  BY <1>1, <1>2 DEF Decoded, Shape, Agrees, i

\* Long branches.
LEMMA LongBranchInsnIs ==
  ASSUME NEW reg \in Nibble, NEW clk, NEW dmode, dmode = "rel_word"
  PROVE  Decoded(Insn("long_branch", reg, "rel_word", clk), dmode)
<1> DEFINE i == Insn("long_branch", reg, "rel_word", clk)
<1>1. i.op = "long_branch" /\ i.reg = reg /\ i.mode = "rel_word" /\ i.clk = clk
  BY InsnIs
<1> HIDE DEF i
<1>2. BranchShape(i)
  BY <1>1 DEF BranchShape
<1> QED
  BY <1>1, <1>2 DEF Decoded, Shape, Agrees, i

\* DAA.
LEMMA DaaInsnIs ==
  ASSUME NEW reg, reg = "A", NEW clk \in Nat, clk >= 2, NEW dmode, dmode = "implied"
  PROVE  Decoded(Insn("daa", reg, "inherent", clk), dmode)
<1> DEFINE i == Insn("daa", reg, "inherent", clk)
<1>1. i.op = "daa" /\ i.reg = reg /\ i.mode = "inherent" /\ i.clk = clk
  BY InsnIs
<1> HIDE DEF i
<1>2. AccShape(i)
  BY <1>1 DEF AccShape
<1> QED
  BY <1>1, <1>2 DEF Decoded, Shape, Agrees, i

\* SEX.
LEMMA SexInsnIs ==
  ASSUME NEW reg, reg = "D", NEW clk \in Nat, clk >= 2, NEW dmode, dmode = "implied"
  PROVE  Decoded(Insn("sex", reg, "inherent", clk), dmode)
<1> DEFINE i == Insn("sex", reg, "inherent", clk)
<1>1. i.op = "sex" /\ i.reg = reg /\ i.mode = "inherent" /\ i.clk = clk
  BY InsnIs
<1> HIDE DEF i
<1>2. AccShape(i)
  BY <1>1 DEF AccShape
<1> QED
  BY <1>1, <1>2 DEF Decoded, Shape, Agrees, i

\* MUL.
LEMMA MulInsnIs ==
  ASSUME NEW reg, reg = "D", NEW clk \in Nat, clk >= 2, NEW dmode, dmode = "implied"
  PROVE  Decoded(Insn("mul", reg, "inherent", clk), dmode)
<1> DEFINE i == Insn("mul", reg, "inherent", clk)
<1>1. i.op = "mul" /\ i.reg = reg /\ i.mode = "inherent" /\ i.clk = clk
  BY InsnIs
<1> HIDE DEF i
<1>2. AccShape(i)
  BY <1>1 DEF AccShape
<1> QED
  BY <1>1, <1>2 DEF Decoded, Shape, Agrees, i

-----------------------------------------------------------------------------
(* Rows 1, 3, 8 and C, and what dasm() makes of them. *)

Dasm_1(n) == CASE n \in {2, 3, 9, 13} -> "implied"   [] n \in {6, 7} -> "rel_word"
               [] n \in {10, 12}      -> "imm_byte"  [] n \in {14, 15} -> "reg_post"
               [] OTHER               -> "illegal"
Dasm_3(n) == CASE n \in 0..3     -> "indexed"   [] n \in {4, 5} -> "sys_post"
               [] n \in {6, 7}   -> "usr_post"  [] n = 8 -> "illegal"
               [] n = 12         -> "imm_byte"  [] OTHER -> "implied"
Dasm_8(n) == CASE n = 7 -> "illegal" [] n = 15 -> "illegal" [] n = 13 -> "rel_byte"
               [] n \in {3, 12, 14} -> "imm_word" [] OTHER -> "imm_byte"
Dasm_C(n) == CASE n \in {7, 13, 15} -> "illegal" [] n \in {3, 12, 14} -> "imm_word"
               [] OTHER -> "imm_byte"

\* Row 1 of the switch and of dasm()'s table.
LEMMA row_1Is ==
  ASSUME NEW n \in Nibble, NEW dmode, dmode = Dasm_1(n)
  PROVE  Decoded(row_1(n), dmode)
<1>0. /\ "nop" \in InherentOps /\ "orcc" \in CodeOps /\ "andcc" \in CodeOps
      /\ "exg" \in PostOps /\ "tfr" \in PostOps /\ "reg_post" \in PostModes
      /\ 2 \in Nat /\ 2 >= 2 /\ 4 \in Int
  BY DEF InherentOps, CodeOps, PostOps, PostModes
<1>1. CASE n = 2
  <2>1. row_1(n) = Insn("nop", "", "inherent", 2) /\ dmode = "implied"
    BY <1>1 DEF row_1, Dasm_1
  <2> QED
    BY <1>0, <2>1, InherentInsnIs, Zenon
<1>2. CASE n = 3
  <2>1. row_1(n) = Insn("sync", "", "inherent", 4) /\ dmode = "implied"
    BY <1>2 DEF row_1, Dasm_1
  <2> QED
    BY <1>0, <2>1, SyncInsnIs, Zenon
<1>3. CASE n = 6
  <2>1. row_1(n) = Insn("lbra", "", "rel_word", 5) /\ dmode = "rel_word"
    BY <1>3 DEF row_1, Dasm_1
  <2> QED
    BY <1>0, <2>1, LbraInsnIs, Zenon
<1>4. CASE n = 7
  <2>1. row_1(n) = Insn("lbsr", "", "rel_word", 9) /\ dmode = "rel_word"
    BY <1>4 DEF row_1, Dasm_1
  <2> QED
    BY <1>0, <2>1, LbsrInsnIs, Zenon
<1>5. CASE n = 9
  <2>1. row_1(n) = Insn("daa", "A", "inherent", 2) /\ dmode = "implied"
    BY <1>5 DEF row_1, Dasm_1
  <2> QED
    BY <1>0, <2>1, DaaInsnIs, Zenon
<1>6. CASE n = 10
  <2>1. row_1(n) = Insn("orcc", "CC", "imm_byte", 3) /\ dmode = "imm_byte"
    BY <1>6 DEF row_1, Dasm_1
  <2> QED
    BY <1>0, <2>1, CodeInsnIs, Zenon
<1>7. CASE n = 12
  <2>1. row_1(n) = Insn("andcc", "CC", "imm_byte", 3) /\ dmode = "imm_byte"
    BY <1>7 DEF row_1, Dasm_1
  <2> QED
    BY <1>0, <2>1, CodeInsnIs, Zenon
<1>8. CASE n = 13
  <2>1. row_1(n) = Insn("sex", "D", "inherent", 2) /\ dmode = "implied"
    BY <1>8 DEF row_1, Dasm_1
  <2> QED
    BY <1>0, <2>1, SexInsnIs, Zenon
<1>9. CASE n = 14
  <2>1. row_1(n) = Insn("exg", "", "post", 0) /\ dmode = "reg_post"
    BY <1>9 DEF row_1, Dasm_1
  <2> QED
    BY <1>0, <2>1, PostInsnIs, Zenon
<1>10. CASE n = 15
  <2>1. row_1(n) = Insn("tfr", "", "post", 0) /\ dmode = "reg_post"
    BY <1>10 DEF row_1, Dasm_1
  <2> QED
    BY <1>0, <2>1, PostInsnIs, Zenon
<1>11. CASE n # 2 /\ n # 3 /\ n # 6 /\ n # 7 /\ n # 9 /\ n # 10 /\ n # 12 /\ n # 13 /\ n # 14 /\ n # 15
  <2>1. row_1(n) = NoInsn(2)
    BY <1>11 DEF row_1
  <2> QED
    BY <2>1, NoInsnIs
<1> QED
  BY <1>1, <1>2, <1>3, <1>4, <1>5, <1>6, <1>7, <1>8, <1>9, <1>10, <1>11

\* Row 3.
LEMMA row_3Is ==
  ASSUME NEW n \in Nibble, NEW dmode, dmode = Dasm_3(n)
  PROVE  Decoded(row_3(n), dmode)
<1>0. /\ "rts" \in InherentOps /\ "abx" \in InherentOps /\ "rti" \in InherentOps
      /\ "swi" \in InherentOps /\ "cwai" \in CodeOps
      /\ "pshs" \in PostOps /\ "puls" \in PostOps /\ "pshu" \in PostOps /\ "pulu" \in PostOps
      /\ "sys_post" \in PostModes /\ "usr_post" \in PostModes
      /\ "X" \in IndexRegs /\ "Y" \in IndexRegs /\ "U" \in IndexRegs /\ "S" \in IndexRegs
      /\ 11 \in Nat /\ 11 >= 2
  BY DEF InherentOps, CodeOps, PostOps, PostModes, IndexRegs
<1>1. CASE n = 0
  <2>1. row_3(n) = Insn("lea", "X", "indexed", 0) /\ dmode = "indexed"
    BY <1>1 DEF row_3, Dasm_3
  <2> QED
    BY <1>0, <2>1, LeaInsnIs, Zenon
<1>2. CASE n = 1
  <2>1. row_3(n) = Insn("lea", "Y", "indexed", 0) /\ dmode = "indexed"
    BY <1>2 DEF row_3, Dasm_3
  <2> QED
    BY <1>0, <2>1, LeaInsnIs, Zenon
<1>3. CASE n = 2
  <2>1. row_3(n) = Insn("lea", "S", "indexed", 0) /\ dmode = "indexed"
    BY <1>3 DEF row_3, Dasm_3
  <2> QED
    BY <1>0, <2>1, LeaInsnIs, Zenon
<1>4. CASE n = 3
  <2>1. row_3(n) = Insn("lea", "U", "indexed", 0) /\ dmode = "indexed"
    BY <1>4 DEF row_3, Dasm_3
  <2> QED
    BY <1>0, <2>1, LeaInsnIs, Zenon
<1>5. CASE n = 4
  <2>1. row_3(n) = Insn("pshs", "", "post", 0) /\ dmode = "sys_post"
    BY <1>5 DEF row_3, Dasm_3
  <2> QED
    BY <1>0, <2>1, PostInsnIs, Zenon
<1>6. CASE n = 5
  <2>1. row_3(n) = Insn("puls", "", "post", 0) /\ dmode = "sys_post"
    BY <1>6 DEF row_3, Dasm_3
  <2> QED
    BY <1>0, <2>1, PostInsnIs, Zenon
<1>7. CASE n = 6
  <2>1. row_3(n) = Insn("pshu", "", "post", 0) /\ dmode = "usr_post"
    BY <1>7 DEF row_3, Dasm_3
  <2> QED
    BY <1>0, <2>1, PostInsnIs, Zenon
<1>8. CASE n = 7
  <2>1. row_3(n) = Insn("pulu", "", "post", 0) /\ dmode = "usr_post"
    BY <1>8 DEF row_3, Dasm_3
  <2> QED
    BY <1>0, <2>1, PostInsnIs, Zenon
<1>9. CASE n = 9
  <2>1. row_3(n) = Insn("rts", "", "inherent", 0) /\ dmode = "implied"
    BY <1>9 DEF row_3, Dasm_3
  <2> QED
    BY <1>0, <2>1, InherentInsnIs, Zenon
<1>10. CASE n = 10
  <2>1. row_3(n) = Insn("abx", "X", "inherent", 3) /\ dmode = "implied"
    BY <1>10 DEF row_3, Dasm_3
  <2> QED
    BY <1>0, <2>1, InherentInsnIs, Zenon
<1>11. CASE n = 11
  <2>1. row_3(n) = Insn("rti", "", "inherent", 0) /\ dmode = "implied"
    BY <1>11 DEF row_3, Dasm_3
  <2> QED
    BY <1>0, <2>1, InherentInsnIs, Zenon
<1>12. CASE n = 12
  <2>1. row_3(n) = Insn("cwai", "", "imm_byte", 0) /\ dmode = "imm_byte"
    BY <1>12 DEF row_3, Dasm_3
  <2> QED
    BY <1>0, <2>1, CodeInsnIs, Zenon
<1>13. CASE n = 13
  <2>1. row_3(n) = Insn("mul", "D", "inherent", 11) /\ dmode = "implied"
    BY <1>13 DEF row_3, Dasm_3
  <2> QED
    BY <1>0, <2>1, MulInsnIs, Zenon
<1>14. CASE n = 15
  <2>1. row_3(n) = Insn("swi", "", "inherent", 0) /\ dmode = "implied"
    BY <1>14 DEF row_3, Dasm_3
  <2> QED
    BY <1>0, <2>1, InherentInsnIs, Zenon
<1>15. CASE n # 0 /\ n # 1 /\ n # 2 /\ n # 3 /\ n # 4 /\ n # 5 /\ n # 6 /\ n # 7 /\ n # 9 /\ n # 10 /\ n # 11 /\ n # 12 /\ n # 13 /\ n # 15
  <2>1. row_3(n) = NoInsn(2)
    BY <1>15 DEF row_3
  <2> QED
    BY <2>1, NoInsnIs
<1> QED
  BY <1>1, <1>2, <1>3, <1>4, <1>5, <1>6, <1>7, <1>8, <1>9, <1>10, <1>11, <1>12, <1>13, <1>14, <1>15

\* Row 8.
LEMMA row_8Is ==
  ASSUME NEW n \in Nibble, NEW dmode, dmode = Dasm_8(n)
  PROVE  Decoded(row_8(n), dmode)
<1>0. /\ "subd" \in WordOps /\ "addd" \in WordOps /\ "cmp16" \in WordOps /\ "ld16" \in WordOps
      /\ "D" \in DataRegs /\ "X" \in DataRegs /\ "U" \in DataRegs
      /\ "A" \in Accumulators /\ "B" \in Accumulators
      /\ Costs("imm_word", 3) /\ Costs("imm_word", 4) /\ Costs("imm_byte", 2)
      /\ Agrees("imm_word", "imm_word") /\ Agrees("imm_byte", "imm_byte")
  BY DEF WordOps, DataRegs, Accumulators, Costs, Agrees
<1>1. CASE n = 3
  <2>1. row_8(n) = Insn("subd", "D", "imm_word", 4) /\ dmode = "imm_word"
    BY <1>1 DEF row_8, Dasm_8
  <2> QED
    BY <1>0, <2>1, WordInsnIs
<1>2. CASE n = 12
  <2>1. row_8(n) = Insn("cmp16", "X", "imm_word", 4) /\ dmode = "imm_word"
    BY <1>2 DEF row_8, Dasm_8
  <2> QED
    BY <1>0, <2>1, WordInsnIs
<1>3. CASE n = 13
  <2>1. row_8(n) = Insn("bsr", "", "rel_byte", 7) /\ dmode = "rel_byte"
    BY <1>3 DEF row_8, Dasm_8
  <2> QED
    BY <1>0, <2>1, BsrInsnIs, Zenon
<1>4. CASE n = 14
  <2>1. row_8(n) = Insn("ld16", "X", "imm_word", 3) /\ dmode = "imm_word"
    BY <1>4 DEF row_8, Dasm_8
  <2> QED
    BY <1>0, <2>1, WordInsnIs
<1>5. CASE n # 3 /\ n # 12 /\ n # 13 /\ n # 14
  <2>1. row_8(n) = ByteRow(n, "A", "imm_byte", 2)
    BY <1>5 DEF row_8
  <2>2. ByteOp(n) = "invalid" \/ dmode = "imm_byte"
    BY <1>5 DEF ByteOp, Dasm_8
  <2> QED
    BY <1>0, <2>1, <2>2, ByteRowIs
<1> QED
  BY <1>1, <1>2, <1>3, <1>4, <1>5

\* Row C.
LEMMA row_CIs ==
  ASSUME NEW n \in Nibble, NEW dmode, dmode = Dasm_C(n)
  PROVE  Decoded(row_C(n), dmode)
<1>0. /\ "subd" \in WordOps /\ "addd" \in WordOps /\ "cmp16" \in WordOps /\ "ld16" \in WordOps
      /\ "D" \in DataRegs /\ "X" \in DataRegs /\ "U" \in DataRegs
      /\ "A" \in Accumulators /\ "B" \in Accumulators
      /\ Costs("imm_word", 3) /\ Costs("imm_word", 4) /\ Costs("imm_byte", 2)
      /\ Agrees("imm_word", "imm_word") /\ Agrees("imm_byte", "imm_byte")
  BY DEF WordOps, DataRegs, Accumulators, Costs, Agrees
<1>1. CASE n = 3
  <2>1. row_C(n) = Insn("addd", "D", "imm_word", 4) /\ dmode = "imm_word"
    BY <1>1 DEF row_C, Dasm_C
  <2> QED
    BY <1>0, <2>1, WordInsnIs
<1>2. CASE n = 12
  <2>1. row_C(n) = Insn("ld16", "D", "imm_word", 3) /\ dmode = "imm_word"
    BY <1>2 DEF row_C, Dasm_C
  <2> QED
    BY <1>0, <2>1, WordInsnIs
<1>3. CASE n = 14
  <2>1. row_C(n) = Insn("ld16", "U", "imm_word", 3) /\ dmode = "imm_word"
    BY <1>3 DEF row_C, Dasm_C
  <2> QED
    BY <1>0, <2>1, WordInsnIs
<1>4. CASE n # 3 /\ n # 12 /\ n # 14
  <2>1. row_C(n) = ByteRow(n, "B", "imm_byte", 2)
    BY <1>4 DEF row_C
  <2>2. ByteOp(n) = "invalid" \/ dmode = "imm_byte"
    BY <1>4 DEF ByteOp, Dasm_C
  <2> QED
    BY <1>0, <2>1, <2>2, ByteRowIs
<1> QED
  BY <1>1, <1>2, <1>3, <1>4

-----------------------------------------------------------------------------
(* The pages. *)

\* An opcode is its row and its column.
LEMMA RowsOf ==
  ASSUME NEW op \in Byte
  PROVE  /\ op \div 16 \in Nibble /\ op % 16 \in Nibble
         /\ op = 16 * (op \div 16) + (op % 16)
         /\ op < 128 <=> op \div 16 < 8
<1>1. op \in Int /\ 0 <= op /\ op < 256
  BY DEF Byte
<1> QED
  BY <1>1 DEF Nibble

\* The modes that rows share.
LEMMA ModesAre ==
  /\ "direct" \in MemModes /\ "indexed" \in MemModes /\ "extended" \in MemModes
  /\ "A" \in Accumulators /\ "B" \in Accumulators
  /\ Agrees("direct", "direct") /\ Agrees("indexed", "indexed") /\ Agrees("extended", "extended")
  /\ Agrees("inherent", "implied")
BY DEF MemModes, Accumulators, Agrees

\* The cycles the switch counts suffice for each mode.
LEMMA CostsAre ==
  /\ Costs("direct", 4 + 2) /\ Costs("direct", 3) /\ Costs("direct", 4) /\ Costs("direct", 7)
  /\ Costs("indexed", 0 + 2) /\ Costs("indexed", -1) /\ Costs("indexed", 0) /\ Costs("indexed", 3)
  /\ Costs("extended", 5 + 2) /\ Costs("extended", 4) /\ Costs("extended", 5) /\ Costs("extended", 8)
BY DEF Costs

\* The columns of NEG to CLR.
LEMMA UnaryOpIs ==
  ASSUME NEW n \in Nibble
  PROVE  /\ UnaryOp(n) = "invalid" <=> n \in {1, 2, 5, 11, 14}
BY DEF UnaryOp, Nibble

\* The opcodes without a prefix.
LEMMA Page0Is ==
  ASSUME NEW op \in Byte, op # 16, op # 17, NEW op2, NEW dmode, dmode = DasmMode(op, op2)
  PROVE  Decoded(page_0(op), dmode)
<1> DEFINE row == op \div 16
           n == op % 16
<1>1. row \in Nibble /\ n \in Nibble /\ op = 16 * row + n /\ (op < 128 <=> row < 8)
  BY RowsOf
<1>d. dmode = IF op < 128 THEN codes_00_7F(op) ELSE codes_80_FF(op)
  BY DEF DasmMode
<1>w. row \in Nat /\ row < 16 /\ n \in Nat /\ n < 16 /\ op \in Int
  BY <1>1 DEF Nibble
<1>2. CASE row = 0
  <2>1. dmode = IF n \in {1, 2, 5, 11} THEN "illegal" ELSE "direct"
    BY <1>1, <1>d, <1>2 DEF codes_00_7F
  <2>2. page_0(op) = MemoryRow(n, "direct", 4, 3)
    BY <1>2 DEF page_0
  <2> HIDE DEF n
  <2>3. (UnaryOp(n) = "invalid" /\ n # 14) \/ dmode = "direct"
    BY <1>1, <2>1, UnaryOpIs
  <2>4. (UnaryOp(n) = "invalid" /\ n # 14) \/ Agrees("direct", dmode)
    BY <2>3, ModesAre
  <2> QED
    BY <1>1, <2>2, <2>4, MemoryRowIs, ModesAre, CostsAre
<1>3. CASE row = 1
  <2>1. dmode = Dasm_1(n)
    BY <1>1, <1>d, <1>3 DEF codes_00_7F, Dasm_1
  <2>2. page_0(op) = row_1(n)
    BY <1>3 DEF page_0
  <2> HIDE DEF n
  <2> QED
    BY <1>1, <2>1, <2>2, row_1Is
<1>4. CASE row = 2
  <2>1. dmode = "rel_byte"
    BY <1>1, <1>d, <1>4 DEF codes_00_7F
  <2>2. page_0(op) = Insn("branch", n, "rel_byte", 3)
    BY <1>4 DEF page_0
  <2> HIDE DEF n
  <2> QED
    BY <1>1, <2>1, <2>2, BranchInsnIs
<1>5. CASE row = 3
  <2>1. dmode = Dasm_3(n)
    BY <1>1, <1>d, <1>5 DEF codes_00_7F, Dasm_3
  <2>2. page_0(op) = row_3(n)
    BY <1>5 DEF page_0
  <2> HIDE DEF n
  <2> QED
    BY <1>1, <2>1, <2>2, row_3Is
<1>6. CASE row = 4
  <2>1. dmode = IF n \in {1, 2, 5, 11, 14} THEN "illegal" ELSE "implied"
    BY <1>1, <1>d, <1>6 DEF codes_00_7F
  <2>2. page_0(op) = UnaryRow(n, "A", "inherent", 0)
    BY <1>6 DEF page_0
  <2> HIDE DEF n
  <2>3. UnaryOp(n) = "invalid" \/ Agrees("inherent", dmode)
    BY <1>1, <2>1, UnaryOpIs, ModesAre
  <2> QED
    BY <1>1, <2>2, <2>3, UnaryRowIs, ModesAre
<1>7. CASE row = 5
  <2>1. dmode = IF n \in {1, 2, 5, 11, 14} THEN "illegal" ELSE "implied"
    BY <1>1, <1>d, <1>7 DEF codes_00_7F
  <2>2. page_0(op) = UnaryRow(n, "B", "inherent", 0)
    BY <1>7 DEF page_0
  <2> HIDE DEF n
  <2>3. UnaryOp(n) = "invalid" \/ Agrees("inherent", dmode)
    BY <1>1, <2>1, UnaryOpIs, ModesAre
  <2> QED
    BY <1>1, <2>2, <2>3, UnaryRowIs, ModesAre
<1>8. CASE row = 6
  <2>1. dmode = IF n \in {1, 2, 5, 11} THEN "illegal" ELSE "indexed"
    BY <1>1, <1>d, <1>8 DEF codes_00_7F
  <2>2. page_0(op) = MemoryRow(n, "indexed", 0, -1)
    BY <1>8 DEF page_0
  <2> HIDE DEF n
  <2>3. (UnaryOp(n) = "invalid" /\ n # 14) \/ dmode = "indexed"
    BY <1>1, <2>1, UnaryOpIs
  <2>4. (UnaryOp(n) = "invalid" /\ n # 14) \/ Agrees("indexed", dmode)
    BY <2>3, ModesAre
  <2> QED
    BY <1>1, <2>2, <2>4, MemoryRowIs, ModesAre, CostsAre
<1>9. CASE row = 7
  <2>1. dmode = IF n \in {1, 2, 5, 11} THEN "illegal" ELSE "extended"
    BY <1>1, <1>d, <1>9 DEF codes_00_7F
  <2>2. page_0(op) = MemoryRow(n, "extended", 5, 4)
    BY <1>9 DEF page_0
  <2> HIDE DEF n
  <2>3. (UnaryOp(n) = "invalid" /\ n # 14) \/ dmode = "extended"
    BY <1>1, <2>1, UnaryOpIs
  <2>4. (UnaryOp(n) = "invalid" /\ n # 14) \/ Agrees("extended", dmode)
    BY <2>3, ModesAre
  <2> QED
    BY <1>1, <2>2, <2>4, MemoryRowIs, ModesAre, CostsAre
<1>10. CASE row = 8
  <2>1. dmode = Dasm_8(n)
    BY <1>1, <1>w, <1>d, <1>10 DEF codes_80_FF, Dasm_8
  <2>2. page_0(op) = row_8(n)
    BY <1>10 DEF page_0
  <2> HIDE DEF n
  <2> QED
    BY <1>1, <2>1, <2>2, row_8Is
<1>11. CASE row = 9
  <2>1. dmode = "direct"
    BY <1>1, <1>d, <1>11 DEF codes_80_FF, MemoryMode
  <2>2. page_0(op) = MemRowA(n, "direct", 4, 7)
    BY <1>11 DEF page_0
  <2> HIDE DEF n
  <2> QED
    BY <1>1, <2>1, <2>2, MemRowAIs, ModesAre, CostsAre
<1>12. CASE row = 10
  <2>1. dmode = "indexed"
    BY <1>1, <1>d, <1>12 DEF codes_80_FF, MemoryMode
  <2>2. page_0(op) = MemRowA(n, "indexed", 0, 3)
    BY <1>12 DEF page_0
  <2> HIDE DEF n
  <2> QED
    BY <1>1, <2>1, <2>2, MemRowAIs, ModesAre, CostsAre
<1>13. CASE row = 11
  <2>1. dmode = "extended"
    BY <1>1, <1>d, <1>13 DEF codes_80_FF, MemoryMode
  <2>2. page_0(op) = MemRowA(n, "extended", 5, 8)
    BY <1>13 DEF page_0
  <2> HIDE DEF n
  <2> QED
    BY <1>1, <2>1, <2>2, MemRowAIs, ModesAre, CostsAre
<1>14. CASE row = 12
  <2>1. dmode = Dasm_C(n)
    BY <1>1, <1>w, <1>d, <1>14 DEF codes_80_FF, Dasm_C
  <2>2. page_0(op) = row_C(n)
    BY <1>14 DEF page_0
  <2> HIDE DEF n
  <2> QED
    BY <1>1, <2>1, <2>2, row_CIs
<1>15. CASE row = 13
  <2>1. dmode = "direct"
    BY <1>1, <1>d, <1>15 DEF codes_80_FF, MemoryMode
  <2>2. page_0(op) = MemRowB(n, "direct", 4)
    BY <1>15 DEF page_0
  <2> HIDE DEF n
  <2> QED
    BY <1>1, <2>1, <2>2, MemRowBIs, ModesAre, CostsAre
<1>16. CASE row = 14
  <2>1. dmode = "indexed"
    BY <1>1, <1>d, <1>16 DEF codes_80_FF, MemoryMode
  <2>2. page_0(op) = MemRowB(n, "indexed", 0)
    BY <1>16 DEF page_0
  <2> HIDE DEF n
  <2> QED
    BY <1>1, <2>1, <2>2, MemRowBIs, ModesAre, CostsAre
<1>17. CASE row = 15
  <2>1. dmode = "extended"
    BY <1>1, <1>d, <1>17 DEF codes_80_FF, MemoryMode
  <2>2. page_0(op) = MemRowB(n, "extended", 5)
    BY <1>17 DEF page_0
  <2> HIDE DEF n
  <2> QED
    BY <1>1, <2>1, <2>2, MemRowBIs, ModesAre, CostsAre
<1> HIDE DEF row
<1>18. row = 0 \/ row = 1 \/ row = 2 \/ row = 3 \/ row = 4 \/ row = 5 \/ row = 6 \/ row = 7
      \/ row = 8 \/ row = 9 \/ row = 10 \/ row = 11 \/ row = 12 \/ row = 13 \/ row = 14 \/ row = 15
  BY <1>w
<1> QED
  BY <1>2, <1>3, <1>4, <1>5, <1>6, <1>7, <1>8, <1>9, <1>10, <1>11, <1>12, <1>13, <1>14, <1>15, <1>16, <1>17, <1>18

\* The mode of an opcode behind a prefix, and its cycles.
LEMMA WordModeIs ==
  ASSUME NEW row \in {8, 9, 10, 11, 12, 13, 14, 15}
  PROVE  /\ WordMode(row) = "imm_word" \/ WordMode(row) \in MemModes
         /\ row # 8 /\ row # 12 => WordMode(row) \in MemModes
         /\ Costs(WordMode(row), WordClk(row))
         /\ Agrees(WordMode(row), WordMode(row))
         /\ row = 8 \/ row = 12 => WordMode(row) = "imm_word"
         /\ row # 8 /\ row # 12 => WordMode(row) = MemoryMode[row % 4]
<1>1. row = 8 \/ row = 9 \/ row = 10 \/ row = 11 \/ row = 12 \/ row = 13 \/ row = 14 \/ row = 15
  OBVIOUS
<1>2. CASE row = 8 \/ row = 12
  BY <1>2 DEF WordMode, WordClk, Costs, Agrees, MemModes
<1>3. CASE row = 9 \/ row = 13
  BY <1>3 DEF WordMode, WordClk, Costs, Agrees, MemModes, MemoryMode
<1>4. CASE row = 10 \/ row = 14
  BY <1>4 DEF WordMode, WordClk, Costs, Agrees, MemModes, MemoryMode
<1>5. CASE row = 11 \/ row = 15
  BY <1>5 DEF WordMode, WordClk, Costs, Agrees, MemModes, MemoryMode
<1> QED
  BY <1>1, <1>2, <1>3, <1>4, <1>5

\* The opcodes behind the prefix 10.
LEMMA Page10Is ==
  ASSUME NEW op \in Byte, NEW dmode,
         dmode = IF op < 128 THEN codes10_00_7F(op) ELSE codes10_80_FF(op)
  PROVE  Decoded(page_10(op), dmode)
<1> DEFINE row == op \div 16
           n == op % 16
           reg == IF row < 12 THEN "Y" ELSE "S"
           i == page_10(op)
           lb == Insn("long_branch", n, "rel_word", 0)
           sw == Insn("swi2", "", "inherent", 0)
<1>1. row \in Nibble /\ n \in Nibble /\ op = 16 * row + n /\ (op < 128 <=> row < 8)
  BY RowsOf
<1>2. row \in Nat /\ row < 16 /\ n \in Nat /\ n < 16 /\ op \in Int
  BY <1>1 DEF Nibble
<1>3. /\ reg \in DataRegs /\ "D" \in DataRegs /\ "Y" \in DataRegs
      /\ "cmp16" \in WordOps /\ "ld16" \in WordOps /\ "swi2" \in InherentOps
  BY DEF DataRegs, WordOps, InherentOps
<1>4. i = CASE op \in 33..47 -> lb
        [] op = 63 -> sw
        [] row \in 8..11 /\ n = 3  -> Insn("cmp16", "D", WordMode(row), WordClk(row))
        [] row \in 8..11 /\ n = 12 -> Insn("cmp16", "Y", WordMode(row), WordClk(row))
        [] row \in {8, 12} /\ n = 14 -> Insn("ld16", reg, "imm_word", 4)
        [] row \in {9, 10, 11, 13, 14, 15} /\ n = 14 -> Insn("ld16", reg, WordMode(row), WordClk(row))
        [] row \in {9, 10, 11, 13, 14, 15} /\ n = 15 -> Insn("st16", reg, WordMode(row), WordClk(row))
        [] OTHER -> NoInsn(0)
  BY DEF page_10
<1>5. op >= 128 => dmode =
        LET used == IF op < 192 THEN {3, 12, 14, 15} ELSE {14, 15}
        IN  CASE n \notin used \/ op \in {143, 207} -> "illegal"
              [] n \in used /\ row % 4 # 0 -> MemoryMode[row % 4]
              [] n \in used \ {15} /\ row % 4 = 0 -> "imm_word"
  BY <1>2 DEF codes10_80_FF
<1>6. op < 128 => dmode = CASE op \in 33..47 -> "rel_word" [] op = 63 -> "implied" [] OTHER -> "illegal"
  BY <1>2 DEF codes10_00_7F
<1> HIDE DEF row, n, reg, i, lb, sw
<1>7. CASE op < 128
  <2>0. row # 8 /\ row # 9 /\ row # 10 /\ row # 11 /\ row # 12 /\ row # 13 /\ row # 14 /\ row # 15
    BY <1>1, <1>2, <1>7
  <2>1. CASE op \in 33..47
    <3>1. i = lb
      BY <1>2, <1>4, <2>0, <2>1
    <3>2. dmode = "rel_word"
      BY <1>6, <1>7, <2>1
    <3> QED
      BY <1>1, <3>1, <3>2, LongBranchInsnIs DEF i, lb
  <2>2. CASE op = 63
    <3>1. i = sw
      BY <1>2, <1>4, <2>0, <2>2
    <3>2. dmode = "implied"
      BY <1>6, <1>7, <2>2
    <3> QED
      BY <1>3, <3>1, <3>2, InherentInsnIs, Zenon DEF i, sw
  <2>3. CASE op \notin 33..47 /\ op # 63
    <3>1. i = NoInsn(0)
      BY <1>1, <1>2, <1>4, <1>7, <2>3
    <3> QED
      BY <3>1, NoInsnIs DEF i
  <2> QED
    BY <2>1, <2>2, <2>3
<1>8. CASE op >= 128
  <2>1. row \in {8, 9, 10, 11, 12, 13, 14, 15} /\ op \notin 33..47 /\ op # 63 /\ (op < 192 <=> row < 12)
    BY <1>1, <1>2, <1>8
  <2>2. CASE row < 12 /\ (n = 3 \/ n = 12)
    <3>1. i = Insn("cmp16", "D", WordMode(row), WordClk(row))
          \/ i = Insn("cmp16", "Y", WordMode(row), WordClk(row))
      BY <1>4, <2>1, <2>2
    <3>2. dmode = WordMode(row)
      BY <1>1, <1>5, <1>8, <2>1, <2>2, WordModeIs
    <3> QED
      BY <1>3, <2>1, <3>1, <3>2, WordModeIs, WordInsnIs DEF i
  <2>3. CASE (row = 8 \/ row = 12) /\ n = 14
    <3>1. i = Insn("ld16", reg, "imm_word", 4)
      BY <1>4, <2>1, <2>3
    <3>2. dmode = "imm_word"
      BY <1>1, <1>5, <1>8, <2>1, <2>3
    <3>3. Costs("imm_word", 4) /\ Agrees("imm_word", dmode)
      BY <3>2 DEF Costs, Agrees
    <3> QED
      BY <1>3, <3>1, <3>3, WordInsnIs DEF i
  <2>4. CASE row # 8 /\ row # 12 /\ n = 14
    <3>1. i = Insn("ld16", reg, WordMode(row), WordClk(row))
      BY <1>4, <2>1, <2>4
    <3>2. dmode = WordMode(row)
      BY <1>1, <1>5, <1>8, <2>1, <2>4, WordModeIs
    <3> QED
      BY <1>3, <2>1, <3>1, <3>2, WordModeIs, WordInsnIs DEF i
  <2>5. CASE row # 8 /\ row # 12 /\ n = 15
    <3>1. i = Insn("st16", reg, WordMode(row), WordClk(row))
      BY <1>4, <2>1, <2>5
    <3>2. dmode = WordMode(row)
      BY <1>1, <1>5, <1>8, <2>1, <2>5, WordModeIs
    <3> QED
      BY <1>3, <2>1, <2>5, <3>1, <3>2, WordModeIs, St16Is DEF i
  <2>6. CASE /\ row < 12 => n # 3 /\ n # 12
             /\ n # 14 /\ (n = 15 => row = 8 \/ row = 12)
    <3>1. i = NoInsn(0)
      BY <1>4, <2>1, <2>6
    <3> QED
      BY <3>1, NoInsnIs DEF i
  <2> QED
    BY <2>1, <2>2, <2>3, <2>4, <2>5, <2>6
<1> QED
  BY <1>2, <1>7, <1>8

\* The opcodes behind the prefix 11.
LEMMA Page11Is ==
  ASSUME NEW op \in Byte, NEW dmode,
         dmode = IF op < 128 THEN codes11_00_7F(op) ELSE codes11_80_FF(op)
  PROVE  Decoded(page_11(op), dmode)
<1> DEFINE row == op \div 16
           n == op % 16
           i == page_11(op)
           sw == Insn("swi3", "", "inherent", 0)
<1>1. row \in Nibble /\ n \in Nibble /\ op = 16 * row + n /\ (op < 128 <=> row < 8)
  BY RowsOf
<1>2. row \in Nat /\ row < 16 /\ n \in Nat /\ n < 16 /\ op \in Int
  BY <1>1 DEF Nibble
<1>3. "U" \in DataRegs /\ "S" \in DataRegs /\ "cmp16" \in WordOps /\ "swi3" \in InherentOps
  BY DEF DataRegs, WordOps, InherentOps
<1>4. i = CASE op = 63 -> sw
        [] row \in 8..11 /\ n = 3  -> Insn("cmp16", "U", WordMode(row), WordClk(row))
        [] row \in 8..11 /\ n = 12 -> Insn("cmp16", "S", WordMode(row), WordClk(row))
        [] OTHER -> NoInsn(0)
  BY DEF page_11
<1>5. op >= 128 => dmode =
        CASE op >= 192 \/ n \notin {3, 12} -> "illegal"
          [] op < 192 /\ n \in {3, 12} -> IF op < 144 THEN "imm_word" ELSE MemoryMode[row % 4]
  BY <1>2 DEF codes11_80_FF
<1>6. op < 128 => dmode = IF op = 63 THEN "implied" ELSE "illegal"
  BY <1>2 DEF codes11_00_7F
<1> HIDE DEF row, n, i, sw
<1>7. CASE op = 63
  <2>1. row # 8 /\ row # 9 /\ row # 10 /\ row # 11
    BY <1>1, <1>2, <1>7
  <2>2. i = sw
    BY <1>2, <1>4, <1>7, <2>1
  <2>3. dmode = "implied"
    BY <1>6, <1>7
  <2> QED
    BY <1>3, <2>2, <2>3, InherentInsnIs, Zenon DEF i, sw
<1>8. CASE op >= 128 /\ row < 12 /\ (n = 3 \/ n = 12)
  <2>1. row \in {8, 9, 10, 11, 12, 13, 14, 15} /\ op # 63 /\ op < 192 /\ (op < 144 <=> row = 8)
    BY <1>1, <1>2, <1>8
  <2>2. i = Insn("cmp16", "U", WordMode(row), WordClk(row))
        \/ i = Insn("cmp16", "S", WordMode(row), WordClk(row))
    BY <1>4, <1>8, <2>1
  <2>3. dmode = WordMode(row)
    BY <1>1, <1>5, <1>8, <2>1, WordModeIs
  <2> QED
    BY <1>3, <2>1, <2>2, <2>3, WordModeIs, WordInsnIs DEF i
<1>9. CASE op # 63 /\ (op < 128 \/ row >= 12 \/ (n # 3 /\ n # 12))
  <2>1. i = NoInsn(0)
    BY <1>1, <1>2, <1>4, <1>9
  <2> QED
    BY <2>1, NoInsnIs DEF i
<1> QED
  BY <1>2, <1>7, <1>8, <1>9

\* Whatever the bytes at PC are.
LEMMA DecodeIs ==
  ASSUME NEW c \in Cpu
  PROVE  Decoded(Decode(c), DasmMode(read8(c, c.PC), read8(c, c.PC + 1)))
<1> DEFINE op == read8(c, c.PC)
           op2 == read8(c, c.PC + 1)
<1>1. op \in Byte /\ op2 \in Byte
  <2>1. c.PC \in Int /\ c.PC + 1 \in Int
    BY CpuIs
  <2> QED
    BY <2>1, ReadIs
<1>2. Decode(c) = CASE op = 16 -> page_10(op2) [] op = 17 -> page_11(op2) [] OTHER -> page_0(op)
  BY DEF Decode
<1> HIDE DEF op, op2
<1>3. CASE op = 16
  <2>1. DasmMode(op, op2) = IF op2 < 128 THEN codes10_00_7F(op2) ELSE codes10_80_FF(op2)
    BY <1>3 DEF DasmMode
  <2> QED
    BY <1>1, <1>2, <1>3, <2>1, Page10Is DEF op, op2
<1>4. CASE op = 17
  <2>1. DasmMode(op, op2) = IF op2 < 128 THEN codes11_00_7F(op2) ELSE codes11_80_FF(op2)
    BY <1>4 DEF DasmMode
  <2> QED
    BY <1>1, <1>2, <1>4, <2>1, Page11Is DEF op, op2
<1>5. CASE op # 16 /\ op # 17
  BY <1>1, <1>2, <1>5, Page0Is DEF op, op2
<1> QED
  BY <1>3, <1>4, <1>5

\* The CPU and dasm() agree on the length of every instruction.
LEMMA LengthIs ==
  ASSUME NEW c \in Cpu, Decode(c).op # "invalid"
  PROVE  InsnLength(c) = OpcodeBytes(c)
                         + OperandBytes(Decode(c).mode, imm_byte(Advance(c, OpcodeBytes(c))))
<1> DEFINE n == OpcodeBytes(c)
           b == Advance(c, n)
           mode == Decode(c).mode
           dmode == DasmMode(read8(c, c.PC), read8(c, c.PC + 1))
           post == imm_byte(b)
<1>1. Agrees(mode, dmode)
  BY DecodeIs DEF Decoded
<1>2. n \in Nat /\ (n = IF read8(c, c.PC) \in {16, 17} THEN 2 ELSE 1)
  BY DEF OpcodeBytes
<1> HIDE DEF n
<1>3. b.PC = c.PC + n /\ b.mem = c.mem
  <2>1. Changed(c, b, JustPC) /\ b.PC = c.PC + n
    BY <1>2, AdvanceIs
  <2> HIDE DEF b
  <2> QED
    BY <2>1 DEF Changed, Names, JustPC
<1>4. post = read8(c, c.PC + n)
  <2> HIDE DEF b
  <2> QED
    BY <1>3, SameMemory DEF imm_byte
<1>5. InsnLength(c) = n + CASE dmode \in {"illegal", "implied"} -> 0
                            [] dmode \in {"imm_word", "extended", "rel_word"} -> 2
                            [] dmode = "indexed" -> 1 + DasmIndexed(post)
                            [] OTHER -> 1
  BY <1>2, <1>4 DEF InsnLength, dasm
<1> HIDE DEF mode, dmode, post
<1>6. Decode(c).mode \in {"direct", "indexed", "extended", "imm_byte", "imm_word", "rel_byte", "rel_word",
                          "inherent", "post"}
  BY DecodeIs DEF Decoded, Shape, UnaryShape, ByteShape, WordShape, StoreShape, LeaShape, AccShape,
                  JumpShape, BranchShape, PlainShape, MemModes
<1>7. OperandBytes(mode, post) = CASE dmode \in {"illegal", "implied"} -> 0
                            [] dmode \in {"imm_word", "extended", "rel_word"} -> 2
                            [] dmode = "indexed" -> 1 + DasmIndexed(post)
                            [] OTHER -> 1
  BY <1>1, <1>6 DEF OperandBytes, Agrees, mode
<1> QED
  BY <1>5, <1>7 DEF n, mode, post

-----------------------------------------------------------------------------
(* Steps. *)

\* The processor past the opcode, and the end of the instruction as dasm()
\* has it.
Fetched == Advance(cpu, OpcodeBytes(cpu))
After   == cpu.PC + InsnLength(cpu)

\* The processor past the opcode is the processor, but for PC.
LEMMA FetchIs ==
  ASSUME cpu \in Cpu
  PROVE  /\ OpcodeBytes(cpu) \in Nat
         /\ Fetched \in Cpu /\ Fetched.PC = cpu.PC + OpcodeBytes(cpu)
         /\ Fetched.cycles = cpu.cycles /\ Fetched.f = cpu.f /\ Fetched.EFI = cpu.EFI
         /\ Fetched.mem = cpu.mem /\ Fetched.waiting = cpu.waiting
         /\ Get(Fetched, "CC") = Get(cpu, "CC")
<1>1. OpcodeBytes(cpu) \in Nat
  BY DEF OpcodeBytes
<1>2. /\ Fetched \in Cpu /\ Fetched.PC = cpu.PC + OpcodeBytes(cpu)
      /\ Fetched.cycles = cpu.cycles /\ Fetched.f = cpu.f /\ Fetched.EFI = cpu.EFI
      /\ Fetched.mem = cpu.mem /\ Fetched.waiting = cpu.waiting
  BY <1>1, AdvanceIs DEF Fetched, Changed, Names, JustPC
<1>3. Get(Fetched, "CC") = Get(cpu, "CC")
  BY <1>2 DEF Get
<1> QED
  BY <1>1, <1>2, <1>3

\* dasm() has the instruction end behind its operand.
LEMMA AfterIs ==
  ASSUME cpu \in Cpu, Decode(cpu).op # "invalid"
  PROVE  After = Fetched.PC + OperandBytes(Decode(cpu).mode, imm_byte(Fetched))
<1> DEFINE k == OperandBytes(Decode(cpu).mode, imm_byte(Fetched))
<1>1. InsnLength(cpu) = OpcodeBytes(cpu) + k
  BY LengthIs DEF Fetched
<1>2. k \in Nat
  BY DEF OperandBytes, DasmIndexed
<1> HIDE DEF k
<1>3. cpu.PC \in Int /\ OpcodeBytes(cpu) \in Int /\ Fetched.PC = cpu.PC + OpcodeBytes(cpu)
  BY CpuIs, FetchIs
<1>4. After = Fetched.PC + k
  BY <1>1, <1>2, <1>3 DEF After
<1> QED
  BY <1>4 DEF k

\* The instructions that need not go on behind themselves, and those with flags.
Elsewhere == {"branch", "long_branch", "jsr", "bsr", "lbsr", "swi", "swi2", "swi3", "cwai"}
AluOps    == UnaryOps \cup ByteOps \cup WordOps

\* Which instructions set flags, and which go elsewhere.
LEMMA KindsAre ==
  /\ \A op \in AluOps : op \notin Elsewhere /\ op # "invalid"
  /\ \A op \in {"st", "st16", "lea", "daa", "sex", "mul", "jmp", "lbra", "nop", "rts", "abx", "rti",
                "orcc", "andcc", "sync", "invalid", "pshs", "puls", "pshu", "pulu", "exg", "tfr"} :
       op \notin Elsewhere /\ op \notin AluOps
  /\ \A op \in Elsewhere : op \notin AluOps /\ op # "invalid"
BY DEF AluOps, UnaryOps, ByteOps, WordOps, Elsewhere

\* FlagsRight asks nothing of the other instructions.
LEMMA FlagsElsewhere ==
  ASSUME Decode(cpu).op \notin AluOps
  PROVE  FlagsRight
BY DEF FlagsRight, AluOps

\* BranchRight asks nothing of what is no branch.
LEMMA BranchElsewhere ==
  ASSUME Decode(cpu).op \notin Elsewhere
  PROVE  BranchRight
BY DEF BranchRight, Elsewhere

\* What LandsAfter asks of an instruction that goes nowhere else.
LEMMA LandsStraight ==
  ASSUME Decode(cpu).op \notin Elsewhere,
         Straight(Decode(cpu), read8(cpu, cpu.PC + 1)) => cpu'.PC = After
  PROVE  LandsAfter
BY DEF LandsAfter, Elsewhere, After

Ticks == cpu' \in Cpu /\ (cpu'.stopped = TRUE \/ cpu'.cycles > cpu.cycles)

\* An instruction of one operand takes time and ends where dasm() says.
LEMMA DoneIs ==
  ASSUME cpu \in Cpu, Decode(cpu).op # "invalid", Done(Fetched, cpu', Decode(cpu).mode)
  PROVE  Ticks /\ cpu'.PC = After
BY FetchIs, AfterIs DEF Done, Ticks

\* What the shape of an instruction is follows from its operation.
LEMMA ShapeOf ==
  ASSUME NEW i, Shape(i)
  PROVE  /\ i.op \in UnaryOps => UnaryShape(i)
         /\ i.op \in ByteOps => ByteShape(i)
         /\ i.op \in WordOps => WordShape(i)
         /\ i.op \in {"st", "st16"} => StoreShape(i)
         /\ i.op = "lea" => LeaShape(i)
         /\ i.op \in {"daa", "sex", "mul"} => AccShape(i)
         /\ i.op \in {"jmp", "jsr"} => JumpShape(i)
         /\ i.op \in {"branch", "long_branch", "lbra"} => BranchShape(i)
         /\ i.op \in PostOps \cup InherentOps \cup CodeOps \cup {"bsr", "lbsr", "sync", "invalid"}
              => PlainShape(i)
<1>1. i.op \in UnaryOps => UnaryShape(i)
  BY DEF Shape, UnaryOps, ByteShape, ByteOps, WordShape, WordOps, StoreShape, LeaShape, AccShape,
         JumpShape, BranchShape, PlainShape, PostOps, InherentOps, CodeOps
<1>2. i.op \in ByteOps => ByteShape(i)
  BY DEF Shape, UnaryOps, UnaryShape, ByteOps, WordShape, WordOps, StoreShape, LeaShape, AccShape,
         JumpShape, BranchShape, PlainShape, PostOps, InherentOps, CodeOps
<1>3. i.op \in WordOps => WordShape(i)
  BY DEF Shape, UnaryOps, UnaryShape, ByteOps, ByteShape, WordOps, StoreShape, LeaShape, AccShape,
         JumpShape, BranchShape, PlainShape, PostOps, InherentOps, CodeOps
<1>4. i.op \in {"st", "st16"} => StoreShape(i)
  BY DEF Shape, UnaryOps, UnaryShape, ByteOps, ByteShape, WordOps, WordShape, LeaShape, AccShape,
         JumpShape, BranchShape, PlainShape, PostOps, InherentOps, CodeOps
<1>5. i.op = "lea" => LeaShape(i)
  BY DEF Shape, UnaryOps, UnaryShape, ByteOps, ByteShape, WordOps, WordShape, StoreShape, AccShape,
         JumpShape, BranchShape, PlainShape, PostOps, InherentOps, CodeOps
<1>6. i.op \in {"daa", "sex", "mul"} => AccShape(i)
  BY DEF Shape, UnaryOps, UnaryShape, ByteOps, ByteShape, WordOps, WordShape, StoreShape, LeaShape,
         JumpShape, BranchShape, PlainShape, PostOps, InherentOps, CodeOps
<1>7. i.op \in {"jmp", "jsr"} => JumpShape(i)
  BY DEF Shape, UnaryOps, UnaryShape, ByteOps, ByteShape, WordOps, WordShape, StoreShape, LeaShape,
         AccShape, BranchShape, PlainShape, PostOps, InherentOps, CodeOps
<1>8. i.op \in {"branch", "long_branch", "lbra"} => BranchShape(i)
  BY DEF Shape, UnaryOps, UnaryShape, ByteOps, ByteShape, WordOps, WordShape, StoreShape, LeaShape,
         AccShape, JumpShape, PlainShape, PostOps, InherentOps, CodeOps
<1>9. i.op \in PostOps \cup InherentOps \cup CodeOps \cup {"bsr", "lbsr", "sync", "invalid"}
        => PlainShape(i)
  BY DEF Shape, UnaryOps, UnaryShape, ByteOps, ByteShape, WordOps, WordShape, StoreShape, LeaShape,
         AccShape, JumpShape, BranchShape, PostOps, InherentOps, CodeOps
<1> QED
  BY <1>1, <1>2, <1>3, <1>4, <1>5, <1>6, <1>7, <1>8, <1>9

\* What is decoded has its shape.
LEMMA ShapeIs ==
  ASSUME cpu \in Cpu
  PROVE  Shape(Decode(cpu))
BY DecodeIs DEF Decoded

\* No prefixed instruction has a post-byte.
LEMMA PrefixIs ==
  ASSUME cpu \in Cpu, Decode(cpu).op \in PostOps
  PROVE  OpcodeBytes(cpu) = 1
<1> DEFINE op == read8(cpu, cpu.PC)
           op2 == read8(cpu, cpu.PC + 1)
<1>1. ASSUME NEW n PROVE page_10(n).op \notin PostOps
  BY <1>1, Zenon DEF page_10, Insn, NoInsn, PostOps
<1>2. ASSUME NEW n PROVE page_11(n).op \notin PostOps
  BY <1>2, Zenon DEF page_11, Insn, NoInsn, PostOps
<1> HIDE DEF op, op2
<1>3. op = 16 => Decode(cpu) = page_10(op2)
  BY DEF Decode, op, op2
<1>4. op = 17 => Decode(cpu) = page_11(op2)
  BY DEF Decode, op, op2
<1>5. op # 16 /\ op # 17
  BY <1>1, <1>2, <1>3, <1>4
<1> QED
  BY <1>5 DEF OpcodeBytes, op

\* What every step does: the clock runs, the flags are right, the next
\* instruction is the one dasm() expects, a branch goes where the operands
\* last compared say, and the flags go on telling how those compare.
Right == /\ Ticks /\ FlagsRight /\ LandsAfter /\ BranchRight
         /\ Compared(cpu'.f, last')

\* With nothing to remember nothing is to be ordered.
LEMMA ForgetIs ==
  ASSUME Forget
  PROVE  Compared(cpu'.f, last')
BY DEF Forget, Compared

\* An instruction of one operand.
LEMMA StraightIs ==
  ASSUME cpu \in Cpu, Decode(cpu).op # "invalid", Decode(cpu).op \notin Elsewhere,
         Done(Fetched, cpu', Decode(cpu).mode)
  PROVE  Ticks /\ LandsAfter /\ BranchRight
BY DoneIs, LandsStraight, BranchElsewhere

\* NEG to CLR, in a register or in memory.
LEMMA UnaryStep ==
  ASSUME cpu \in Cpu, Decode(cpu).op \in UnaryOps, cpu' = ExecUnary(Fetched, Decode(cpu))
  PROVE  Done(Fetched, cpu', Decode(cpu).mode) /\ FlagsRight
<1> DEFINE i == Decode(cpu)
           c == Fetched
           e == EA(c, i.mode)
           old == Get(cpu, "CC")
<1>1. UnaryShape(i)
  BY ShapeIs, ShapeOf
<1>2. c \in Cpu /\ Get(c, "CC") = old
  BY FetchIs
<1>3. i.op \notin ByteOps /\ i.op \notin WordOps
  BY OpsAre
<1>4. CASE i.mode = "inherent"
  <2>1. i.reg \in Accumulators /\ i.clk = 0
    BY <1>1, <1>4 DEF UnaryShape, MemModes
  <2> DEFINE x == Get(c, i.reg)
  <2>2. /\ Done(c, cpu', i.mode)
        /\ Get(cpu', "CC") = IdealCC(i.op, x, 0, Get(c, "CC"))
        /\ i.op \notin TestOps => Get(cpu', i.reg) = IdealResult(i.op, x, 0, CarryIn(i.op, Get(c, "CC")))
    BY <1>2, <1>4, <2>1, ExecInherentIs
  <2>3. /\ Get(cpu', "CC") = IdealCC(i.op, x, 0, old)
        /\ i.op \notin TestOps => Get(cpu', i.reg) = IdealResult(i.op, x, 0, CarryIn(i.op, old))
    BY <2>2, <1>2
  <2>4. FlagsRight
    BY <1>3, <1>4, <2>3 DEF FlagsRight, Fetched
  <2> QED
    BY <2>2, <2>4
<1>5. CASE i.mode # "inherent"
  <2>1. i.mode \in MemModes /\ i.clk \in Int /\ Costs(i.mode, i.clk + 2)
    BY <1>1, <1>5 DEF UnaryShape
  <2> DEFINE x == read8(e.c, e.ea)
  <2>2. /\ Done(c, cpu', i.mode)
        /\ Get(cpu', "CC") = IdealCC(i.op, x, 0, Get(c, "CC"))
        /\ i.op \notin TestOps => read8(cpu', e.ea) = IdealResult(i.op, x, 0, CarryIn(i.op, Get(c, "CC")))
    BY <1>2, <1>5, <2>1, ExecUnaryIs
  <2>3. /\ Get(cpu', "CC") = IdealCC(i.op, x, 0, old)
        /\ i.op \notin TestOps => read8(cpu', e.ea) = IdealResult(i.op, x, 0, CarryIn(i.op, old))
    BY <2>2, <1>2
  <2>4. FlagsRight
    BY <1>3, <1>5, <2>3 DEF FlagsRight, Fetched
  <2> QED
    BY <2>2, <2>4
<1> QED
  BY <1>4, <1>5

\* UnaryInsn is right.
LEMMA UnaryInsnIs ==
  ASSUME cpu \in Cpu, UnaryInsn
  PROVE  Right
<1>1. Decode(cpu).op \in UnaryOps /\ cpu' = ExecUnary(Fetched, Decode(cpu)) /\ Forget
  BY DEF UnaryInsn, Turn, Fetched
<1>2. Decode(cpu).op # "invalid" /\ Decode(cpu).op \notin Elsewhere
  BY <1>1, KindsAre DEF AluOps
<1> QED
  BY <1>1, <1>2, UnaryStep, StraightIs, ForgetIs DEF Right

\* An exact subtraction leaves flags that order what it remembers.
LEMMA ComparedIs ==
  ASSUME NEW op \in SubtractOps, NEW x \in Word, NEW y \in Word, NEW old, NEW f, NEW res,
         Exact(op, x, y, old, [f |-> f, res |-> res]),
         NEW w, w = Width(op), w = 256 => x \in Byte /\ y \in Byte
  PROVE  Compared(f, <<x, y, w>>)
<1> DEFINE r == [f |-> f, res |-> res]
<1>1. r.f = f
  OBVIOUS
<1>2. Exact(op, x, y, old, r)
  OBVIOUS
<1> HIDE DEF r
<1>3. Operands(x, y, w) /\ Orders(r.f, x, y, w)
  BY <1>2, SubtractionOrders
<1> QED
  BY <1>1, <1>3 DEF Compared

\* SUBA to ADDB, and what they remember.
LEMMA ByteStep ==
  ASSUME cpu \in Cpu, Decode(cpu).op \in ByteOps, cpu' = ExecByte(Fetched, Decode(cpu)), Remember
  PROVE  /\ Done(Fetched, cpu', Decode(cpu).mode)
         /\ FlagsRight
         /\ Compared(cpu'.f, last')
<1> DEFINE i == Decode(cpu)
           c == Fetched
           o == ByteOperand(c, i.mode)
           x == Get(o.c, i.reg)
           y == o.val
           old == Get(cpu, "CC")
           r == [f |-> cpu'.f, res |-> IdealResult(i.op, x, y, CarryIn(i.op, old))]
<1>1. ByteShape(i)
  BY ShapeIs, ShapeOf
<1>2. c \in Cpu /\ Get(c, "CC") = old
  BY FetchIs
<1>3. i.op \notin UnaryOps /\ i.op \notin WordOps /\ Width(i.op) = 256
  BY OpsAre
<1>4. /\ Done(c, cpu', i.mode)
      /\ x \in Byte /\ y \in Byte
      /\ Exact(i.op, x, y, old, r)
      /\ Get(cpu', "CC") = IdealCC(i.op, x, y, old)
      /\ i.op \notin TestOps => Get(cpu', i.reg) = IdealResult(i.op, x, y, CarryIn(i.op, old))
  BY <1>1, <1>2, ExecByteIs DEF ByteShape
<1>5. FlagsRight
  BY <1>3, <1>4 DEF FlagsRight, Fetched
<1>6. Compared(cpu'.f, last')
  <2>1. CASE Subtracts(i)
    <3>1. last' = <<x, y, 256>>
      BY <2>1 DEF Remember, Subtrahends, Fetched
    <3>2. i.op \in SubtractOps
      BY <2>1 DEF Subtracts, SubtractOps
    <3> DEFINE res == IdealResult(i.op, x, y, CarryIn(i.op, old))
               w == Width(i.op)
    <3> HIDE DEF x, y, old, i, o, c, res
    <3>3. Exact(i.op, x, y, old, [f |-> cpu'.f, res |-> res])
      BY <1>4 DEF res
    <3>4. x \in Word /\ y \in Word /\ x \in Byte /\ y \in Byte
      BY <1>4 DEF Byte, Word
    <3>5. w = 256 /\ (w = 256 => x \in Byte /\ y \in Byte)
      BY <1>3, <3>4
    <3> HIDE DEF w
    <3>6. Compared(cpu'.f, <<x, y, w>>)
      BY <3>2, <3>3, <3>4, <3>5, ComparedIs DEF w
    <3> QED
      BY <3>1, <3>5, <3>6
  <2>2. CASE ~Subtracts(i)
    BY <2>2 DEF Remember, Compared
  <2> QED
    BY <2>1, <2>2
<1> QED
  BY <1>4, <1>5, <1>6

\* ADDD to LDS, and what they remember.
LEMMA WordStep ==
  ASSUME cpu \in Cpu, Decode(cpu).op \in WordOps, cpu' = ExecWord(Fetched, Decode(cpu)), Remember
  PROVE  /\ Done(Fetched, cpu', Decode(cpu).mode)
         /\ FlagsRight
         /\ Compared(cpu'.f, last')
<1> DEFINE i == Decode(cpu)
           c == Fetched
           o == WordOperand(c, i.op, i.mode)
           x == Get(o.c, i.reg)
           y == o.val
           old == Get(cpu, "CC")
           r == [f |-> cpu'.f, res |-> IdealResult(i.op, x, y, CarryIn(i.op, old))]
<1>1. WordShape(i)
  BY ShapeIs, ShapeOf
<1>2. c \in Cpu /\ Get(c, "CC") = old
  BY FetchIs
<1>3. i.op \notin UnaryOps /\ i.op \notin ByteOps /\ Width(i.op) = 65536
  BY OpsAre DEF Width
<1>a. i.reg \in WordRegs /\ i.reg # "PC"
  BY <1>1 DEF WordShape, DataRegs, WordRegs
<1>4. /\ Done(c, cpu', i.mode)
      /\ x \in Word /\ y \in Word
      /\ Exact(i.op, x, y, old, r)
      /\ Get(cpu', "CC") = IdealCC(i.op, x, y, old)
      /\ i.op \notin TestOps => Get(cpu', i.reg) = IdealResult(i.op, x, y, CarryIn(i.op, old))
  BY <1>1, <1>a, <1>2, ExecWordIs DEF WordShape
<1>5. FlagsRight
  BY <1>3, <1>4 DEF FlagsRight, Fetched
<1>6. Compared(cpu'.f, last')
  <2>1. CASE Subtracts(i)
    <3>1. last' = <<x, y, 65536>>
      BY <1>3, <2>1 DEF Remember, Subtrahends, Fetched
    <3>2. i.op \in SubtractOps
      BY <2>1 DEF Subtracts, SubtractOps
    <3> DEFINE res == IdealResult(i.op, x, y, CarryIn(i.op, old))
               w == Width(i.op)
    <3> HIDE DEF x, y, old, i, o, c, res
    <3>3. Exact(i.op, x, y, old, [f |-> cpu'.f, res |-> res])
      BY <1>4 DEF res
    <3>4. x \in Word /\ y \in Word
      BY <1>4
    <3>5. w = 65536 /\ (w = 256 => x \in Byte /\ y \in Byte)
      BY <1>3, <3>4
    <3> HIDE DEF w
    <3>6. Compared(cpu'.f, <<x, y, w>>)
      BY <3>2, <3>3, <3>4, <3>5, ComparedIs DEF w
    <3> QED
      BY <3>1, <3>5, <3>6
  <2>2. CASE ~Subtracts(i)
    BY <2>2 DEF Remember, Compared
  <2> QED
    BY <2>1, <2>2
<1> QED
  BY <1>4, <1>5, <1>6

\* ByteInsn is right.
LEMMA ByteInsnIs ==
  ASSUME cpu \in Cpu, ByteInsn
  PROVE  Right
<1>1. Decode(cpu).op \in ByteOps /\ cpu' = ExecByte(Fetched, Decode(cpu)) /\ Remember
  BY DEF ByteInsn, Turn, Fetched
<1>2. Decode(cpu).op # "invalid" /\ Decode(cpu).op \notin Elsewhere
  BY <1>1, KindsAre DEF AluOps
<1> QED
  BY <1>1, <1>2, ByteStep, StraightIs DEF Right

\* WordInsn is right.
LEMMA WordInsnRight ==
  ASSUME cpu \in Cpu, WordInsn
  PROVE  Right
<1>1. Decode(cpu).op \in WordOps /\ cpu' = ExecWord(Fetched, Decode(cpu)) /\ Remember
  BY DEF WordInsn, Turn, Fetched
<1>2. Decode(cpu).op # "invalid" /\ Decode(cpu).op \notin Elsewhere
  BY <1>1, KindsAre DEF AluOps
<1> QED
  BY <1>1, <1>2, WordStep, StraightIs DEF Right

\* StoreInsn is right.
LEMMA StoreInsnRight ==
  ASSUME cpu \in Cpu, StoreInsn
  PROVE  Right
<1>1. Decode(cpu).op \in {"st", "st16"} /\ cpu' = ExecStore(Fetched, Decode(cpu)) /\ Forget
  BY DEF StoreInsn, Turn, Fetched
<1>2. Decode(cpu).op # "invalid" /\ Decode(cpu).op \notin Elsewhere /\ Decode(cpu).op \notin AluOps
  BY <1>1, KindsAre
<1>3. StoreShape(Decode(cpu))
  BY <1>1, ShapeIs, ShapeOf
<1> DEFINE i == Decode(cpu)
<1>4. /\ \/ i.op = "st" /\ i.reg \in Accumulators
         \/ i.op = "st16" /\ i.reg \in WordRegs
      /\ i.mode \in MemModes /\ Costs(i.mode, i.clk)
  BY <1>3 DEF StoreShape, DataRegs, WordRegs
<1>5. Done(Fetched, cpu', i.mode)
  BY <1>1, <1>4, FetchIs, ExecStoreIs
<1> QED
  BY <1>1, <1>2, <1>5, StraightIs, FlagsElsewhere, ForgetIs DEF Right

\* LeaInsn is right.
LEMMA LeaInsnRight ==
  ASSUME cpu \in Cpu, LeaInsn
  PROVE  Right
<1>1. Decode(cpu).op = "lea" /\ cpu' = ExecLea(Fetched, Decode(cpu)) /\ Forget
  BY DEF LeaInsn, Turn, Fetched
<1>2. Decode(cpu).op # "invalid" /\ Decode(cpu).op \notin Elsewhere /\ Decode(cpu).op \notin AluOps
  BY <1>1, KindsAre
<1>3. LeaShape(Decode(cpu))
  BY <1>1, ShapeIs, ShapeOf
<1>4. Done(Fetched, cpu', Decode(cpu).mode)
  BY <1>1, <1>3, FetchIs, ExecLeaIs DEF LeaShape
<1> QED
  BY <1>1, <1>2, <1>4, StraightIs, FlagsElsewhere, ForgetIs DEF Right

\* AccInsn is right.
LEMMA AccInsnRight ==
  ASSUME cpu \in Cpu, AccInsn
  PROVE  Right
<1>1. Decode(cpu).op \in {"daa", "sex", "mul"} /\ cpu' = ExecAccumulator(Fetched, Decode(cpu)) /\ Forget
  BY DEF AccInsn, Turn, Fetched
<1>2. Decode(cpu).op # "invalid" /\ Decode(cpu).op \notin Elsewhere /\ Decode(cpu).op \notin AluOps
  BY <1>1, KindsAre
<1>3. AccShape(Decode(cpu))
  BY <1>1, ShapeIs, ShapeOf
<1>4. Done(Fetched, cpu', Decode(cpu).mode)
  BY <1>1, <1>3, FetchIs, ExecAccumulatorIs DEF AccShape
<1> QED
  BY <1>1, <1>2, <1>4, StraightIs, FlagsElsewhere, ForgetIs DEF Right

\* An instruction that need not go on behind itself is right once it takes time.
LEMMA TicksIs ==
  ASSUME cpu \in Cpu, NEW op, Decode(cpu).op = op, op \in {"jmp", "rts", "rti", "sync", "invalid"},
         Ticks, Forget
  PROVE  Right
<1>1. op \notin Elsewhere /\ op \notin AluOps
  BY KindsAre
<1>2. ~Straight(Decode(cpu), read8(cpu, cpu.PC + 1))
  BY <1>1 DEF Straight, AluOps
<1>3. LandsAfter
  BY <1>1, <1>2, LandsStraight
<1> QED
  BY <1>1, <1>3, FlagsElsewhere, BranchElsewhere, ForgetIs DEF Right

\* InvalidInsn is right: it stops.
LEMMA InvalidInsnRight ==
  ASSUME cpu \in Cpu, InvalidInsn
  PROVE  Right
<1>1. Decode(cpu).op \in {"sync", "invalid"} /\ cpu' = Invalid(Fetched, Decode(cpu)) /\ Forget
  BY DEF InvalidInsn, Turn, Fetched
<1>2. PlainShape(Decode(cpu))
  BY <1>1, ShapeIs, ShapeOf
<1>3. Decode(cpu).clk \in Int
  BY <1>1, <1>2 DEF PlainShape, PostOps, InherentOps, CodeOps
<1>4. cpu' \in Cpu /\ cpu'.stopped = TRUE
  BY <1>1, <1>3, FetchIs, InvalidIs, Zenon
<1> QED
  BY <1>1, <1>4, TicksIs, Zenon DEF Ticks

\* A call is right when it stacks the address dasm() has for its end.
LEMMA CalledIs ==
  ASSUME cpu \in Cpu, Decode(cpu).op \in {"jsr", "bsr", "lbsr"}, Ticks, Forget,
         RDMEM16(cpu', cpu'.S) = After % 65536
  PROVE  Right
<1>1. Decode(cpu).op \notin AluOps
  BY KindsAre DEF Elsewhere
<1>2. BranchRight
  BY DEF BranchRight
<1>3. ~Straight(Decode(cpu), read8(cpu, cpu.PC + 1))
  BY <1>1 DEF Straight, AluOps
<1>4. LandsAfter
  BY <1>3 DEF LandsAfter, After
<1> QED
  BY <1>1, <1>2, <1>4, FlagsElsewhere, ForgetIs DEF Right

\* JumpInsn is right.
LEMMA JumpInsnRight ==
  ASSUME cpu \in Cpu, JumpInsn
  PROVE  Right
<1> DEFINE i == Decode(cpu)
           c == Fetched
<1>1. Forget
  BY DEF JumpInsn
<1>2. c \in Cpu /\ c.cycles = cpu.cycles
  BY FetchIs
<1>3. CASE i.op = "jmp" /\ cpu' = jmp(c, i)
  <2>1. JumpShape(i)
    BY <1>3, ShapeIs, ShapeOf
  <2>3. i.mode \in MemModes /\ Costs(i.mode, i.clk)
    BY <2>1 DEF JumpShape
  <2>4. cpu' \in Cpu /\ (cpu'.stopped = TRUE \/ cpu'.cycles > c.cycles)
    BY <1>2, <1>3, <2>3, JmpIs, Zenon
  <2>2. Ticks
    BY <1>2, <2>4 DEF Ticks
  <2> QED
    BY <1>1, <1>3, <2>2, TicksIs
<1>4. CASE i.op = "jsr" /\ cpu' = jsr(c, i)
  <2>1. JumpShape(i)
    BY <1>4, ShapeIs, ShapeOf
  <2>2. /\ Ticks
        /\ RDMEM16(cpu', cpu'.S) = (c.PC + OperandBytes(i.mode, imm_byte(c))) % 65536
    <3>1. i.mode \in MemModes /\ Costs(i.mode, i.clk)
      BY <2>1 DEF JumpShape
    <3>2. Calls(c, cpu', i.mode)
      BY <1>2, <1>4, <3>1, JsrIs
    <3> QED
      BY <1>2, <3>2 DEF Ticks, Calls
  <2> QED
    BY <1>1, <1>4, <2>2, AfterIs, CalledIs
<1>5. CASE i.op = "bsr" /\ cpu' = bsr(c, i)
  <2>1. PlainShape(i)
    BY <1>5, ShapeIs, ShapeOf
  <2>2. i.mode = "rel_byte"
    BY <1>5, <2>1 DEF PlainShape, PostOps, InherentOps, CodeOps
  <2>3. After = c.PC + 1
    BY <1>5, <2>2, AfterIs DEF OperandBytes
  <2>4. Stacked(c, cpu', 1)
    BY <1>2, <1>5, BsrIs
  <2> QED
    BY <1>1, <1>2, <1>5, <2>3, <2>4, CalledIs DEF Stacked, Ticks
<1>6. CASE i.op = "lbsr" /\ cpu' = long_bsr(c, i)
  <2>1. PlainShape(i)
    BY <1>6, ShapeIs, ShapeOf
  <2>2. i.mode = "rel_word"
    BY <1>6, <2>1 DEF PlainShape, PostOps, InherentOps, CodeOps
  <2>3. After = c.PC + 2
    BY <1>6, <2>2, AfterIs DEF OperandBytes
  <2>4. Stacked(c, cpu', 2)
    BY <1>2, <1>6, LongBsrIs
  <2> QED
    BY <1>1, <1>2, <1>6, <2>3, <2>4, CalledIs DEF Stacked, Ticks
<1> QED
  BY <1>3, <1>4, <1>5, <1>6 DEF JumpInsn, Turn, Fetched

\* The byte behind the opcode, where there is no prefix.
LEMMA PostByteIs ==
  ASSUME cpu \in Cpu, Decode(cpu).op \in PostOps
  PROVE  /\ imm_byte(Fetched) = read8(cpu, cpu.PC + 1)
         /\ imm_byte(Fetched) \in Byte
         /\ After = Fetched.PC + 1
<1>1. OpcodeBytes(cpu) = 1
  BY PrefixIs
<1>2. /\ Fetched \in Cpu /\ Fetched.mem = cpu.mem /\ Fetched.PC = cpu.PC + 1 /\ Fetched.PC \in Int
  BY <1>1, FetchIs, CpuIs
<1>3. imm_byte(Fetched) = read8(cpu, cpu.PC + 1)
  BY <1>2, SameMemory DEF imm_byte
<1>4. imm_byte(Fetched) \in Byte
  BY <1>2, ReadIs DEF imm_byte
<1>5. PlainShape(Decode(cpu))
  BY ShapeIs, ShapeOf
<1>6. Decode(cpu).mode = "post" /\ Decode(cpu).op # "invalid"
  BY <1>5 DEF PlainShape, PostOps, InherentOps, CodeOps
<1>7. After = Fetched.PC + 1
  BY <1>6, AfterIs DEF OperandBytes
<1> QED
  BY <1>3, <1>4, <1>7

\* A post-byte below 128 does not name PC.
LEMMA HighBit ==
  ASSUME NEW post \in Byte, post < 128
  PROVE  ~Has(post, 128)
BY DEF Has, Byte

\* An instruction without flags that goes on behind itself, if it should.
LEMMA PlainIs ==
  ASSUME cpu \in Cpu, Decode(cpu).op \notin Elsewhere, Decode(cpu).op \notin AluOps,
         Ticks, Forget, Straight(Decode(cpu), read8(cpu, cpu.PC + 1)) => cpu'.PC = After
  PROVE  Right
BY LandsStraight, FlagsElsewhere, BranchElsewhere, ForgetIs DEF Right

\* StackInsn is right.
LEMMA StackInsnRight ==
  ASSUME cpu \in Cpu, StackInsn
  PROVE  Right
<1> DEFINE i == Decode(cpu)
           c == Fetched
<1>1. Forget
  BY DEF StackInsn
<1>2. c \in Cpu /\ c.cycles = cpu.cycles /\ c.cycles \in Int
  BY FetchIs, CpuIs
<1>3. ASSUME i.op \in {"pshs", "pshu"}, cpu' = pshs(c) \/ cpu' = pshu(c)
      PROVE  Right
  <2>1. cpu' \in Cpu /\ cpu'.PC = c.PC + 1 /\ cpu'.cycles >= c.cycles + 5
    BY <1>2, <1>3, PushAllIs DEF pshs, pshu, Stacks
  <2>2. i.op \in PostOps /\ i.op \notin Elsewhere /\ i.op \notin AluOps
    BY <1>3, KindsAre DEF PostOps
  <2>3. cpu'.PC = After
    BY <2>1, <2>2, PostByteIs
  <2>4. cpu'.cycles \in Int
    BY <2>1, CpuIs
  <2>5. Ticks
    BY <1>2, <2>1, <2>4 DEF Ticks
  <2> QED
    BY <1>1, <2>2, <2>3, <2>5, PlainIs
<1>4. ASSUME i.op \in {"puls", "pulu"}, cpu' = puls(c) \/ cpu' = pulu(c)
      PROVE  Right
  <2>1. /\ cpu' \in Cpu /\ cpu'.cycles >= c.cycles + 5
        /\ ~Has(imm_byte(c), 128) => cpu'.PC = c.PC + 1
    BY <1>2, <1>4, PullAllIs DEF puls, pulu, Stacks
  <2>2. i.op \in PostOps /\ i.op \notin Elsewhere /\ i.op \notin AluOps
    BY <1>4, KindsAre DEF PostOps
  <2> DEFINE post == read8(cpu, cpu.PC + 1)
  <2>3. imm_byte(c) = post /\ post \in Byte /\ After = c.PC + 1
    BY <2>2, PostByteIs
  <2>4. Straight(i, post) => post < 128
    BY <1>4, <2>2 DEF Straight, AluOps
  <2>5. Straight(i, post) => cpu'.PC = After
    BY <2>1, <2>3, <2>4, HighBit
  <2>6. cpu'.cycles \in Int
    BY <2>1, CpuIs
  <2>7. Ticks
    BY <1>2, <2>1, <2>6 DEF Ticks
  <2> QED
    BY <1>1, <2>2, <2>5, <2>7, PlainIs
<1>5. ASSUME i.op = "rts", cpu' = rts(c)
      PROVE  Right
  <2>1. cpu' \in Cpu /\ cpu'.cycles >= c.cycles + 5 /\ cpu'.cycles \in Int
    BY <1>2, <1>5, RtsIs, CpuIs
  <2>2. Ticks
    BY <1>2, <2>1 DEF Ticks
  <2> QED
    BY <1>1, <1>5, <2>2, TicksIs
<1> QED
  BY <1>3, <1>4, <1>5 DEF StackInsn, Plain, Turn, Fetched

\* RegisterInsn is right.
LEMMA RegisterInsnRight ==
  ASSUME cpu \in Cpu, RegisterInsn
  PROVE  Right
<1> DEFINE i == Decode(cpu)
           c == Fetched
           post == read8(cpu, cpu.PC + 1)
<1>1. Forget
  BY DEF RegisterInsn
<1>2. c \in Cpu /\ c.cycles = cpu.cycles /\ c.cycles \in Int
  BY FetchIs, CpuIs
<1>3. CASE i.op = "exg" /\ cpu' = exg(c)
  <2>1. /\ cpu' \in Cpu /\ cpu'.cycles = c.cycles + 8
        /\ imm_byte(c) \div 16 # 5 /\ imm_byte(c) % 16 # 5 => cpu'.PC = c.PC + 1
    BY <1>2, <1>3, ExgIs
  <2>2. i.op \in PostOps /\ i.op \notin Elsewhere /\ i.op \notin AluOps
    BY <1>3, KindsAre DEF PostOps
  <2>3. imm_byte(c) = post /\ After = c.PC + 1
    BY <2>2, PostByteIs
  <2>4. Straight(i, post) => 5 # post \div 16 /\ 5 # post % 16
    BY <1>3, <2>2 DEF Straight, AluOps
  <2>5. Straight(i, post) => cpu'.PC = After
    BY <2>1, <2>3, <2>4
  <2>6. Ticks
    BY <1>2, <2>1 DEF Ticks
  <2> QED
    BY <1>1, <2>2, <2>5, <2>6, PlainIs
<1>4. CASE i.op = "tfr" /\ cpu' = tfr(c)
  <2>1. /\ cpu' \in Cpu /\ cpu'.cycles = c.cycles + 6
        /\ imm_byte(c) % 16 # 5 => cpu'.PC = c.PC + 1
    BY <1>2, <1>4, TfrIs
  <2>2. i.op \in PostOps /\ i.op \notin Elsewhere /\ i.op \notin AluOps
    BY <1>4, KindsAre DEF PostOps
  <2>3. imm_byte(c) = post /\ After = c.PC + 1
    BY <2>2, PostByteIs
  <2>4. Straight(i, post) => 5 # post % 16
    BY <1>4, <2>2 DEF Straight, AluOps
  <2>5. Straight(i, post) => cpu'.PC = After
    BY <2>1, <2>3, <2>4
  <2>6. Ticks
    BY <1>2, <2>1 DEF Ticks
  <2> QED
    BY <1>1, <2>2, <2>5, <2>6, PlainIs
<1>5. ASSUME i.op \in {"abx", "nop"}, cpu' = abx(c) \/ cpu' = Clock(c, 2)
      PROVE  Right
  <2>1. cpu' \in Cpu /\ cpu'.cycles > c.cycles /\ cpu'.PC = c.PC
    BY <1>2, <1>5, AbxIs, NopIs
  <2>2. i.op \in InherentOps /\ i.op \notin Elsewhere /\ i.op \notin AluOps /\ i.op # "invalid"
    BY <1>5, KindsAre DEF InherentOps
  <2>3. PlainShape(i)
    BY <2>2, ShapeIs, ShapeOf
  <2>4. i.mode = "inherent"
    BY <2>2, <2>3 DEF PlainShape, PostOps, InherentOps, CodeOps
  <2>5. Done(c, cpu', i.mode)
    BY <1>2, <2>1, <2>4, CpuIs DEF Done, OperandBytes
  <2> QED
    BY <1>1, <2>2, <2>5, StraightIs, FlagsElsewhere, ForgetIs DEF Right
<1>6. ASSUME i.op \in {"orcc", "andcc"}, cpu' = orcc(c) \/ cpu' = andcc(c)
      PROVE  Right
  <2>1. cpu' \in Cpu /\ cpu'.cycles = c.cycles + 3 /\ cpu'.PC = c.PC + 1
    BY <1>2, <1>6, OrAndIs
  <2>2. i.op \in CodeOps /\ i.op \notin Elsewhere /\ i.op \notin AluOps /\ i.op # "invalid"
    BY <1>6, KindsAre DEF CodeOps
  <2>3. PlainShape(i)
    BY <2>2, ShapeIs, ShapeOf
  <2>4. i.mode = "imm_byte"
    BY <2>2, <2>3 DEF PlainShape, PostOps, InherentOps, CodeOps
  <2>5. Done(c, cpu', i.mode)
    BY <1>2, <2>1, <2>4 DEF Done, OperandBytes
  <2> QED
    BY <1>1, <2>2, <2>5, StraightIs, FlagsElsewhere, ForgetIs DEF Right
<1> QED
  BY <1>3, <1>4, <1>5, <1>6 DEF RegisterInsn, Plain, Turn, Fetched

\* A software interrupt is right when it stacks that address.
LEMMA InterruptedIs ==
  ASSUME cpu \in Cpu, Decode(cpu).op \in {"swi", "swi2", "swi3", "cwai"}, Ticks, Forget,
         \/ RDMEM16(cpu', cpu'.S + 10) = After % 65536
         \/ Decode(cpu).op = "cwai" /\ cpu.waiting
  PROVE  Right
<1>1. Decode(cpu).op \notin AluOps
  BY KindsAre DEF Elsewhere
<1>2. BranchRight
  BY DEF BranchRight
<1>3. ~Straight(Decode(cpu), read8(cpu, cpu.PC + 1))
  BY <1>1 DEF Straight, AluOps
<1>4. LandsAfter
  BY <1>3 DEF LandsAfter, After
<1> QED
  BY <1>1, <1>2, <1>4, FlagsElsewhere, ForgetIs DEF Right

\* The three software interrupts.
LEMMA VectorsAre ==
  ASSUME NEW c \in Cpu, NEW d, d = swi(c) \/ d = swi2(c) \/ d = swi3(c)
  PROVE  d \in Cpu /\ d.cycles >= c.cycles + 19 /\ RDMEM16(d, d.S + 10) = c.PC % 65536
<1>1. ASSUME NEW n, NEW m, NEW v, n \in Nat, m = 0 \/ m = 80, v \in Int, d = SoftwareInterrupt(c, n, m, v)
      PROVE  d \in Cpu /\ d.cycles >= c.cycles + 19 /\ RDMEM16(d, d.S + 10) = c.PC % 65536
  BY <1>1, SoftwareInterruptIs
<1>2. CASE d = swi(c)
  <2> DEFINE n == 0
             m == 80
             v == 65530
  <2>1. d = SoftwareInterrupt(c, n, m, v) /\ n \in Nat /\ (m = 0 \/ m = 80) /\ v \in Int
    BY <1>2 DEF swi
  <2> HIDE DEF n, m, v
  <2> QED
    BY <1>1, <2>1
<1>3. CASE d = swi2(c)
  <2> DEFINE n == 1
             m == 0
             v == 65524
  <2>1. d = SoftwareInterrupt(c, n, m, v) /\ n \in Nat /\ (m = 0 \/ m = 80) /\ v \in Int
    BY <1>3 DEF swi2
  <2> HIDE DEF n, m, v
  <2> QED
    BY <1>1, <2>1
<1>4. CASE d = swi3(c)
  <2> DEFINE n == 1
             m == 0
             v == 65522
  <2>1. d = SoftwareInterrupt(c, n, m, v) /\ n \in Nat /\ (m = 0 \/ m = 80) /\ v \in Int
    BY <1>4 DEF swi3
  <2> HIDE DEF n, m, v
  <2> QED
    BY <1>1, <2>1
<1> QED
  BY <1>2, <1>3, <1>4

\* InterruptInsn is right.
LEMMA InterruptInsnRight ==
  ASSUME cpu \in Cpu, InterruptInsn
  PROVE  Right
<1> DEFINE i == Decode(cpu)
           c == Fetched
<1>1. Forget
  BY DEF InterruptInsn
<1>2. c \in Cpu /\ c.cycles = cpu.cycles /\ c.cycles \in Int /\ c.PC \in Int
  BY FetchIs, CpuIs
<1>3. ASSUME i.op \in {"swi", "swi2", "swi3"}, cpu' = swi(c) \/ cpu' = swi2(c) \/ cpu' = swi3(c)
      PROVE  Right
  <2>1. cpu' \in Cpu /\ cpu'.cycles >= c.cycles + 19 /\ RDMEM16(cpu', cpu'.S + 10) = c.PC % 65536
    BY <1>2, <1>3, VectorsAre
  <2>2. i.op \in InherentOps /\ i.op # "invalid"
    BY <1>3 DEF InherentOps
  <2>3. PlainShape(i)
    BY <2>2, ShapeIs, ShapeOf
  <2>4. i.mode = "inherent"
    BY <2>2, <2>3 DEF PlainShape, PostOps, InherentOps, CodeOps
  <2>5. After = c.PC
    BY <1>2, <2>2, <2>4, AfterIs DEF OperandBytes
  <2>6. cpu'.cycles \in Int
    BY <2>1, CpuIs
  <2>7. Ticks
    BY <1>2, <2>1, <2>6 DEF Ticks
  <2> QED
    BY <1>1, <1>3, <2>1, <2>5, <2>7, InterruptedIs
<1>4. CASE i.op = "rti" /\ cpu' = rti(c)
  <2>1. cpu' \in Cpu /\ cpu'.cycles >= c.cycles + 6 /\ cpu'.cycles \in Int
    BY <1>2, <1>4, RtiIs, CpuIs
  <2>2. Ticks
    BY <1>2, <2>1 DEF Ticks
  <2> QED
    BY <1>1, <1>4, <2>2, TicksIs
<1>5. CASE i.op = "cwai" /\ cpu' = cwai(c)
  <2>1. /\ cpu' \in Cpu /\ cpu'.cycles >= c.cycles + 1
        /\ ~c.waiting => RDMEM16(cpu', cpu'.S + 10) = (c.PC + 1) % 65536
    BY <1>2, <1>5, CwaiIs
  <2>2. c.waiting = cpu.waiting
    BY FetchIs
  <2>3. PlainShape(i)
    BY <1>5, ShapeIs, ShapeOf DEF CodeOps
  <2>4. i.mode = "imm_byte"
    BY <1>5, <2>3 DEF PlainShape, PostOps, InherentOps, CodeOps
  <2>5. After = c.PC + 1
    BY <1>5, <2>4, AfterIs DEF OperandBytes
  <2>6. cpu'.cycles \in Int
    BY <2>1, CpuIs
  <2>7. Ticks
    BY <1>2, <2>1, <2>6 DEF Ticks
  <2>8. ~cpu.waiting => RDMEM16(cpu', cpu'.S + 10) = After % 65536
    BY <2>1, <2>2, <2>5
  <2> QED
    BY <1>1, <1>5, <2>7, <2>8, InterruptedIs
<1> QED
  BY <1>3, <1>4, <1>5 DEF InterruptInsn, Plain, Turn, Fetched

\* A branch keeps the flags, and with them what they tell.
LEMMA GoneIs ==
  ASSUME cpu \in Cpu, NEW pc, NEW n \in Nat, n > 0, Goes(Fetched, cpu', pc, n),
         Compared(cpu.f, last), UNCHANGED last
  PROVE  Ticks /\ cpu'.PC = pc /\ Compared(cpu'.f, last')
<1>1. cpu' \in Cpu /\ cpu'.f = Fetched.f /\ cpu'.PC = pc /\ cpu'.cycles = Fetched.cycles + n
  BY DEF Goes, Changed, Names, JustClockPC
<1>2. Fetched.f = cpu.f /\ Fetched.cycles = cpu.cycles /\ cpu.cycles \in Int
  BY FetchIs, CpuIs
<1> QED
  BY <1>1, <1>2 DEF Ticks

\* A branch on the flags goes as the operands last compared say.
LEMMA TakenIs ==
  ASSUME NEW n, NEW f, NEW l, Compared(f, l), l # NoOperands, n \in Comparisons
  PROVE  cond(n, f) <=> Relation(n, l[1], l[2], l[3])
BY CondIs DEF Compared

\* A signed word and the word itself reach the same address.
LEMMA SameTarget ==
  ASSUME NEW a \in Int, NEW v \in Word
  PROVE  (a + Signed(v, 65536)) % 65536 = (a + v) % 65536
BY DEF Signed, Word

\* BranchInsn is right.
LEMMA BranchInsnRight ==
  ASSUME cpu \in Cpu, BranchInsn, Compared(cpu.f, last)
  PROVE  Right
<1> DEFINE i == Decode(cpu)
           c == Fetched
<1>1. UNCHANGED last
  BY DEF BranchInsn
<1>2. /\ c \in Cpu /\ c.PC \in Int /\ c.PC + 1 \in Int /\ c.PC + 2 \in Int
      /\ c.f = cpu.f /\ c.mem = cpu.mem
  BY FetchIs, CpuIs
<1>3. CASE i.op = "branch" /\ i.reg # 1 /\ cpu' = branch(c, i)
  <2> DEFINE off == Signed(imm_byte(c), 256)
             taken == cond(i.reg, cpu.f)
  <2>1. i.mode = "rel_byte" /\ i.op \notin AluOps
    BY <1>3, ShapeIs, ShapeOf, KindsAre DEF BranchShape, Elsewhere
  <2>2. After = c.PC + 1
    BY <1>3, <2>1, AfterIs DEF OperandBytes
  <2>3. off = Signed(read8(cpu, After - 1), 256) /\ off \in Int
    <3>1. imm_byte(c) = read8(cpu, c.PC) /\ imm_byte(c) \in Byte
      BY <1>2, SameMemory, ReadIs DEF imm_byte
    <3>2. After - 1 = c.PC
      BY <1>2, <2>2
    <3> QED
      BY <3>1, <3>2, SignedIs
  <2>4. Goes(c, cpu', (c.PC + 1 + (IF cond(i.reg, c.f) THEN off ELSE 0)) % 65536, 3)
    BY <1>2, <1>3, BranchIs
  <2>5. Goes(c, cpu', (After + (IF taken THEN off ELSE 0)) % 65536, 3)
    BY <1>2, <2>2, <2>4
  <2> HIDE DEF off, taken
  <2>6. Ticks /\ cpu'.PC = (After + (IF taken THEN off ELSE 0)) % 65536 /\ Compared(cpu'.f, last')
    BY <1>1, <2>5, GoneIs
  <2>7. After \in Int
    BY <1>2, <2>2
  <2>8. LandsAfter
    <3>1. cpu'.PC = After % 65536 \/ cpu'.PC = (After + off) % 65536
      BY <2>3, <2>6, <2>7
    <3>2. ~Straight(i, read8(cpu, cpu.PC + 1))
      BY <1>3, <2>1 DEF Straight, AluOps
    <3> QED
      BY <1>3, <2>3, <3>1, <3>2 DEF LandsAfter, After
  <2>9. BranchRight
    <3>1. i.reg \in Comparisons /\ last # NoOperands => (taken <=> Relation(i.reg, last[1], last[2], last[3]))
      BY TakenIs DEF taken
    <3> QED
      BY <1>3, <2>3, <2>6, <3>1 DEF BranchRight, After, Comparisons
  <2> QED
    BY <2>1, <2>6, <2>8, <2>9, FlagsElsewhere DEF Right
<1>4. CASE i.op = "long_branch" /\ i.reg # 1 /\ cpu' = long_branch(c, i)
  <2> DEFINE off == Signed(imm_word(c), 65536)
             taken == cond(i.reg, cpu.f)
             n == IF taken THEN 6 ELSE 5
  <2>1. i.mode = "rel_word" /\ i.op \notin AluOps
    BY <1>4, ShapeIs, ShapeOf, KindsAre DEF BranchShape, Elsewhere
  <2>2. After = c.PC + 2
    BY <1>4, <2>1, AfterIs DEF OperandBytes
  <2>3. /\ off = Signed(RDMEM16(cpu, After - 2), 65536) /\ off \in Int
        /\ RDMEM16(cpu, After - 2) \in Word
    <3>1. imm_word(c) = RDMEM16(cpu, c.PC) /\ imm_word(c) \in Word
      BY <1>2, SameMemory, ReadIs DEF imm_word
    <3>2. After - 2 = c.PC
      BY <1>2, <2>2
    <3> QED
      BY <3>1, <3>2, SignedIs
  <2>4. Goes(c, cpu', (c.PC + 2 + (IF cond(i.reg, c.f) THEN off ELSE 0)) % 65536,
             IF cond(i.reg, c.f) THEN 6 ELSE 5)
    BY <1>2, <1>4, LongBranchIs
  <2>5. Goes(c, cpu', (After + (IF taken THEN off ELSE 0)) % 65536, n)
    BY <1>2, <2>2, <2>4
  <2>a. n \in Nat /\ n > 0
    OBVIOUS
  <2> HIDE DEF off, taken, n
  <2>6. Ticks /\ cpu'.PC = (After + (IF taken THEN off ELSE 0)) % 65536 /\ Compared(cpu'.f, last')
    BY <1>1, <2>5, <2>a, GoneIs
  <2>7. After \in Int
    BY <1>2, <2>2
  <2>8. LandsAfter
    <3>1. cpu'.PC = After % 65536 \/ cpu'.PC = (After + RDMEM16(cpu, After - 2)) % 65536
      BY <2>3, <2>6, <2>7, SameTarget
    <3>2. ~Straight(i, read8(cpu, cpu.PC + 1))
      BY <1>4, <2>1 DEF Straight, AluOps
    <3> QED
      BY <1>4, <3>1, <3>2 DEF LandsAfter, After
  <2>9. BranchRight
    <3>1. i.reg \in Comparisons /\ last # NoOperands => (taken <=> Relation(i.reg, last[1], last[2], last[3]))
      BY TakenIs DEF taken
    <3> QED
      BY <1>4, <2>3, <2>6, <3>1 DEF BranchRight, After, Comparisons
  <2> QED
    BY <2>1, <2>6, <2>8, <2>9, FlagsElsewhere DEF Right
<1>5. CASE i.op = "lbra" /\ cpu' = long_bra(c, i)
  <2>1. i.clk = 5
    BY <1>5, ShapeIs, ShapeOf DEF BranchShape
  <2>2. Goes(c, cpu', (c.PC + 2 + Signed(imm_word(c), 65536)) % 65536, 5)
    BY <1>2, <1>5, <2>1, LongBraIs
  <2> DEFINE n == 5
  <2>3. n \in Nat /\ n > 0 /\ Goes(c, cpu', (c.PC + 2 + Signed(imm_word(c), 65536)) % 65536, n)
    BY <2>2
  <2> HIDE DEF n
  <2>4. Ticks /\ Compared(cpu'.f, last')
    BY <1>1, <2>3, GoneIs
  <2>5. i.op \notin Elsewhere /\ i.op \notin AluOps
    BY <1>5, KindsAre
  <2>6. ~Straight(i, read8(cpu, cpu.PC + 1))
    BY <1>5, <2>5 DEF Straight, AluOps
  <2> QED
    BY <2>4, <2>5, <2>6, LandsStraight, BranchElsewhere, FlagsElsewhere DEF Right
<1>6. ASSUME NEW k \in Nat, NEW n \in Nat, n > 0, i.op \in {"branch", "long_branch"}, i.reg = 1,
             OperandBytes(i.mode, imm_byte(c)) = k, cpu' = Clock(Advance(c, k), n)
      PROVE  Right
  <2>1. i.op \in Elsewhere /\ i.op \notin AluOps /\ i.op # "invalid"
    BY <1>6, KindsAre DEF Elsewhere
  <2>2. Goes(c, cpu', c.PC + k, n)
    BY <1>2, <1>6, StepOverIs
  <2>3. Ticks /\ cpu'.PC = c.PC + k /\ Compared(cpu'.f, last')
    BY <1>1, <1>6, <2>2, GoneIs
  <2>4. cpu'.PC = After
    BY <1>6, <2>1, <2>3, AfterIs
  <2>5. LandsAfter /\ BranchRight
    BY <1>6, <2>4 DEF LandsAfter, BranchRight, After
  <2> QED
    BY <2>1, <2>3, <2>5, FlagsElsewhere DEF Right
<1>7. CASE i.op = "branch" /\ i.reg = 1 /\ cpu' = branch(c, i)
  <2>1. i.mode = "rel_byte"
    BY <1>7, ShapeIs, ShapeOf DEF BranchShape
  <2>2. OperandBytes(i.mode, imm_byte(c)) = 1 /\ cpu' = Clock(Advance(c, 1), 3)
    BY <1>7, <2>1 DEF OperandBytes, branch
  <2> QED
    BY <1>6, <1>7, <2>2
<1>8. CASE i.op = "long_branch" /\ i.reg = 1 /\ cpu' = long_branch(c, i)
  <2>1. i.mode = "rel_word"
    BY <1>8, ShapeIs, ShapeOf DEF BranchShape
  <2>2. OperandBytes(i.mode, imm_byte(c)) = 2 /\ cpu' = Clock(Advance(c, 2), 5)
    BY <1>8, <2>1 DEF OperandBytes, long_branch
  <2> QED
    BY <1>6, <1>8, <2>2
<1> QED
  BY <1>3, <1>4, <1>5, <1>7, <1>8 DEF BranchInsn, Turn, Fetched

-----------------------------------------------------------------------------
(* The invariant and the theorems. *)

\* The inductive invariant: the processor is well formed, and the flags tell
\* how the operands last compared are ordered.
IInv == /\ cpu \in Cpu
        /\ count \in Nat /\ count <= MaxInsns
        /\ Compared(cpu.f, last)

\* A program lies in memory.
LEMMA AtIs ==
  ASSUME NEW addr \in Nat, NEW bytes \in Seq(Byte), addr + Len(bytes) <= 65536
  PROVE  /\ DOMAIN At(addr, bytes) \subseteq Word
         /\ \A a \in DOMAIN At(addr, bytes) : At(addr, bytes)[a] \in Byte
<1>1. Len(bytes) \in Nat /\ \A k \in 1..Len(bytes) : bytes[k] \in Byte
  OBVIOUS
<1>2. DOMAIN At(addr, bytes) = addr..(addr + Len(bytes) - 1)
  BY DEF At
<1>3. ASSUME NEW a \in DOMAIN At(addr, bytes)
      PROVE  a \in Word /\ At(addr, bytes)[a] \in Byte
  <2>1. a \in Int /\ a >= addr /\ a <= addr + Len(bytes) - 1
    BY <1>1, <1>2
  <2>2. a - addr + 1 \in 1..Len(bytes)
    BY <1>1, <2>1
  <2>3. At(addr, bytes)[a] = bytes[a - addr + 1]
    BY <1>2 DEF At
  <2>4. At(addr, bytes)[a] \in Byte
    BY <1>1, <2>2, <2>3
  <2>5. a \in Word
    BY <1>1, <2>1 DEF Word
  <2> QED
    BY <2>4, <2>5
<1> QED
  BY <1>3

\* The memory a run starts with: this is what LoadsAssumption is for.
LEMMA InitialMemoryIs ==
  ASSUME NEW l \in Loads
  PROVE  InitialMemory(l) \in Memory
<1> DEFINE code == At(Origin, l.code)
           handler == At(Handler, l.handler)
           D == DOMAIN code \cup DOMAIN handler \cup (65522..65525) \cup {65530, 65531}
           val(a) == CASE a \in DOMAIN code -> code[a]
                       [] a \in DOMAIN handler \ DOMAIN code -> handler[a]
                       [] OTHER -> IF a % 2 = 0 THEN Handler \div 256 ELSE Handler % 256
<1>1. /\ l.code \in Seq(Byte) /\ l.handler \in Seq(Byte)
      /\ Len(l.code) <= Handler - Origin /\ Len(l.handler) <= 65522 - Handler
  BY LoadsAssumption
<1>2. Origin \in Nat /\ Handler \in Nat /\ Origin = 1024 /\ Handler = 2048
  BY DEF Origin, Handler
<1>a. Len(l.code) \in Nat /\ Len(l.handler) \in Nat
  BY <1>1
<1>3. DOMAIN code \subseteq Word /\ \A a \in DOMAIN code : code[a] \in Byte
  BY <1>1, <1>2, <1>a, AtIs
<1>4. DOMAIN handler \subseteq Word /\ \A a \in DOMAIN handler : handler[a] \in Byte
  BY <1>1, <1>2, <1>a, AtIs
<1>5. InitialMemory(l) = [a \in D |-> val(a)]
  BY DEF InitialMemory
<1> HIDE DEF code, handler
<1>6. D \in SUBSET Word
  BY <1>3, <1>4 DEF Word
<1>7. Handler \div 256 \in Byte /\ Handler % 256 \in Byte
  BY DEF Handler, Byte
<1>8. ASSUME NEW a \in D
      PROVE  val(a) \in Byte
  BY <1>3, <1>4, <1>7
<1> HIDE DEF D, val
<1>9. [a \in D |-> val(a)] \in [D -> Byte]
  BY <1>8
<1> QED
  BY <1>5, <1>6, <1>9 DEF Memory

\* A run starts in the invariant.
LEMMA InitIs ==
  ASSUME Init
  PROVE  IInv
<1> DEFINE r == load.regs
           efi == r.CC & EFI_FLAGS
           f == set_cc(r.CC)
           m == InitialMemory(load)
           dp == 256 * r.DP
<1>1. r \in RegFile
  BY LoadsAssumption DEF Init
<1>2. /\ r.A \in Byte /\ r.B \in Byte /\ r.DP \in Byte /\ r.CC \in Byte
      /\ r.X \in Word /\ r.Y \in Word /\ r.U \in Word /\ r.S \in Word
  BY <1>1 DEF RegFile
<1>3. efi \in Efis /\ f \in Lazy
  BY <1>2, EfiBits, SetCC
<1>4. m \in Memory
  BY InitialMemoryIs DEF Init
<1>5. dp \in Page
  BY <1>2 DEF Page, Byte, Word
<1>6. cpu = [A |-> r.A, B |-> r.B, DP |-> dp, X |-> r.X, Y |-> r.Y, U |-> r.U, S |-> r.S,
             PC |-> Origin, EFI |-> efi, f |-> f, cycles |-> 0, mem |-> m,
             waiting |-> FALSE, stopped |-> FALSE]
  BY DEF Init
<1>7. Origin \in Nat
  BY DEF Origin
<1> HIDE DEF r, efi, f, m, dp
<1>8. cpu \in Cpu
  BY <1>2, <1>3, <1>4, <1>5, <1>6, <1>7 DEF Cpu
<1>9. count \in Nat /\ count <= MaxInsns /\ last = NoOperands
  BY MaxInsnsAssumption DEF Init
<1> QED
  BY <1>8, <1>9 DEF IInv, Compared

\* The bound on a run.
LEMMA CountIs ==
  ASSUME count \in Nat, Next
  PROVE  count' \in Nat /\ count' <= MaxInsns
<1>1. count < MaxInsns /\ count' = count + 1
  BY DEF Next, UnaryInsn, ByteInsn, WordInsn, StoreInsn, LeaInsn, AccInsn, BranchInsn, JumpInsn,
         StackInsn, RegisterInsn, InterruptInsn, InvalidInsn, Plain, Turn, Running
<1> QED
  BY <1>1, MaxInsnsAssumption

\* Every action is right and keeps the invariant.
LEMMA NextIs ==
  ASSUME IInv, Next
  PROVE  Right /\ IInv'
<1>1. cpu \in Cpu /\ Compared(cpu.f, last)
  BY DEF IInv
<1>2. Right
  BY <1>1, UnaryInsnIs, ByteInsnIs, WordInsnRight, StoreInsnRight, LeaInsnRight, AccInsnRight,
     BranchInsnRight, JumpInsnRight, StackInsnRight, RegisterInsnRight, InterruptInsnRight,
     InvalidInsnRight DEF Next
<1>3. count' \in Nat /\ count' <= MaxInsns
  BY CountIs DEF IInv
<1> QED
  BY <1>2, <1>3 DEF IInv, Right, Ticks

\* And so is every step, a stuttering one too.
LEMMA StepIsRight ==
  ASSUME IInv, [Next]_vars
  PROVE  IInv' /\ [Right]_vars
<1>1. CASE Next
  BY <1>1, NextIs
<1>2. CASE UNCHANGED vars
  BY <1>2 DEF vars, IInv
<1> QED
  BY <1>1, <1>2

\* The invariant holds of every run: whatever cpu_execute runs, the processor stays well
\* formed, and while last is remembered its flags order the operands of that subtraction.
THEOREM Invariant == Spec => []IInv
<1>1. Init => IInv
  BY InitIs
<1>2. IInv /\ [Next]_vars => IInv'
  BY StepIsRight
<1> QED
  BY <1>1, <1>2, PTL DEF Spec

\* Every step of every run is right.
THEOREM StepsAreRight == Spec => [][Right]_vars
<1>1. IInv /\ [Next]_vars => [Right]_vars
  BY StepIsRight
<1> QED
  BY <1>1, Invariant, PTL DEF Spec

\* The invariant is stronger than TypeOK.
LEMMA WellFormed ==
  ASSUME IInv
  PROVE  TypeOK
<1>1. cpu \in Cpu
  BY DEF IInv
<1>2. /\ cpu.A \in Byte /\ cpu.B \in Byte
      /\ \A r \in {"X", "Y", "U", "S"} : cpu[r] \in Word
      /\ cpu.PC \in Nat /\ cpu.DP \in Page /\ cpu.EFI \in Efis /\ cpu.f \in Lazy
      /\ cpu.mem \in Memory /\ cpu.cycles \in Int
  BY <1>1 DEF Cpu
<1>3. cpu.DP \in Word /\ cpu.DP % 256 = 0
  BY <1>2 DEF Page
<1>4. cpu.EFI = cpu.EFI & EFI_FLAGS
  BY <1>2, EfisAre
<1>5. \A a \in DOMAIN cpu.mem : a \in Word /\ cpu.mem[a] \in Byte
  BY <1>2, MemoryIs
<1>6. count \in 0..MaxInsns
  BY MaxInsnsAssumption DEF IInv
<1> QED
  BY <1>2, <1>3, <1>4, <1>5, <1>6 DEF TypeOK

\* Registers, condition codes and memory keep their width whatever the program does.
THEOREM TypeCorrect == Spec => []TypeOK
BY Invariant, WellFormed, PTL

\* No instruction but an erroneous one leaves cpu_clk as it was, so the loop of cpu_execute
\* ends; that holds of the indexed JMP too, for which the switch itself counts -1.
THEOREM ClockAlwaysAdvances == Spec => ClockAdvances
<1>1. [Right]_vars => [~cpu'.stopped => cpu'.cycles > cpu.cycles]_vars
  BY DEF Right, Ticks
<1> QED
  BY <1>1, StepsAreRight, PTL DEF ClockAdvances

\* The lazily kept H, N, Z, OV and C of 6809.c show the flags of two's-complement
\* arithmetic after every instruction of every program, and the result is where it belongs.
THEOREM FlagsAlwaysExact == Spec => FlagsExact
<1>1. [Right]_vars => [FlagsRight]_vars
  BY DEF Right
<1> QED
  BY <1>1, StepsAreRight, PTL DEF FlagsExact

\* A conditional branch after a subtraction of either width, and after any branches between,
\* goes by the order of the operands, unsigned or signed as its name says.
THEOREM BranchesOrder == Spec => CompareThenBranch
<1>1. [Right]_vars => [BranchRight]_vars
  BY DEF Right
<1> QED
  BY <1>1, StepsAreRight, PTL DEF CompareThenBranch

\* The CPU agrees with dasm() about the end of every instruction, so that the breakpoint of
\* "next" is met: by going on there, by branching, or by returning there.
THEOREM LandsWhereDasmSays == Spec => NextLandsAfter
<1>1. [Right]_vars => [LandsAfter]_vars
  BY DEF Right
<1> QED
  BY <1>1, StepsAreRight, PTL DEF NextLandsAfter

-----------------------------------------------------------------------------
(* Sums of two instructions. *)

\* get_cc() shows N too.
LEMMA NegativeIs ==
  ASSUME NEW efi \in Efis, NEW f \in Lazy
  PROVE  Has(get_cc(efi, f), N_FLAG) <=> Has(f.N, 128)
<1> DEFINE cc == get_cc(efi, f)
           h == IF Has(f.H, 16) THEN 1 ELSE 0
           n == IF Has(f.N, 128) THEN 1 ELSE 0
           z == IF f.Z = 0 THEN 1 ELSE 0
           v == IF Has(f.OV, 128) THEN 1 ELSE 0
           c == IF f.C # 0 THEN 1 ELSE 0
<1>1. PICK e \in Bit, fi \in Bit, i \in Bit : efi = 128 * e + 64 * fi + 16 * i
  BY DEF Efis
<1>2. h \in Bit /\ n \in Bit /\ z \in Bit /\ v \in Bit /\ c \in Bit
  BY DEF Bit
<1>3. n = 1 <=> Has(f.N, 128)
  OBVIOUS
<1>e. efi \in Nat
  BY <1>1 DEF Bit
<1>4. cc = FlagBits(e, fi, h, i, n, z, v, c)
  BY <1>1, <1>e DEF FlagBits, get_cc, H_FLAG, N_FLAG, Z_FLAG, V_FLAG, C_FLAG
<1> HIDE DEF cc, h, n, z, v, c
<1>5. IsBits(cc, e, fi, h, i, n, z, v, c)
  BY <1>2, <1>4, BitsOfCC, Zenon
<1>6. Has(cc, 8) <=> n = 1
  BY <1>5 DEF IsBits
<1> QED
  BY <1>3, <1>6 DEF cc, N_FLAG

\* The flags of the ideal machine, one at a time.
LEMMA IdealFlags ==
  ASSUME NEW op, NEW x, NEW y, NEW old \in Byte,
         IdealResult(op, x, y, CarryIn(op, old)) \in Word,
         Width(op) = 256 => IdealResult(op, x, y, CarryIn(op, old)) \in Byte
  PROVE  LET cin == CarryIn(op, old)
             cc == IdealCC(op, x, y, old)
         IN  /\ Has(cc, N_FLAG) <=> IdealResult(op, x, y, cin) >= Width(op) \div 2
             /\ Has(cc, V_FLAG) <=> IdealV(op, x, y, cin, old)
             /\ Has(cc, C_FLAG) <=> IdealC(op, x, y, cin, old)
<1> DEFINE cin == CarryIn(op, old)
           res == IdealResult(op, x, y, cin)
           h == IdealH(op, x, y, cin, old)
           n == res >= Width(op) \div 2
           v == IdealV(op, x, y, cin, old)
           c == IdealC(op, x, y, cin, old)
           f == [H |-> IF h THEN 16 ELSE 0, N |-> IF n THEN 128 ELSE 0,
                 Z |-> IF res = 0 THEN 0 ELSE 1, OV |-> IF v THEN 128 ELSE 0,
                 C |-> IF c THEN 1 ELSE 0]
           r == [f |-> f, res |-> res]
           efi == old & EFI_FLAGS
<1> HIDE DEF cin
<1>1. f \in Lazy
  <2> HIDE DEF h, n, v, c, res
  <2> QED
    BY DEF Lazy
<1>2. Decodes(f, h, n, res = 0, v, c)
  <2> HIDE DEF h, n, v, c, res
  <2>1. Has(16, 16) /\ ~Has(0, 16) /\ Has(128, 128) /\ ~Has(0, 128)
    BY DEF Has
  <2> QED
    BY <1>1, <2>1 DEF Decodes
<1>3. res \in Word /\ (Width(op) = 256 => res \in Byte)
  BY DEF cin
<1> HIDE DEF f
<1>4. r.f = f /\ r.res = res
  OBVIOUS
<1>5. Exact(op, x, y, old, r)
  <2> HIDE DEF r
  <2> QED
    BY <1>2, <1>3, <1>4 DEF Exact, cin
<1>6. efi \in Efis
  BY EfiBits
<1>7. get_cc(efi, f) = IdealCC(op, x, y, old)
  <2> HIDE DEF r, efi
  <2>1. old & EFI_FLAGS = efi
    BY DEF efi
  <2> QED
    BY <1>4, <1>5, <1>6, <2>1, ExactCC
<1> HIDE DEF efi, r
<1>8. Shows(f, get_cc(efi, f)) /\ (Has(get_cc(efi, f), N_FLAG) <=> Has(f.N, 128))
  BY <1>1, <1>6, GetCC, NegativeIs
<1>9. /\ Has(f.N, 128) <=> n
      /\ Has(f.OV, 128) <=> v
      /\ f.C # 0 <=> c
  BY <1>2 DEF Decodes
<1> QED
  BY <1>7, <1>8, <1>9 DEF Shows, cin

\* The bytes of the program are in memory as long as nothing was stored.
LEMMA CodeIs ==
  ASSUME NEW l \in Loads, NEW k \in 1..Len(l.code), NEW c, c.mem = InitialMemory(l)
  PROVE  read8(c, Origin + k - 1) = l.code[k] /\ l.code[k] \in Byte
<1> DEFINE code == At(Origin, l.code)
           handler == At(Handler, l.handler)
           D == DOMAIN code \cup DOMAIN handler \cup (65522..65525) \cup {65530, 65531}
           val(b) == CASE b \in DOMAIN code -> code[b]
                       [] b \in DOMAIN handler \ DOMAIN code -> handler[b]
                       [] OTHER -> IF b % 2 = 0 THEN Handler \div 256 ELSE Handler % 256
           a == Origin + k - 1
<1>1. l.code \in Seq(Byte) /\ Len(l.code) <= Handler - Origin
  BY LoadsAssumption
<1>2. Origin = 1024 /\ Handler = 2048 /\ Len(l.code) \in Nat
  BY <1>1 DEF Origin, Handler
<1>3. a \in Origin..(Origin + Len(l.code) - 1) /\ a % 65536 = a /\ a - Origin + 1 = k
  BY <1>1, <1>2
<1>4. a \in DOMAIN code /\ code[a] = l.code[k]
  BY <1>3 DEF At
<1>5. InitialMemory(l) = [b \in D |-> val(b)]
  BY DEF InitialMemory
<1> HIDE DEF code, handler, a
<1>6. a \in DOMAIN InitialMemory(l) /\ InitialMemory(l)[a] = l.code[k]
  BY <1>4, <1>5
<1>7. read8(c, a) = l.code[k]
  BY <1>3, <1>6 DEF read8
<1>8. l.code[k] \in Byte
  BY <1>1
<1> QED
  BY <1>7, <1>8 DEF a

\* A step is the one of the action that the operation belongs to.
LEMMA ByteTurn ==
  ASSUME Next, Decode(cpu).op \in ByteOps
  PROVE  cpu' = ExecByte(Fetched, Decode(cpu)) /\ load' = load /\ count' = count + 1
<1>1. ByteInsn
  BY DEF Next, UnaryInsn, WordInsn, StoreInsn, LeaInsn, AccInsn, BranchInsn, JumpInsn, StackInsn,
         RegisterInsn, InterruptInsn, InvalidInsn, Plain, Turn, ByteOps, UnaryOps, WordOps
<1> QED
  BY <1>1 DEF ByteInsn, Turn, Fetched

\* DAA's step is the accumulators' one.
LEMMA AccTurn ==
  ASSUME Next, Decode(cpu).op = "daa"
  PROVE  cpu' = ExecAccumulator(Fetched, Decode(cpu)) /\ load' = load /\ count' = count + 1
<1>1. AccInsn
  BY DEF Next, UnaryInsn, WordInsn, StoreInsn, LeaInsn, ByteInsn, BranchInsn, JumpInsn, StackInsn,
         RegisterInsn, InterruptInsn, InvalidInsn, Plain, Turn, ByteOps, UnaryOps, WordOps
<1> QED
  BY <1>1 DEF AccInsn, Turn, Fetched

\* The opcodes of these programs.
LEMMA OpcodesAre ==
  /\ page_0(203) = Insn("add", "B", "imm_byte", 2) /\ page_0(192) = Insn("sub", "B", "imm_byte", 2)
  /\ page_0(137) = Insn("adc", "A", "imm_byte", 2) /\ page_0(130) = Insn("sbc", "A", "imm_byte", 2)
  /\ page_0(139) = Insn("add", "A", "imm_byte", 2) /\ page_0(25) = Insn("daa", "A", "inherent", 2)
<1>1. /\ 203 \div 16 = 12 /\ 203 % 16 = 11 /\ 192 \div 16 = 12 /\ 192 % 16 = 0
      /\ 137 \div 16 = 8 /\ 137 % 16 = 9 /\ 130 \div 16 = 8 /\ 130 % 16 = 2
      /\ 139 \div 16 = 8 /\ 139 % 16 = 11 /\ 25 \div 16 = 1 /\ 25 % 16 = 9
  OBVIOUS
<1> QED
  BY <1>1 DEF page_0, row_C, row_8, row_1, ByteRow, ByteOp

\* An instruction with an opcode of one byte.
LEMMA FetchOne ==
  ASSUME cpu \in Cpu, NEW op, read8(cpu, cpu.PC) = op, op # 16, op # 17
  PROVE  /\ Decode(cpu) = page_0(op) /\ Fetched = Advance(cpu, 1) /\ Fetched \in Cpu
         /\ Fetched.PC = cpu.PC + 1 /\ Fetched.mem = cpu.mem /\ Fetched.f = cpu.f
         /\ Fetched.A = cpu.A /\ Fetched.B = cpu.B
<1>1. OpcodeBytes(cpu) = 1
  BY DEF OpcodeBytes
<1>2. Decode(cpu) = page_0(op)
  BY DEF Decode
<1>3. Fetched = Advance(cpu, 1)
  BY <1>1 DEF Fetched
<1>4. Changed(cpu, Advance(cpu, 1), JustPC) /\ Advance(cpu, 1).PC = cpu.PC + 1
  BY AdvanceIs
<1> QED
  BY <1>2, <1>3, <1>4 DEF Changed, Names, JustPC

\* The other accumulator.
Other(reg) == IF reg = "A" THEN "B" ELSE "A"

\* An immediate operation on an accumulator: memory and the other one stay.
LEMMA ExecImmediate ==
  ASSUME NEW c \in Cpu, NEW op \in ByteOps, op \notin TestOps, NEW reg \in Accumulators,
         NEW d, d = ExecByte(c, Insn(op, reg, "imm_byte", 2))
  PROVE  LET x == c[reg]
             y == imm_byte(c)
             cin == CarryIn(op, Get(c, "CC"))
         IN  /\ d \in Cpu /\ d.PC = c.PC + 1 /\ d.mem = c.mem
             /\ x \in Byte /\ y \in Byte
             /\ d[Other(reg)] = c[Other(reg)]
             /\ d[reg] = IdealResult(op, x, y, cin)
             /\ Exact(op, x, y, Get(c, "CC"), [f |-> d.f, res |-> d[reg]])
<1> DEFINE i == Insn(op, reg, "imm_byte", 2)
           o == ByteOperand(c, "imm_byte")
           y == imm_byte(c)
           x == c[reg]
           r == Binary(op, c.f, x, y)
           g == Clock(Flags(o.c, r.f), 2)
           old == Get(c, "CC")
<1>1. i.op = op /\ i.reg = reg /\ i.mode = "imm_byte" /\ i.clk = 2
  BY DEF Insn
<1>2. o.c = Advance(c, 1) /\ o.val = y
  BY DEF ByteOperand
<1>3. d = [g EXCEPT ![reg] = r.res]
  <2>1. d = ExecByte(c, i)
    OBVIOUS
  <2> HIDE DEF i
  <2> QED
    BY <1>1, <1>2, <2>1 DEF ExecByte
<1>4. x \in Byte /\ Get(o.c, reg) = x
  <2>1. Changed(c, Advance(c, 1), JustPC)
    BY AdvanceIs
  <2>2. o.c \in Cpu /\ o.c[reg] = c[reg]
    BY <1>2, <2>1 DEF Changed, Names, JustPC, Accumulators
  <2> QED
    BY <2>2, AccumulatorIs
<1>5. y \in Byte
  BY CpuIs, ReadIs DEF imm_byte
<1>6. Exact(op, x, y, old, r)
  <2> HIDE DEF x, y
  <2> QED
    BY <1>4, <1>5, ShowsIs, BinaryExact
<1> HIDE DEF r, x, y, old
<1>7. r.f \in Lazy /\ r.res \in Byte /\ r.res = IdealResult(op, x, y, CarryIn(op, old))
  BY <1>6, ExactIs, OpsAre
<1>8. Reached(c, o.c, "imm_byte", 2)
  <2>1. OperandBytes("imm_byte", imm_byte(c)) = 1
    BY DEF OperandBytes
  <2> QED
    BY <1>2, <2>1, AdvancedIs
<1> HIDE DEF o
<1>9. Done(c, g, "imm_byte") /\ g.f = r.f /\ g.A = c.A /\ g.B = c.B /\ g.mem = c.mem
  BY <1>7, <1>8, FinishIs
<1>10. g \in Cpu /\ g.PC = c.PC + 1
  BY <1>9 DEF Done, OperandBytes
<1> HIDE DEF g
<1>11. /\ d \in Cpu /\ d.PC = g.PC /\ d.mem = g.mem /\ d.f = g.f
       /\ d[reg] = r.res /\ d[Other(reg)] = g[Other(reg)]
  <2>1. CASE reg = "A"
    BY <1>3, <1>7, <1>10, <2>1 DEF Cpu, Other
  <2>2. CASE reg = "B"
    BY <1>3, <1>7, <1>10, <2>2 DEF Cpu, Other
  <2> QED
    BY <2>1, <2>2 DEF Accumulators
<1>12. g[Other(reg)] = c[Other(reg)]
  BY <1>9 DEF Other, Accumulators
<1>13. Exact(op, x, y, old, [f |-> d.f, res |-> d[reg]])
  BY <1>6, <1>7, <1>9, <1>11 DEF Exact
<1> QED
  BY <1>4, <1>5, <1>7, <1>9, <1>10, <1>11, <1>12, <1>13 DEF x, y, old

\* A step that executes such an instruction, as ExecImmediate says.
LEMMA ImmediateStep ==
  ASSUME cpu \in Cpu, Next, NEW code, read8(cpu, cpu.PC) = code, code # 16, code # 17,
         NEW op \in ByteOps, op \notin TestOps, NEW reg \in Accumulators,
         page_0(code) = Insn(op, reg, "imm_byte", 2)
  PROVE  LET x == cpu[reg]
             y == read8(cpu, cpu.PC + 1)
             old == Get(cpu, "CC")
         IN  /\ load' = load /\ count' = count + 1
             /\ cpu' \in Cpu /\ cpu'.PC = cpu.PC + 2 /\ cpu'.mem = cpu.mem
             /\ x \in Byte /\ y \in Byte /\ old \in Byte
             /\ cpu'[Other(reg)] = cpu[Other(reg)]
             /\ cpu'[reg] = IdealResult(op, x, y, CarryIn(op, old))
             /\ Exact(op, x, y, old, [f |-> cpu'.f, res |-> cpu'[reg]])
<1> DEFINE c == Fetched
<1>1. /\ Decode(cpu) = Insn(op, reg, "imm_byte", 2)
      /\ c \in Cpu /\ c.PC = cpu.PC + 1 /\ c.mem = cpu.mem /\ c.A = cpu.A /\ c.B = cpu.B
  BY FetchOne
<1>2. Decode(cpu).op = op
  BY <1>1 DEF Insn
<1>3. cpu' = ExecByte(c, Insn(op, reg, "imm_byte", 2)) /\ load' = load /\ count' = count + 1
  BY <1>1, <1>2, ByteTurn
<1>4. Get(c, "CC") = Get(cpu, "CC")
  BY FetchIs
<1>5. imm_byte(c) = read8(cpu, cpu.PC + 1)
  BY <1>1 DEF imm_byte, read8
<1>6. c[reg] = cpu[reg] /\ c[Other(reg)] = cpu[Other(reg)]
  BY <1>1 DEF Accumulators, Other
<1>7. cpu.PC \in Nat
  BY CpuIs
<1>8. Get(cpu, "CC") \in Byte
  BY ShowsIs DEF Shows
<1> HIDE DEF c
<1>9. /\ cpu' \in Cpu /\ cpu'.PC = c.PC + 1 /\ cpu'.mem = c.mem
      /\ c[reg] \in Byte /\ imm_byte(c) \in Byte
      /\ cpu'[Other(reg)] = c[Other(reg)]
      /\ cpu'[reg] = IdealResult(op, c[reg], imm_byte(c), CarryIn(op, Get(c, "CC")))
      /\ Exact(op, c[reg], imm_byte(c), Get(c, "CC"), [f |-> cpu'.f, res |-> cpu'[reg]])
  BY <1>1, <1>3, ExecImmediate
<1>10. cpu'.PC = cpu.PC + 2
  BY <1>1, <1>7, <1>9
<1> QED
  BY <1>1, <1>3, <1>4, <1>5, <1>6, <1>8, <1>9, <1>10

\* DAA in the program.
LEMMA DaaStep ==
  ASSUME cpu \in Cpu, Next, read8(cpu, cpu.PC) = 25
  PROVE  /\ load' = load /\ count' = count + 1 /\ cpu' \in Cpu
         /\ cpu'.A = daa(cpu.f, cpu.A).res /\ cpu'.f = daa(cpu.f, cpu.A).f
<1> DEFINE c == Fetched
           i == Insn("daa", "A", "inherent", 2)
           r == daa(cpu.f, cpu.A)
           g == Flags(c, r.f)
<1>1. Decode(cpu) = i /\ c \in Cpu /\ c.f = cpu.f /\ c.A = cpu.A
  BY OpcodesAre, FetchOne
<1>2. i.op = "daa" /\ i.reg = "A" /\ i.clk = 2 /\ i.mode = "inherent"
  BY DEF Insn
<1> HIDE DEF i, c
<1>3. cpu' = ExecAccumulator(c, i) /\ load' = load /\ count' = count + 1
  BY <1>1, <1>2, AccTurn DEF c
<1>4. cpu' = Clock(Set(g, "A", r.res), 2)
  <2>1. ExecAccumulator(c, i) = Clock(Set(Flags(c, daa(c.f, c.A).f), "A", daa(c.f, c.A).res), 2)
    BY <1>2 DEF ExecAccumulator
  <2> QED
    BY <1>1, <1>3, <2>1
<1>5. r.f \in Lazy /\ r.res \in Byte
  BY CpuIs, DaaIs
<1> HIDE DEF r
<1>6. g \in Cpu /\ g.f = r.f
  BY <1>1, <1>5, FlagsIs DEF Changed
<1> HIDE DEF g
<1>7. Set(g, "A", r.res) = [g EXCEPT !.A = r.res]
  BY DEF Set
<1> DEFINE h == [g EXCEPT !.A = r.res]
<1>8. h \in Cpu /\ h.f = g.f /\ h.A = r.res
  BY <1>5, <1>6 DEF Cpu
<1> HIDE DEF h
<1>9. cpu' = Clock(h, 2)
  BY <1>4, <1>7 DEF h
<1>10. cpu' \in Cpu /\ cpu'.f = h.f /\ cpu'.A = h.A
  BY <1>8, <1>9, ClockIs DEF Changed, Names, JustCycles
<1> QED
  BY <1>3, <1>6, <1>8, <1>10 DEF r

\* What DAA does to the sum of two numbers of two decimal digits.
LEMMA DaaAdds ==
  ASSUME NEW a \in Byte, NEW b \in Byte, IsDecimal(a), IsDecimal(b), ~CorrectedTwice(a + b),
         NEW f \in Lazy,
         Has(f.H, 16) <=> (a % 16) + (b % 16) > 15,
         f.C # 0 <=> a + b >= 256,
         NEW s, s = (a + b) % 256
  PROVE  /\ daa(f, s).res = Decimal((Number(a) + Number(b)) % 100)
         /\ daa(f, s).f.C # 0 <=> Number(a) + Number(b) > 99
<1> DEFINE ah == a \div 16
           al == a % 16
           bh == b \div 16
           bl == b % 16
           low == al + bl
           high == ah + bh
           lsn == s % 16
           msn == s - lsn
           res == s + (IF lsn > 9 \/ Has(f.H, 16) THEN 6 ELSE 0)
                    + (IF msn > 128 /\ lsn > 9 THEN 96 ELSE 0)
                    + (IF msn > 144 \/ f.C # 0 THEN 96 ELSE 0)
           cry == IF Has(res, 256) THEN WithBit(f.C, 256) ELSE f.C
           sum == Number(a) + Number(b)
<1>1. /\ daa(f, s).f = [f EXCEPT !.C = cry, !.N = res % 256, !.Z = res % 256, !.OV = 0]
      /\ daa(f, s).res = res % 256
  BY DEF daa, Ret
<1>2. /\ ah \in Nat /\ ah < 10 /\ al \in Nat /\ al < 10 /\ bh \in Nat /\ bh < 10 /\ bl \in Nat /\ bl < 10
      /\ a = 16 * ah + al /\ b = 16 * bh + bl
  BY DEF Byte, IsDecimal
<1>3. sum = 10 * ah + al + 10 * bh + bl
  BY <1>2 DEF Number
<1>4. f.C \in Nat
  BY DEF Lazy
<1> HIDE DEF ah, al, bh, bl
<1>5. /\ low \in Nat /\ low <= 18 /\ high \in Nat /\ high <= 18
      /\ a + b = 16 * high + low /\ sum = 10 * high + low
  BY <1>2, <1>3
<1>6. Has(f.H, 16) <=> low > 15
  BY DEF al, bl
<1>7. f.C # 0 <=> 16 * high + low >= 256
  BY <1>5
<1>8. s = (16 * high + low) % 256
  BY <1>5
<1>9. ~(/\ (16 * high + low) % 16 > 9
        /\ ((16 * high + low) % 256) - ((16 * high + low) % 16) > 128
        /\ \/ ((16 * high + low) % 256) - ((16 * high + low) % 16) > 144
           \/ 16 * high + low > 255)
  BY <1>5 DEF CorrectedTwice
<1> HIDE DEF low, high, sum
<1> DEFINE h == high + (IF low > 15 THEN 1 ELSE 0)
           l == IF low > 15 THEN low - 16 ELSE low
<1>10. h \in Nat /\ h <= 19 /\ l \in Nat /\ l < 16 /\ 16 * high + low = 16 * h + l
  BY <1>5
<1> HIDE DEF h, l
<1> DEFINE t == IF h > 15 THEN h - 16 ELSE h
<1>11. t \in Nat /\ t < 16 /\ s = 16 * t + l /\ lsn = l /\ msn = 16 * t
  <2>1. t \in Nat /\ t < 16 /\ (16 * h + l = 16 * t + l \/ 16 * h + l = 16 * t + l + 256)
    BY <1>10
  <2>2. s = (16 * h + l) % 256
    BY <1>8, <1>10
  <2> HIDE DEF t
  <2>3. s = 16 * t + l
    BY <1>10, <2>1, <2>2
  <2>4. (16 * t + l) % 16 = l
    BY <1>10, <2>1
  <2>5. lsn = l
    BY <2>3, <2>4
  <2> QED
    BY <1>10, <2>1, <2>3, <2>5
<1>12. f.C # 0 <=> h > 15
  BY <1>7, <1>10
<1>13. ~(l > 9 /\ t > 8 /\ (t > 9 \/ h > 15))
  <2>1. (16 * h + l) % 16 = l /\ (16 * h + l) % 256 = 16 * t + l
    BY <1>8, <1>10, <1>11
  <2>2. (16 * h + l > 255) <=> h > 15
    BY <1>10
  <2> HIDE DEF t
  <2> QED
    BY <1>9, <1>10, <1>11, <2>1, <2>2
<1> DEFINE six == IF l > 9 \/ low > 15 THEN 6 ELSE 0
           nine == IF t > 8 /\ l > 9 THEN 96 ELSE 0
           more == IF t > 9 \/ h > 15 THEN 96 ELSE 0
<1>14. res = 16 * t + l + six + nine + more
  <2>1. (msn > 128 <=> t > 8) /\ (msn > 144 <=> t > 9)
    BY <1>11
  <2> HIDE DEF t, lsn, msn
  <2> QED
    BY <1>6, <1>11, <1>12, <2>1
<1> HIDE DEF res
\* The digits of the sum.
<1> DEFINE q == high + (IF low > 9 THEN 1 ELSE 0)
           r == IF low > 9 THEN low - 10 ELSE low
<1>15. q \in Nat /\ q <= 19 /\ r \in Nat /\ r < 10 /\ sum = 10 * q + r
  BY <1>5
<1>16. res = (IF q > 9 THEN 16 * (q - 10) + r + 256 ELSE 16 * q + r) \/ (h > 15 /\ res = 16 * (q - 10) + r)
  BY <1>5, <1>10, <1>13, <1>14 DEF h, l
<1>17. q > 9 => res = 16 * (q - 10) + r + 256 \/ h > 15
  BY <1>16
<1>18. h > 15 => q > 9
  BY <1>5 DEF h, l
<1> HIDE DEF q, r
<1>19. res % 256 = Decimal(sum % 100)
  <2>1. CASE q > 9
    <3>1. sum % 100 = 10 * (q - 10) + r
      BY <1>15, <2>1
    <3>2. Decimal(10 * (q - 10) + r) = 16 * (q - 10) + r
      BY <1>15, <2>1 DEF Decimal
    <3>3. res % 256 = 16 * (q - 10) + r
      BY <1>15, <1>16, <2>1
    <3> QED
      BY <3>1, <3>2, <3>3
  <2>2. CASE q <= 9
    <3>1. sum % 100 = 10 * q + r
      BY <1>15, <2>2
    <3>2. Decimal(10 * q + r) = 16 * q + r
      BY <1>15, <2>2 DEF Decimal
    <3>3. res % 256 = 16 * q + r
      BY <1>15, <1>16, <1>18, <2>2
    <3> QED
      BY <3>1, <3>2, <3>3
  <2> QED
    BY <1>15, <2>1, <2>2
<1>20. cry # 0 <=> sum > 99
  <2>1. WithBit(f.C, 256) # 0
    BY <1>4 DEF WithBit, Has
  <2>2. sum > 99 <=> q > 9
    BY <1>15
  <2>3. q > 9 /\ h <= 15 => Has(res, 256)
    <3> SUFFICES ASSUME q > 9, h <= 15
                 PROVE  Has(res, 256)
      OBVIOUS
    <3>1. res = 16 * (q - 10) + r + 256
      BY <1>10, <1>17
    <3>2. res \in Nat /\ res >= 256 /\ res < 512
      BY <1>15, <3>1
    <3>3. res \div 256 = 1
      BY <3>2
    <3> QED
      BY <3>3 DEF Has
  <2>4. q <= 9 => ~Has(res, 256)
    BY <1>15, <1>16, <1>18 DEF Has
  <2>5. h > 15 => f.C # 0
    BY <1>12
  <2>6. q <= 9 => f.C = 0
    BY <1>12, <1>18, <1>15, <1>10
  <2> HIDE DEF res
  <2> QED
    BY <1>10, <1>15, <2>1, <2>2, <2>3, <2>4, <2>5, <2>6
<1>21. daa(f, s).f.C = cry
  <2> DEFINE low8 == res % 256
             f2 == daa(f, s).f
  <2>0. f2 = [f EXCEPT !.C = cry, !.N = low8, !.Z = low8, !.OV = 0]
    BY <1>1
  <2> HIDE DEF cry, low8, f2
  <2>1. [f EXCEPT !.C = cry, !.N = low8, !.Z = low8, !.OV = 0].C = cry
    BY DEF Lazy
  <2>2. f2.C = cry
    BY <2>0, <2>1, Zenon
  <2> QED
    BY <2>2, Zenon DEF f2
<1> QED
  BY <1>1, <1>19, <1>20, <1>21 DEF sum

\* Two bytes added or subtracted, the second time with the carry of the first, are two words
\* added or subtracted.
LEMMA SumsOfBytes ==
  ASSUME NEW a \in Byte, NEW b \in Byte, NEW x \in Byte, NEW y \in Byte,
         NEW c \in {0, 1}, c = 1 <=> b + y >= 256
  PROVE  LET d == 256 * a + b
             w == 256 * x + y
             r == (a + x + c) % 256
             s == (b + y) % 256
         IN  /\ d \in Word /\ w \in Word
             /\ 256 * r + s = (d + w) % 65536
             /\ r >= 128 <=> (d + w) % 65536 >= 32768
             /\ a + x + c >= 256 <=> d + w >= 65536
             /\ Outside(Signed(a, 256) + Signed(x, 256) + c, 256)
                  <=> Outside(Signed(d, 65536) + Signed(w, 65536), 65536)
<1> DEFINE d == 256 * a + b
           w == 256 * x + y
           r == (a + x + c) % 256
           s == (b + y) % 256
           C == IF a + x + c >= 256 THEN 1 ELSE 0
<1>1. /\ a \in Int /\ 0 <= a /\ a < 256 /\ b \in Int /\ 0 <= b /\ b < 256
      /\ x \in Int /\ 0 <= x /\ x < 256 /\ y \in Int /\ 0 <= y /\ y < 256
      /\ c \in Int /\ 0 <= c /\ c <= 1
  BY DEF Byte
<1>2. d \in Word /\ w \in Word /\ d \in Int /\ w \in Int
  BY <1>1 DEF Word
<1>3. s = b + y - 256 * c /\ 0 <= s /\ s < 256
  BY <1>1
<1>4. r = a + x + c - 256 * C /\ 0 <= r /\ r < 256 /\ C \in Int /\ 0 <= C /\ C <= 1
  BY <1>1
<1> HIDE DEF r, s
<1>5. d + w = 256 * r + s + 65536 * C
  BY <1>1, <1>3, <1>4
<1>6. 256 * r + s \in Int /\ 0 <= 256 * r + s /\ 256 * r + s < 65536 /\ r \in Int /\ s \in Int
  BY <1>1, <1>3, <1>4
<1>7. a + x + c >= 256 <=> d + w >= 65536
  BY <1>1, <1>5, <1>6
<1> HIDE DEF C
<1>8. 256 * r + s = (d + w) % 65536
  BY <1>1, <1>4, <1>5, <1>6
<1>9. r >= 128 <=> (d + w) % 65536 >= 32768
  BY <1>3, <1>6, <1>8
<1>10. /\ Signed(a, 256) = (IF a < 128 THEN a ELSE a - 256)
       /\ Signed(x, 256) = (IF x < 128 THEN x ELSE x - 256)
  BY <1>1 DEF Signed
<1>11. /\ Signed(d, 65536) = (IF d < 32768 THEN d ELSE d - 65536)
       /\ Signed(w, 65536) = (IF w < 32768 THEN w ELSE w - 65536)
  BY <1>2 DEF Signed, Word
<1> DEFINE sa == Signed(a, 256)
           sx == Signed(x, 256)
           sd == Signed(d, 65536)
           sw == Signed(w, 65536)
<1>12. sa \in Int /\ sx \in Int /\ sd = 256 * sa + b /\ sw = 256 * sx + y
  BY <1>1, <1>10, <1>11
<1> HIDE DEF sa, sx, sd, sw, d, w
<1>13. sd + sw = 256 * (sa + sx + c) + s
  BY <1>1, <1>3, <1>6, <1>12
<1>14. Outside(sa + sx + c, 256) <=> Outside(sd + sw, 65536)
  <2> DEFINE t == sa + sx + c
  <2>1. t \in Int
    BY <1>1, <1>12
  <2> HIDE DEF t
  <2>2. sd + sw = 256 * t + s
    BY <1>13 DEF t
  <2>3. Outside(t, 256) <=> Outside(256 * t + s, 65536)
    BY <1>3, <1>6, <2>1 DEF Outside
  <2> QED
    BY <2>2, <2>3 DEF t
<1> QED
  BY <1>2, <1>7, <1>8, <1>9, <1>14 DEF sa, sx, sd, sw, d, w, r, s

\* The same for subtraction, with the borrow.
LEMMA DifferencesOfBytes ==
  ASSUME NEW a \in Byte, NEW b \in Byte, NEW x \in Byte, NEW y \in Byte,
         NEW c \in {0, 1}, c = 1 <=> b < y
  PROVE  LET d == 256 * a + b
             w == 256 * x + y
             r == (a - x - c) % 256
             s == (b - y) % 256
         IN  /\ d \in Word /\ w \in Word
             /\ 256 * r + s = (d - w) % 65536
             /\ r >= 128 <=> (d - w) % 65536 >= 32768
             /\ a < x + c <=> d < w
             /\ Outside(Signed(a, 256) - Signed(x, 256) - c, 256)
                  <=> Outside(Signed(d, 65536) - Signed(w, 65536), 65536)
<1> DEFINE d == 256 * a + b
           w == 256 * x + y
           r == (a - x - c) % 256
           s == (b - y) % 256
           C == IF a < x + c THEN 1 ELSE 0
<1>1. /\ a \in Int /\ 0 <= a /\ a < 256 /\ b \in Int /\ 0 <= b /\ b < 256
      /\ x \in Int /\ 0 <= x /\ x < 256 /\ y \in Int /\ 0 <= y /\ y < 256
      /\ c \in Int /\ 0 <= c /\ c <= 1
  BY DEF Byte
<1>2. d \in Word /\ w \in Word /\ d \in Int /\ w \in Int
  BY <1>1 DEF Word
<1>3. s = b - y + 256 * c /\ 0 <= s /\ s < 256
  BY <1>1
<1>4. r = a - x - c + 256 * C /\ 0 <= r /\ r < 256 /\ C \in Int /\ 0 <= C /\ C <= 1
  BY <1>1
<1> HIDE DEF r, s
<1>5. d - w = 256 * r + s - 65536 * C
  BY <1>1, <1>3, <1>4
<1>6. 256 * r + s \in Int /\ 0 <= 256 * r + s /\ 256 * r + s < 65536 /\ r \in Int /\ s \in Int
  BY <1>1, <1>3, <1>4
<1>7. a < x + c <=> d < w
  BY <1>1, <1>5, <1>6
<1> HIDE DEF C
<1>8. 256 * r + s = (d - w) % 65536
  BY <1>1, <1>4, <1>5, <1>6
<1>9. r >= 128 <=> (d - w) % 65536 >= 32768
  BY <1>3, <1>6, <1>8
<1>10. /\ Signed(a, 256) = (IF a < 128 THEN a ELSE a - 256)
       /\ Signed(x, 256) = (IF x < 128 THEN x ELSE x - 256)
  BY <1>1 DEF Signed
<1>11. /\ Signed(d, 65536) = (IF d < 32768 THEN d ELSE d - 65536)
       /\ Signed(w, 65536) = (IF w < 32768 THEN w ELSE w - 65536)
  BY <1>2 DEF Signed, Word
<1> DEFINE sa == Signed(a, 256)
           sx == Signed(x, 256)
           sd == Signed(d, 65536)
           sw == Signed(w, 65536)
<1>12. sa \in Int /\ sx \in Int /\ sd = 256 * sa + b /\ sw = 256 * sx + y
  BY <1>1, <1>10, <1>11
<1> HIDE DEF sa, sx, sd, sw, d, w
<1>13. sd - sw = 256 * (sa - sx - c) + s
  BY <1>1, <1>3, <1>6, <1>12
<1>14. Outside(sa - sx - c, 256) <=> Outside(sd - sw, 65536)
  <2> DEFINE t == sa - sx - c
  <2>1. t \in Int
    BY <1>1, <1>12
  <2> HIDE DEF t
  <2>2. sd - sw = 256 * t + s
    BY <1>13 DEF t
  <2>3. Outside(t, 256) <=> Outside(256 * t + s, 65536)
    BY <1>3, <1>6, <2>1 DEF Outside
  <2> QED
    BY <2>2, <2>3 DEF t
<1> QED
  BY <1>2, <1>7, <1>8, <1>9, <1>14 DEF sa, sx, sd, sw, d, w, r, s

\* The programs MultiPrecision speaks of.
Chained(l)   == /\ Len(l.code) = 4
                /\ <<l.code[1], l.code[3]>> \in {<<203, 137>>, <<192, 130>>}
Corrected(l) == /\ Len(l.code) = 3 /\ l.code[1] = 139 /\ l.code[3] = 25
                /\ IsDecimal(l.regs.A) /\ IsDecimal(l.code[2])
                /\ ~CorrectedTwice(l.regs.A + l.code[2])

\* Before the first instruction, and between the two.
Started == /\ cpu.PC = Origin /\ cpu.mem = InitialMemory(load)
           /\ cpu.A = load.regs.A /\ cpu.B = load.regs.B

Halfway ==
  LET code == load.code
      a == load.regs.A
      b == load.regs.B
  IN  /\ cpu.PC = Origin + 2 /\ cpu.mem = InitialMemory(load)
      /\ Chained(load) =>
           /\ cpu.A = a
           /\ cpu.B = (IF code[1] = 203 THEN b + code[2] ELSE b - code[2]) % 256
           /\ cpu.f.C # 0 <=> (IF code[1] = 203 THEN b + code[2] >= 256 ELSE b < code[2])
      /\ Corrected(load) =>
           /\ cpu.A = (a + code[2]) % 256
           /\ Has(cpu.f.H, 16) <=> (a % 16) + (code[2] % 16) > 15
           /\ cpu.f.C # 0 <=> a + code[2] >= 256

\* The inductive invariant of MultiPrecision.
MInv == /\ IInv /\ load \in Loads
        /\ count = 0 => Started
        /\ count = 1 /\ (Chained(load) \/ Corrected(load)) => Halfway
        /\ MultiPrecision

\* The program is a sequence of bytes, and the registers of a load have their widths.
LEMMA LoadIs ==
  ASSUME NEW l \in Loads
  PROVE  /\ l.regs.A \in Byte /\ l.regs.B \in Byte /\ l.regs.CC \in Byte
         /\ Len(l.code) \in Nat /\ \A k \in 1..Len(l.code) : l.code[k] \in Byte
BY LoadsAssumption DEF RegFile

\* What an addition or a subtraction leaves, in numbers.
LEMMA PlainSums ==
  ASSUME NEW op, NEW x \in Byte, NEW y \in Byte, NEW old, NEW f, NEW res,
         Exact(op, x, y, old, [f |-> f, res |-> res])
  PROVE  LET c == old % 2
         IN  /\ op = "add" => /\ res = (x + y) % 256 /\ (f.C # 0 <=> x + y >= 256)
                              /\ Has(f.H, 16) <=> (x % 16) + (y % 16) > 15
             /\ op = "sub" => res = (x - y) % 256 /\ (f.C # 0 <=> x < y)
             /\ op = "adc" => /\ res = (x + y + c) % 256 /\ (f.C # 0 <=> x + y + c >= 256)
                              /\ Has(f.N, 128) <=> res >= 128
                              /\ Has(f.OV, 128) <=> Outside(Signed(x, 256) + Signed(y, 256) + c, 256)
             /\ op = "sbc" => /\ res = (x - y - c) % 256 /\ (f.C # 0 <=> x < y + c)
                              /\ Has(f.N, 128) <=> res >= 128
                              /\ Has(f.OV, 128) <=> Outside(Signed(x, 256) - Signed(y, 256) - c, 256)
<1> DEFINE r == [f |-> f, res |-> res]
           cin == CarryIn(op, old)
<1>1. r.f = f /\ r.res = res
  OBVIOUS
<1> HIDE DEF r
<1>2. /\ res = IdealResult(op, x, y, cin)
      /\ Has(f.H, 16) <=> IdealH(op, x, y, cin, old)
      /\ Has(f.N, 128) <=> res >= Width(op) \div 2
      /\ Has(f.OV, 128) <=> IdealV(op, x, y, cin, old)
      /\ f.C # 0 <=> IdealC(op, x, y, cin, old)
  <2>1. Exact(op, x, y, old, r)
    BY DEF r
  <2> QED
    BY <1>1, <2>1 DEF Exact, Decodes, cin
<1>3. x \in Int /\ y \in Int
  BY DEF Byte
<1>4. ASSUME op = "add" \/ op = "sub"
      PROVE  cin = 0 /\ Width(op) = 256
  BY <1>4 DEF CarryIn, Width, WordOps
<1>5. ASSUME op = "adc" \/ op = "sbc"
      PROVE  cin = old % 2 /\ Width(op) = 256 /\ Width(op) \div 2 = 128
  BY <1>5 DEF CarryIn, Width, WordOps
<1> HIDE DEF cin
<1>6. CASE op = "add"
  <2>1. x + y + 0 = x + y /\ (x % 16) + (y % 16) + 0 = (x % 16) + (y % 16)
    BY <1>3
  <2> QED
    BY <1>2, <1>4, <1>6, <2>1 DEF IdealResult, IdealC, IdealH
<1>7. CASE op = "sub"
  <2>1. x - y - 0 = x - y /\ y + 0 = y
    BY <1>3
  <2> QED
    BY <1>2, <1>4, <1>7, <2>1 DEF IdealResult, IdealC
<1>8. CASE op = "adc"
  BY <1>2, <1>5, <1>8 DEF IdealResult, IdealC, IdealV
<1>9. CASE op = "sbc"
  BY <1>2, <1>5, <1>9 DEF IdealResult, IdealC, IdealV
<1> QED
  BY <1>6, <1>7, <1>8, <1>9

\* The first instruction.
LEMMA FirstStep ==
  ASSUME cpu \in Cpu, load \in Loads, Started, Next, Chained(load) \/ Corrected(load)
  PROVE  Halfway'
<1> DEFINE code == load.code
           a == load.regs.A
           b == load.regs.B
<1>1. Len(code) \in Nat /\ Len(code) >= 3 /\ 1 \in 1..Len(code) /\ 2 \in 1..Len(code)
  BY LoadIs DEF Chained, Corrected
<1>2. Origin \in Nat
  BY DEF Origin
<1>3. /\ read8(cpu, cpu.PC) = code[1] /\ read8(cpu, cpu.PC + 1) = code[2]
      /\ code[1] \in Byte /\ code[2] \in Byte /\ a \in Byte /\ b \in Byte
  <2>1. Origin + 1 - 1 = Origin /\ Origin + 2 - 1 = Origin + 1
    BY <1>2
  <2> QED
    BY <1>1, <2>1, CodeIs, LoadIs DEF Started
<1>4. ASSUME NEW op \in ByteOps, op \notin TestOps, NEW reg \in Accumulators,
             page_0(code[1]) = Insn(op, reg, "imm_byte", 2), code[1] # 16, code[1] # 17
      PROVE  /\ load' = load /\ cpu'.PC = Origin + 2 /\ cpu'.mem = InitialMemory(load)
             /\ cpu'[Other(reg)] = cpu[Other(reg)]
             /\ Exact(op, cpu[reg], code[2], Get(cpu, "CC"), [f |-> cpu'.f, res |-> cpu'[reg]])
  BY <1>3, <1>4, ImmediateStep DEF Started
<1>5. CASE Chained(load) /\ code[1] = 203
  <2>1. /\ load' = load /\ cpu'.PC = Origin + 2 /\ cpu'.mem = InitialMemory(load)
        /\ cpu'.A = a /\ Exact("add", b, code[2], Get(cpu, "CC"), [f |-> cpu'.f, res |-> cpu'.B])
    BY <1>4, <1>5, OpcodesAre DEF ByteOps, TestOps, Accumulators, Other, Started
  <2>2. cpu'.B = (b + code[2]) % 256 /\ (cpu'.f.C # 0 <=> b + code[2] >= 256)
    BY <1>3, <2>1, PlainSums
  <2>3. ~Corrected(load)
    BY <1>5 DEF Corrected
  <2> QED
    BY <1>5, <2>1, <2>2, <2>3 DEF Halfway, Corrected, Chained
<1>6. CASE Chained(load) /\ code[1] # 203
  <2>0. code[1] = 192
    BY <1>6 DEF Chained
  <2>1. /\ load' = load /\ cpu'.PC = Origin + 2 /\ cpu'.mem = InitialMemory(load)
        /\ cpu'.A = a /\ Exact("sub", b, code[2], Get(cpu, "CC"), [f |-> cpu'.f, res |-> cpu'.B])
    BY <1>4, <2>0, OpcodesAre DEF ByteOps, TestOps, Accumulators, Other, Started
  <2>2. cpu'.B = (b - code[2]) % 256 /\ (cpu'.f.C # 0 <=> b < code[2])
    BY <1>3, <2>1, PlainSums
  <2>3. ~Corrected(load)
    BY <2>0 DEF Corrected
  <2> QED
    BY <1>6, <2>0, <2>1, <2>2, <2>3 DEF Halfway, Corrected, Chained
<1>7. CASE Corrected(load)
  <2>0. code[1] = 139 /\ ~Chained(load)
    BY <1>7 DEF Corrected, Chained
  <2>1. /\ load' = load /\ cpu'.PC = Origin + 2 /\ cpu'.mem = InitialMemory(load)
        /\ Exact("add", a, code[2], Get(cpu, "CC"), [f |-> cpu'.f, res |-> cpu'.A])
    BY <1>4, <2>0, OpcodesAre DEF ByteOps, TestOps, Accumulators, Other, Started
  <2>2. /\ cpu'.A = (a + code[2]) % 256 /\ (cpu'.f.C # 0 <=> a + code[2] >= 256)
        /\ Has(cpu'.f.H, 16) <=> (a % 16) + (code[2] % 16) > 15
    BY <1>3, <2>1, PlainSums
  <2> QED
    BY <2>0, <2>1, <2>2 DEF Halfway, Corrected, Chained
<1> QED
  BY <1>5, <1>6, <1>7

\* The second instruction of a double sum.
LEMMA SecondStep ==
  ASSUME cpu \in Cpu, load \in Loads, Halfway, Next, Chained(load)
  PROVE  DoubleSums'
<1> DEFINE code == load.code
           a == load.regs.A
           b == load.regs.B
           x == code[4]
           y == code[2]
           d == 256 * a + b
           w == 256 * x + y
           cc == load.regs.CC
           old == Get(cpu, "CC")
           c == old % 2
<1>1. Len(code) = 4 /\ 2 \in 1..Len(code) /\ 3 \in 1..Len(code) /\ 4 \in 1..Len(code)
  BY DEF Chained
<1>2. Origin \in Nat
  BY DEF Origin
<1>3. /\ read8(cpu, cpu.PC) = code[3] /\ read8(cpu, cpu.PC + 1) = x
      /\ code[3] \in Byte /\ x \in Byte /\ y \in Byte /\ a \in Byte /\ b \in Byte /\ cc \in Byte
  <2>1. Origin + 3 - 1 = Origin + 2 /\ Origin + 4 - 1 = Origin + 2 + 1
    BY <1>2
  <2> QED
    BY <1>1, <2>1, CodeIs, LoadIs DEF Halfway
<1>4. cpu.A = a /\ Other("A") = "B"
  BY DEF Halfway, Other
<1>5. c \in {0, 1} /\ (c = 1 <=> cpu.f.C # 0)
  <2>1. Shows(cpu.f, old)
    BY ShowsIs
  <2> QED
    BY <2>1 DEF Shows, Carry
<1> HIDE DEF c, old
<1>6. ASSUME NEW op \in ByteOps, op \notin TestOps,
             page_0(code[3]) = Insn(op, "A", "imm_byte", 2), code[3] # 16, code[3] # 17
      PROVE  /\ load' = load /\ cpu' \in Cpu /\ cpu'.B = cpu.B
             /\ Exact(op, a, x, old, [f |-> cpu'.f, res |-> cpu'.A])
  <2>1. "A" \in Accumulators
    BY DEF Accumulators
  <2> QED
    BY <1>3, <1>4, <1>6, <2>1, ImmediateStep DEF old
<1>7. ASSUME NEW op \in {"addd", "subd"}, load' = load, cpu' \in Cpu,
             op = (IF code[1] = 203 THEN "addd" ELSE "subd"),
             IdealResult(op, d, w, 0) \in Word,
             256 * cpu'.A + cpu'.B = IdealResult(op, d, w, 0),
             Has(cpu'.f.N, 128) <=> IdealResult(op, d, w, 0) >= 32768,
             Has(cpu'.f.OV, 128) <=> IdealV(op, d, w, 0, cc),
             cpu'.f.C # 0 <=> IdealC(op, d, w, 0, cc)
      PROVE  DoubleSums'
  <2> DEFINE ideal == IdealCC(op, d, w, cc)
             now == Get(cpu', "CC")
  <2>1. CarryIn(op, cc) = 0 /\ Width(op) = 65536 /\ Width(op) \div 2 = 32768
    BY <1>7 DEF CarryIn, Width, WordOps
  <2>2. /\ Has(ideal, N_FLAG) <=> IdealResult(op, d, w, 0) >= 32768
        /\ Has(ideal, V_FLAG) <=> IdealV(op, d, w, 0, cc)
        /\ Has(ideal, C_FLAG) <=> IdealC(op, d, w, 0, cc)
    <3> HIDE DEF d, w, cc
    <3>1. cc \in Byte
      BY <1>3
    <3> QED
      BY <1>7, <2>1, <3>1, IdealFlags
  <2>3. Shows(cpu'.f, now) /\ (Has(now, N_FLAG) <=> Has(cpu'.f.N, 128))
    <3>1. now = get_cc(cpu'.EFI, cpu'.f) /\ cpu'.EFI \in Efis /\ cpu'.f \in Lazy
      BY <1>7, CpuIs DEF Get
    <3> QED
      BY <1>7, <3>1, ShowsIs, NegativeIs
  <2> HIDE DEF ideal, now
  <2>4. /\ Has(now, N_FLAG) <=> Has(ideal, N_FLAG)
        /\ Has(now, V_FLAG) <=> Has(ideal, V_FLAG)
        /\ Has(now, C_FLAG) <=> Has(ideal, C_FLAG)
    BY <1>7, <2>2, <2>3 DEF Shows
  <2>5. \A flag \in {N_FLAG, V_FLAG, C_FLAG} : Has(now, flag) = Has(ideal, flag)
    BY <2>4 DEF Has
  <2>6. get_d(cpu') = IdealResult(op, d, w, 0)
    BY <1>7 DEF get_d
  <2> QED
    BY <1>7, <2>5, <2>6 DEF DoubleSums, ideal, now
<1>8. CASE code[1] = 203
  <2>0. code[3] = 137
    BY <1>8 DEF Chained
  <2>1. /\ load' = load /\ cpu' \in Cpu /\ cpu'.B = cpu.B
        /\ Exact("adc", a, x, old, [f |-> cpu'.f, res |-> cpu'.A])
    BY <1>6, <2>0, OpcodesAre DEF ByteOps, TestOps
  <2>2. /\ cpu'.A = (a + x + c) % 256
        /\ cpu'.f.C # 0 <=> a + x + c >= 256
        /\ Has(cpu'.f.N, 128) <=> cpu'.A >= 128
        /\ Has(cpu'.f.OV, 128) <=> Outside(Signed(a, 256) + Signed(x, 256) + c, 256)
    BY <1>3, <2>1, PlainSums DEF c
  <2>3. cpu.B = (b + y) % 256 /\ (c = 1 <=> b + y >= 256)
    BY <1>5, <1>8 DEF Halfway
  <2>4. /\ d \in Word /\ w \in Word
        /\ 256 * cpu'.A + cpu'.B = (d + w) % 65536
        /\ cpu'.A >= 128 <=> (d + w) % 65536 >= 32768
        /\ a + x + c >= 256 <=> d + w >= 65536
        /\ Outside(Signed(a, 256) + Signed(x, 256) + c, 256)
             <=> Outside(Signed(d, 65536) + Signed(w, 65536), 65536)
    <3> HIDE DEF a, b, x, y
    <3> QED
      BY <1>3, <1>5, <2>1, <2>2, <2>3, SumsOfBytes
  <2> HIDE DEF d, w
  <2>5. /\ d + w \in Int /\ d + w + 0 = d + w
        /\ Signed(d, 65536) + Signed(w, 65536) + 0 = Signed(d, 65536) + Signed(w, 65536)
    BY <2>4 DEF Word, Signed
  <2>6. Width("addd") = 65536
    BY DEF Width, WordOps
  <2>7. /\ IdealResult("addd", d, w, 0) = (d + w) % 65536
        /\ IdealV("addd", d, w, 0, cc) <=> Outside(Signed(d, 65536) + Signed(w, 65536), 65536)
        /\ IdealC("addd", d, w, 0, cc) <=> d + w >= 65536
    BY <2>5, <2>6 DEF IdealResult, IdealV, IdealC
  <2>8. (d + w) % 65536 \in Word
    BY <2>5, Wrap
  <2> QED
    BY <1>7, <1>8, <2>1, <2>2, <2>4, <2>7, <2>8
<1>9. CASE code[1] # 203
  <2>0. code[1] = 192 /\ code[3] = 130
    BY <1>9 DEF Chained
  <2>1. /\ load' = load /\ cpu' \in Cpu /\ cpu'.B = cpu.B
        /\ Exact("sbc", a, x, old, [f |-> cpu'.f, res |-> cpu'.A])
    BY <1>6, <2>0, OpcodesAre DEF ByteOps, TestOps
  <2>2. /\ cpu'.A = (a - x - c) % 256
        /\ cpu'.f.C # 0 <=> a < x + c
        /\ Has(cpu'.f.N, 128) <=> cpu'.A >= 128
        /\ Has(cpu'.f.OV, 128) <=> Outside(Signed(a, 256) - Signed(x, 256) - c, 256)
    BY <1>3, <2>1, PlainSums DEF c
  <2>3. cpu.B = (b - y) % 256 /\ (c = 1 <=> b < y)
    BY <1>5, <1>9 DEF Halfway
  <2>4. /\ d \in Word /\ w \in Word
        /\ 256 * cpu'.A + cpu'.B = (d - w) % 65536
        /\ cpu'.A >= 128 <=> (d - w) % 65536 >= 32768
        /\ a < x + c <=> d < w
        /\ Outside(Signed(a, 256) - Signed(x, 256) - c, 256)
             <=> Outside(Signed(d, 65536) - Signed(w, 65536), 65536)
    <3> HIDE DEF a, b, x, y
    <3> QED
      BY <1>3, <1>5, <2>1, <2>2, <2>3, DifferencesOfBytes
  <2> HIDE DEF d, w
  <2>5. /\ d - w \in Int /\ d - w - 0 = d - w /\ w + 0 = w
        /\ Signed(d, 65536) - Signed(w, 65536) - 0 = Signed(d, 65536) - Signed(w, 65536)
    BY <2>4 DEF Word, Signed
  <2>6. Width("subd") = 65536
    BY DEF Width, WordOps
  <2>7. /\ IdealResult("subd", d, w, 0) = (d - w) % 65536
        /\ IdealV("subd", d, w, 0, cc) <=> Outside(Signed(d, 65536) - Signed(w, 65536), 65536)
        /\ IdealC("subd", d, w, 0, cc) <=> d < w
    BY <2>5, <2>6 DEF IdealResult, IdealV, IdealC
  <2>8. (d - w) % 65536 \in Word
    BY <2>5, Wrap
  <2> QED
    BY <1>7, <1>9, <2>1, <2>2, <2>4, <2>7, <2>8
<1> QED
  BY <1>8, <1>9

\* The second instruction of a decimal sum.
LEMMA CorrectStep ==
  ASSUME cpu \in Cpu, load \in Loads, Halfway, Next, Corrected(load)
  PROVE  DecimalSums'
<1> DEFINE code == load.code
           a == load.regs.A
           b == code[2]
           s == cpu.A
           f == cpu.f
           sum == Number(a) + Number(b)
<1>1. Len(code) = 3 /\ 2 \in 1..Len(code) /\ 3 \in 1..Len(code) /\ code[3] = 25
  BY DEF Corrected
<1>2. Origin + 3 - 1 = Origin + 2
  BY DEF Origin
<1>3. read8(cpu, cpu.PC) = 25 /\ a \in Byte /\ b \in Byte
  BY <1>1, <1>2, CodeIs, LoadIs DEF Halfway
<1>4. load' = load /\ cpu' \in Cpu /\ cpu'.A = daa(f, s).res /\ cpu'.f = daa(f, s).f
  BY <1>3, DaaStep
<1>5. /\ IsDecimal(a) /\ IsDecimal(b) /\ ~CorrectedTwice(a + b)
      /\ s = (a + b) % 256
      /\ Has(f.H, 16) <=> (a % 16) + (b % 16) > 15
      /\ f.C # 0 <=> a + b >= 256
      /\ f \in Lazy
  BY CpuIs DEF Halfway, Corrected
<1> HIDE DEF s, f, a, b
<1>6. /\ daa(f, s).res = Decimal(sum % 100)
      /\ daa(f, s).f.C # 0 <=> sum > 99
  BY <1>3, <1>5, DaaAdds
<1>7. Has(Get(cpu', "CC"), C_FLAG) <=> cpu'.f.C # 0
  BY <1>4, ShowsIs DEF Shows
<1> HIDE DEF sum
<1>8. Has(Get(cpu', "CC"), C_FLAG) <=> sum > 99
  BY <1>4, <1>6, <1>7
<1>9. Has(Get(cpu', "CC"), C_FLAG) = (sum > 99)
  BY <1>8 DEF Has
<1> QED
  BY <1>4, <1>6, <1>9 DEF DecimalSums, sum, a, b

\* A run starts in it.
LEMMA MInvInit ==
  ASSUME Init
  PROVE  MInv
<1>1. IInv
  BY InitIs
<1>2. Started /\ load \in Loads /\ count = 0
  BY DEF Init, Started
<1>3. MultiPrecision
  BY <1>2 DEF MultiPrecision, DoubleSums, DecimalSums
<1> QED
  BY <1>1, <1>2, <1>3 DEF MInv

\* Every step keeps it.
LEMMA MInvNext ==
  ASSUME MInv, Next
  PROVE  MInv'
<1>1. cpu \in Cpu /\ load \in Loads /\ count \in Nat
  BY DEF MInv, IInv
<1>2. load' = load /\ count' = count + 1
  BY DEF Next, UnaryInsn, ByteInsn, WordInsn, StoreInsn, LeaInsn, AccInsn, BranchInsn, JumpInsn,
         StackInsn, RegisterInsn, InterruptInsn, InvalidInsn, Plain, Turn
<1>3. IInv'
  BY NextIs DEF MInv
<1>4. CASE count = 0
  <2>1. Chained(load) \/ Corrected(load) => Halfway'
    BY <1>1, <1>4, FirstStep DEF MInv
  <2>2. count' = 1
    BY <1>2, <1>4
  <2>3. MultiPrecision'
    BY <2>2 DEF MultiPrecision, DoubleSums, DecimalSums
  <2> QED
    BY <1>1, <1>2, <1>3, <2>1, <2>2, <2>3 DEF MInv, Chained, Corrected
<1>5. CASE count = 1
  <2>1. count' = 2
    BY <1>2, <1>5
  <2>2. Chained(load) => DoubleSums'
    BY <1>1, <1>5, SecondStep DEF MInv
  <2>3. Corrected(load) => DecimalSums'
    BY <1>1, <1>5, CorrectStep DEF MInv
  <2>4. ~Chained(load) => DoubleSums'
    BY <1>2 DEF DoubleSums, Chained
  <2>5. ~Corrected(load) => DecimalSums'
    BY <1>2 DEF DecimalSums, Corrected
  <2> QED
    BY <1>1, <1>2, <1>3, <2>1, <2>2, <2>3, <2>4, <2>5 DEF MInv, MultiPrecision
<1>6. CASE count > 1
  <2>1. count' > 2 /\ count' \in Nat
    BY <1>1, <1>2, <1>6
  <2>2. MultiPrecision'
    BY <2>1 DEF MultiPrecision, DoubleSums, DecimalSums
  <2> QED
    BY <1>1, <1>2, <1>3, <2>1, <2>2 DEF MInv
<1> QED
  BY <1>1, <1>4, <1>5, <1>6

\* ADDB and ADCA, and SUBB and SBCA, are ADDD and SUBD; ADDA and DAA add decimal numbers,
\* but for the sums daa() corrects twice: at every operand, from every state of the flags.
THEOREM SumsCarryOver == Spec => []MultiPrecision
<1>1. Init => MInv
  BY MInvInit
<1>2. MInv /\ [Next]_vars => MInv'
  <2>1. MInv /\ UNCHANGED vars => MInv'
    BY DEF MInv, IInv, vars, Started, Halfway, Chained, Corrected, MultiPrecision, DoubleSums, DecimalSums,
           EndOfCode
  <2> QED
    BY <2>1, MInvNext
<1>3. MInv => MultiPrecision
  BY DEF MInv
<1> QED
  BY <1>1, <1>2, <1>3, PTL DEF Spec

-----------------------------------------------------------------------------
(* What is undone. *)

\* The registers that Undone compares.
Frame == {"A", "B", "DP", "X", "Y", "U", "S", "CC"}

\* set_cc() keeps every flag that get_cc() shows.
LEMMA CodesBack ==
  ASSUME NEW v \in Byte
  PROVE  get_cc(v & EFI_FLAGS, set_cc(v)) = v
<1> DEFINE b(m) == IF Has(v, m) THEN m ELSE 0
           f == set_cc(v)
<1>1. v = b(128) + b(64) + b(32) + b(16) + b(8) + b(4) + b(2) + b(1)
  <2>1. v \in Int /\ 0 <= v /\ v < 256
    BY DEF Byte
  <2>2. v = 128 * (v \div 128) + 64 * ((v \div 64) % 2) + 32 * ((v \div 32) % 2)
            + 16 * ((v \div 16) % 2) + 8 * ((v \div 8) % 2) + 4 * ((v \div 4) % 2)
            + 2 * ((v \div 2) % 2) + (v % 2)
    BY <2>1
  <2>3. /\ (v \div 128) % 2 = v \div 128 /\ v \div 128 \in {0, 1} /\ (v \div 64) % 2 \in {0, 1}
        /\ (v \div 32) % 2 \in {0, 1} /\ (v \div 16) % 2 \in {0, 1} /\ (v \div 8) % 2 \in {0, 1}
        /\ (v \div 4) % 2 \in {0, 1} /\ (v \div 2) % 2 \in {0, 1} /\ v % 2 \in {0, 1}
        /\ v \div 1 = v
    BY <2>1
  <2>4. /\ b(128) = 128 * (v \div 128) /\ b(64) = 64 * ((v \div 64) % 2)
        /\ b(32) = 32 * ((v \div 32) % 2) /\ b(16) = 16 * ((v \div 16) % 2)
        /\ b(8) = 8 * ((v \div 8) % 2) /\ b(4) = 4 * ((v \div 4) % 2)
        /\ b(2) = 2 * ((v \div 2) % 2) /\ b(1) = v % 2
    BY <2>3 DEF Has
  <2> QED
    BY <2>2, <2>4
<1>2. v & EFI_FLAGS = b(128) + b(64) + b(16)
  BY EfiBits DEF EfiOf, Only
<1>3. /\ Has(f.H, 16) <=> Has(v, 32)
      /\ Has(f.N, 128) <=> Has(v, 8)
      /\ f.Z = 0 <=> Has(v, 4)
      /\ Has(f.OV, 128) <=> Has(v, 2)
      /\ f.C # 0 <=> Has(v, 1)
  <2>1. Has(16, 16) /\ ~Has(0, 16) /\ Has(128, 128) /\ ~Has(0, 128)
    BY DEF Has
  <2>2. /\ f.H = IF Has(v, 32) THEN 16 ELSE 0
        /\ f.N = IF Has(v, 8) THEN 128 ELSE 0
        /\ f.Z = IF Has(v, 4) THEN 0 ELSE 4
        /\ f.OV = IF Has(v, 2) THEN 128 ELSE 0
        /\ f.C = IF Has(v, 1) THEN 1 ELSE 0
    BY DEF set_cc, H_FLAG, N_FLAG, Z_FLAG, V_FLAG, C_FLAG
  <2> HIDE DEF f
  <2> QED
    BY <2>1, <2>2
<1> HIDE DEF f
<1>4. get_cc(v & EFI_FLAGS, f) = (b(128) + b(64) + b(16)) + b(32) + b(8) + b(4) + b(2) + b(1)
  BY <1>2, <1>3 DEF get_cc, H_FLAG, N_FLAG, Z_FLAG, V_FLAG, C_FLAG
<1>5. /\ b(128) \in Int /\ b(64) \in Int /\ b(32) \in Int /\ b(16) \in Int
      /\ b(8) \in Int /\ b(4) \in Int /\ b(2) \in Int /\ b(1) \in Int
  OBVIOUS
<1> HIDE DEF b
<1> QED
  BY <1>1, <1>4, <1>5 DEF f

\* An 8-bit register reads back what was put in it.
LEMMA SetByteBack ==
  ASSUME NEW c \in Cpu, NEW r \in ByteRegs, NEW v \in Byte
  PROVE  Get(Set(c, r, v), r) = v
<1> DEFINE d == Set(c, r, v)
<1>1. CASE r \in {"A", "B"}
  <2>1. d = [c EXCEPT ![r] = v]
    BY <1>1 DEF Set
  <2>2. d[r] = v
    BY <1>1, <2>1 DEF Cpu
  <2> QED
    BY <1>1, <2>2 DEF Get
<1>2. CASE r = "DP"
  <2> DEFINE p == 256 * v
  <2>1. d = [c EXCEPT !.DP = p]
    BY <1>2 DEF Set
  <2>2. d.DP = p
    BY <2>1 DEF Cpu
  <2>3. p \div 256 = v
    BY DEF Byte
  <2> QED
    BY <1>2, <2>2, <2>3 DEF Get
<1>3. CASE r = "CC"
  <2> DEFINE efi == v & EFI_FLAGS
             f == set_cc(v)
  <2>1. d = [c EXCEPT !.EFI = efi, !.f = f]
    BY <1>3 DEF Set, set_CC
  <2>2. get_cc(efi, f) = v
    BY CodesBack
  <2> HIDE DEF efi, f
  <2>3. d.EFI = efi /\ d.f = f
    BY <2>1 DEF Cpu
  <2> HIDE DEF d
  <2>4. Get(d, "CC") = v
    BY <2>2, <2>3 DEF Get
  <2> QED
    BY <1>3, <2>4 DEF d
<1> QED
  BY <1>1, <1>2, <1>3 DEF ByteRegs

\* A register whose fields did not change is the same.
LEMMA GetKept ==
  ASSUME NEW c, NEW d, NEW S, Changed(c, d, S), NEW r \in Regs, Holds(r) \cap S = {}
  PROVE  Get(d, r) = Get(c, r)
<1>1. CASE r = "D"
  <2>1. d.A = c.A /\ d.B = c.B
    BY <1>1 DEF Changed, Names, Holds, JustD
  <2> QED
    BY <1>1, <2>1 DEF Get, get_d
<1>2. CASE r = "CC"
  <2>1. d.EFI = c.EFI /\ d.f = c.f
    BY <1>2 DEF Changed, Names, Holds, Codes
  <2> QED
    BY <1>2, <2>1 DEF Get
<1>3. CASE r \in {"X", "Y", "U", "S", "A", "B"}
  <2>1. d[r] = c[r]
    BY <1>3 DEF Changed, Names, Holds, Just
  <2> QED
    BY <1>3, <2>1 DEF Get
<1>4. CASE r = "PC"
  <2>1. d.PC = c.PC
    BY <1>4 DEF Changed, Names, Holds, Just
  <2> QED
    BY <1>4, <2>1 DEF Get
<1>5. CASE r = "DP"
  <2>1. d.DP = c.DP
    BY <1>5 DEF Changed, Names, Holds, Just
  <2> QED
    BY <1>5, <2>1 DEF Get
<1> QED
  BY <1>1, <1>2, <1>3, <1>4, <1>5 DEF Regs, WordRegs, ByteRegs

\* Registers share no field, but for D with A and B.
LEMMA Apart ==
  ASSUME NEW r \in Regs, NEW x \in Regs, r # x, r = "D" => x \notin {"A", "B"},
         x = "D" => r \notin {"A", "B"}
  PROVE  Holds(r) \cap Holds(x) = {}
<1>1. r \in {"D", "X", "Y", "U", "S", "PC", "A", "B", "DP", "CC"}
      /\ x \in {"D", "X", "Y", "U", "S", "PC", "A", "B", "DP", "CC"}
  BY DEF Regs, WordRegs, ByteRegs
<1>2. CASE r = "D"
  <2>1. x \notin {"A", "B"} /\ x # "D"
    BY <1>2
  <2> QED
    BY <1>1, <1>2, <2>1 DEF Holds, JustD, Just, Codes
<1>3. CASE r = "CC"
  <2>1. x # "CC"
    BY <1>3
  <2> QED
    BY <1>1, <1>3, <2>1 DEF Holds, JustD, Just, Codes
<1>4. CASE r \notin {"D", "CC"}
  <2>1. Holds(r) = {r}
    BY <1>4 DEF Holds, Just
  <2>2. r \notin Holds(x)
    BY <1>1, <1>4 DEF Holds, JustD, Just, Codes
  <2> QED
    BY <2>1, <2>2
<1> QED
  BY <1>2, <1>3, <1>4

-----------------------------------------------------------------------------
(* A push and its pull. *)

\* g has the memory of c, but for n bytes below the stack pointer of c.
Deep(c, g, sp, n) ==
  \A b \in Int : (\A j \in 1..n : b % 65536 # Below(c, sp, j)) => read8(g, b) = read8(c, b)

\* Pulling has brought back the stack pointer and the registers V of c, from the
\* memory of g.
Back(c, d, g, sp, V) ==
  d \in Cpu /\ d.mem = g.mem /\ Sp(d, sp) = Sp(c, sp) /\ \A x \in V : Get(d, x) = Get(c, x)

\* What was pushed last is the last that is still there.
LEMMA PushedIs ==
  ASSUME NEW c \in Cpu, NEW sp \in Stacks, NEW r \in Regs, NEW e, e = PushReg(c, sp, r)
  PROVE  /\ r \in WordRegs => RDMEM16(e, Sp(e, sp)) = Get(c, r)
         /\ r \in ByteRegs => read8(e, Sp(e, sp)) = Get(c, r)
<1> DEFINE a == Below(c, sp, Size(r))
           v == Get(c, r)
           d == StoreReg(c, a, r)
<1>0. Sp(e, sp) = a
  BY PushIs
<1>1. CASE r \in WordRegs
  BY <1>0, <1>1, PushIs, SizeIs
<1>2. CASE r \in ByteRegs
  <2>1. v \in Byte /\ a = Below(c, sp, 1) /\ d = write8(c, a, v) /\ r \notin WordRegs /\ a \in Word
        /\ a \in Int
    BY <1>2, GetIs, SizeIs, StackIs DEF StoreReg
  <2>2. e = MoveStack(d, sp, a)
    BY DEF PushReg, Below, Sp
  <2> HIDE DEF a, v, d
  <2>3. Changed(c, d, JustMem) /\ read8(d, a) = v
    <3>1. Changed(c, d, JustMem) /\ \A b \in Int : read8(d, b) = IF b % 65536 = a THEN v ELSE read8(c, b)
      BY <2>1, WriteIs
    <3>2. a % 65536 = a
      BY <2>1, Wrap
    <3> QED
      BY <2>1, <3>1, <3>2
  <2>4. d \in Cpu
    BY <2>3 DEF Changed
  <2>5. Changed(d, e, JustStack(sp))
    BY <2>1, <2>2, <2>4, MoveStackIs
  <2>6. e.mem = d.mem
    BY <2>5 DEF Changed, Names, Stacks, JustStack
  <2>7. read8(e, a) = v
    BY <2>3, <2>6 DEF read8
  <2> QED
    BY <1>0, <2>1, <2>7 DEF v
<1> QED
  BY <1>1, <1>2, SizeIs

\* A pull brings the stack pointer up and the register from there.
LEMMA PulledIs ==
  ASSUME NEW c \in Cpu, NEW sp \in Stacks, NEW r \in Regs, r \notin {"D", sp},
         NEW e, e = PullReg(c, sp, r)
  PROVE  /\ Sp(e, sp) = (Sp(c, sp) + Size(r)) % 65536 /\ e \in Cpu /\ e.mem = c.mem
         /\ r \in WordRegs => Get(e, r) = RDMEM16(c, Sp(c, sp))
         /\ r \in ByteRegs => Get(e, r) = read8(c, Sp(c, sp))
         /\ r = "PC" => e.PC = RDMEM16(c, Sp(c, sp))
<1> DEFINE v == IF r \in WordRegs THEN RDMEM16(c, Sp(c, sp)) ELSE read8(c, Sp(c, sp))
           d == FetchReg(c, Sp(c, sp), r)
           a == Sp(d, sp) + Size(r)
<1>0. Sp(c, sp) \in Int /\ Size(r) \in Int
  BY StackIs, SizeIs
<1>1. (r \in WordRegs => v \in Word) /\ (r \in ByteRegs => v \in Byte)
  <2>1. RDMEM16(c, Sp(c, sp)) \in Word /\ read8(c, Sp(c, sp)) \in Byte
    BY <1>0, ReadIs
  <2>2. r \in ByteRegs => r \notin WordRegs
    BY SizeIs
  <2> QED
    BY <2>1, <2>2
<1>2. e = MoveStack(d, sp, a)
  BY DEF PullReg, Sp
<1>s. d = Set(c, r, v)
  BY DEF FetchReg
<1> HIDE DEF d
<1>v. (r \in WordRegs => v = RDMEM16(c, Sp(c, sp))) /\ (r \in ByteRegs => v = read8(c, Sp(c, sp)))
  BY SizeIs
<1>p. r = "PC" => d.PC = v
  <2> HIDE DEF v
  <2>1. ASSUME r = "PC" PROVE d.PC = v
    <3>1. Set(c, "PC", v) = [c EXCEPT !.PC = v]
      BY DEF Set
    <3>2. d = [c EXCEPT !.PC = v]
      BY <1>s, <2>1, <3>1
    <3> QED
      BY <3>2 DEF Cpu
  <2> QED
    BY <2>1
<1> HIDE DEF v
<1>3. Changed(c, d, Holds(r)) /\ Get(d, r) = v
  BY <1>1, <1>s, SetWordIs, SetByteIs, SetByteBack, SizeIs
<1>4. d \in Cpu
  BY <1>3 DEF Changed
<1>5. Holds(r) \cap Holds(sp) = {} /\ Holds(sp) = JustStack(sp) /\ sp \in Regs /\ "mem" \notin Holds(r)
  <2>1. sp \in Regs /\ sp \notin {"A", "B", "D", "CC"}
    BY DEF Stacks, Regs, WordRegs, ByteRegs
  <2>2. Holds(sp) = JustStack(sp)
    BY <2>1 DEF Holds, JustStack, Just
  <2> QED
    BY <2>1, <2>2, Apart, HoldsIs
<1>6. Sp(d, sp) = Sp(c, sp) /\ d.mem = c.mem
  <2>1. sp \in Names /\ sp \notin Holds(r) /\ "mem" \in Names
    BY <1>5 DEF Stacks, Names, JustStack
  <2> QED
    BY <1>3, <1>5, <2>1 DEF Changed, Sp
<1>7. Changed(d, e, JustStack(sp)) /\ Sp(e, sp) = a % 65536
  BY <1>0, <1>2, <1>4, <1>6, MoveStackIs
<1>8. Get(e, r) = v
  BY <1>3, <1>5, <1>7, GetKept
<1>9. e \in Cpu /\ e.mem = d.mem /\ e.PC = d.PC
  BY <1>7 DEF Changed, Names, JustStack, Stacks
<1>10. "PC" \in WordRegs
  BY DEF WordRegs
<1> QED
  BY <1>6, <1>7, <1>8, <1>9, <1>10, <1>v, <1>p

\* The bytes above the stack pointer are still there.
LEMMA StillThere ==
  ASSUME NEW c \in Cpu, NEW sp \in Stacks, NEW n \in Nat, n <= 20, NEW g, Deep(c, g, sp, n)
  PROVE  /\ read8(g, Sp(c, sp)) = read8(c, Sp(c, sp))
         /\ RDMEM16(g, Sp(c, sp)) = RDMEM16(c, Sp(c, sp))
<1> DEFINE s == Sp(c, sp)
<1>0. s \in Word
  BY StackIs
<1>1. s \in Int /\ \A j \in Int : Below(c, sp, j) = (s - j) % 65536
  BY StackIs DEF Below
<1>2. \A j \in 1..n : j \in 1..20 /\ j \in Int
  OBVIOUS
<1> HIDE DEF s
<1>3. ASSUME NEW i \in 0..1 PROVE read8(g, s + i) = read8(c, s + i)
  <2>1. s + i \in Int
    BY <1>1
  <2>2. ASSUME NEW j \in 1..n PROVE (s + i) % 65536 # Below(c, sp, j)
    <3>0. j \in 1..20
      OBVIOUS
    <3>1. (s + i) % 65536 # (s - j) % 65536
      <4>1. /\ s \in Int /\ 0 <= s /\ s < 65536 /\ i \in Int /\ 0 <= i /\ i <= 1
            /\ j \in Int /\ 1 <= j /\ j <= 20
        BY <1>0, <3>0 DEF Word
      <4>2. CASE s - j >= 0
        BY <4>1, <4>2
      <4>3. CASE s - j < 0
        BY <4>1, <4>3
      <4> QED
        BY <4>1, <4>2, <4>3
    <3> QED
      BY <1>1, <1>2, <3>1
  <2> QED
    BY <2>1, <2>2 DEF Deep
<1>4. read8(g, s) = read8(c, s)
  <2>1. s + 0 = s
    BY <1>1
  <2> QED
    BY <1>3, <2>1
<1>5. read8(g, s + 1) = read8(c, s + 1)
  BY <1>3
<1> QED
  BY <1>4, <1>5 DEF RDMEM16, s

\* One push more.
LEMMA DeepPush ==
  ASSUME NEW c \in Cpu, NEW sp \in Stacks, NEW r \in Regs, NEW c1, c1 = PushReg(c, sp, r),
         NEW n \in Nat, NEW g, Deep(c1, g, sp, n)
  PROVE  c1 \in Cpu /\ Deep(c, g, sp, n + Size(r))
<1> DEFINE s == Sp(c, sp)
           k == Size(r)
<1>1. /\ c1 \in Cpu /\ Sp(c1, sp) = Below(c, sp, k)
      /\ \A b \in Int : b % 65536 # Below(c, sp, 1) /\ b % 65536 # Below(c, sp, 2)
                          => read8(c1, b) = read8(c, b)
      /\ k = 1 => \A b \in Int : b % 65536 # Below(c, sp, 1) => read8(c1, b) = read8(c, b)
  <2>1. /\ Changed(c, c1, StoreFields(sp)) /\ Sp(c1, sp) = Below(c, sp, k)
        /\ \A b \in Int : b % 65536 # Below(c, sp, 1) /\ b % 65536 # Below(c, sp, 2)
                            => read8(c1, b) = read8(c, b)
    BY PushIs
  <2>2. ASSUME k = 1, NEW b \in Int, b % 65536 # Below(c, sp, 1)
        PROVE  read8(c1, b) = read8(c, b)
    <3> DEFINE a == Below(c, sp, k)
               v == Get(c, r)
               d == StoreReg(c, a, r)
    <3>1. r \notin WordRegs /\ v \in Byte /\ a \in Word /\ a \in Int /\ a = Below(c, sp, 1)
      BY <2>2, GetIs, SizeIs, StackIs
    <3>2. c1 = MoveStack(d, sp, a)
      BY DEF PushReg, Below, Sp
    <3>w. d = write8(c, a, v)
      BY <3>1 DEF StoreReg
    <3> HIDE DEF a, v, d
    <3>3. Changed(c, d, JustMem) /\ read8(d, b) = read8(c, b)
      BY <2>2, <3>1, <3>w, WriteIs
    <3>4. d \in Cpu
      BY <3>3 DEF Changed
    <3>5. Changed(d, c1, JustStack(sp))
      BY <3>1, <3>2, <3>4, MoveStackIs
    <3>6. c1.mem = d.mem
      BY <3>5 DEF Changed, Names, Stacks, JustStack
    <3> QED
      BY <3>3, <3>6 DEF read8
  <2> QED
    BY <2>1, <2>2 DEF Changed
<1>2. s \in Int /\ k \in Nat /\ (k = 1 \/ k = 2)
  BY StackIs, SizeIs
<1>3. \A j \in Int : Below(c, sp, j) = (s - j) % 65536 /\ Below(c1, sp, j) = (s - (k + j)) % 65536
  <2>1. \A j \in Int : Below(c, sp, j) = (s - j) % 65536
    BY DEF Below
  <2>2. Sp(c1, sp) = (s - k) % 65536
    BY <1>1, <1>2, <2>1
  <2>3. ASSUME NEW j \in Int PROVE (((s - k) % 65536) - j) % 65536 = (s - (k + j)) % 65536
    BY <1>2
  <2> QED
    BY <2>1, <2>2, <2>3 DEF Below
<1> HIDE DEF s, k
<1>4. ASSUME NEW b \in Int, \A j \in 1..(n + k) : b % 65536 # Below(c, sp, j)
      PROVE  read8(g, b) = read8(c, b)
  <2>1. \A j \in 1..n : k + j \in 1..(n + k) /\ j \in Int /\ k + j \in Int
    BY <1>2
  <2>2. \A j \in 1..n : b % 65536 # Below(c1, sp, j)
    <3>1. \A j \in 1..n : Below(c1, sp, j) = Below(c, sp, k + j)
      BY <1>3, <2>1
    <3> QED
      BY <1>4, <2>1, <3>1
  <2>3. read8(g, b) = read8(c1, b)
    BY <2>2 DEF Deep
  <2>4. read8(c1, b) = read8(c, b)
    <3>1. CASE k = 1
      <4>1. 1 \in 1..(n + k)
        BY <3>1
      <4> QED
        BY <1>1, <1>4, <3>1, <4>1
    <3>2. CASE k = 2
      <4>1. 1 \in 1..(n + k) /\ 2 \in 1..(n + k)
        BY <3>2
      <4> QED
        BY <1>1, <1>4, <3>2, <4>1
    <3> QED
      BY <1>2, <3>1, <3>2
  <2> QED
    BY <2>3, <2>4
<1>5. Deep(c, g, sp, n + k)
  BY <1>4 DEF Deep
<1> QED
  BY <1>1, <1>5 DEF k

\* A push and the pull of the same register, with anything that is undone between them.
LEMMA Nest ==
  ASSUME NEW c \in Cpu, NEW sp \in Stacks, NEW r \in Frame \cup {"PC"}, r # sp,
         NEW c1, c1 = PushReg(c, sp, r), NEW n \in Nat, n <= 20, NEW g, Deep(c1, g, sp, n),
         NEW V, V \subseteq Frame, NEW d1, Back(c1, d1, g, sp, V), NEW d, d = PullReg(d1, sp, r)
  PROVE  /\ Back(c, d, g, sp, V \cup {r}) /\ Deep(c, g, sp, n + Size(r))
         /\ r = "PC" => d.PC = c.PC % 65536
<1>1. r \in Regs /\ r \notin {"D", sp} /\ Frame \subseteq Regs /\ "D" \notin Frame /\ sp \in Frame
  BY DEF Frame, Regs, WordRegs, ByteRegs, Stacks
<1>2. c1 \in Cpu /\ Deep(c, g, sp, n + Size(r))
  BY <1>1, DeepPush
<1>3. Changed(c, c1, StoreFields(sp)) /\ Sp(c1, sp) = Below(c, sp, Size(r))
  BY <1>1, PushIs
<1>4. /\ d1 \in Cpu /\ d1.mem = g.mem /\ Sp(d1, sp) = Sp(c1, sp)
      /\ \A x \in V : Get(d1, x) = Get(c1, x)
  BY DEF Back
<1>5. /\ Sp(d, sp) = (Sp(d1, sp) + Size(r)) % 65536 /\ d \in Cpu /\ d.mem = d1.mem
      /\ r \in WordRegs => Get(d, r) = RDMEM16(d1, Sp(d1, sp))
      /\ r \in ByteRegs => Get(d, r) = read8(d1, Sp(d1, sp))
      /\ r = "PC" => d.PC = RDMEM16(d1, Sp(d1, sp))
  BY <1>1, <1>4, PulledIs
<1>6. Sp(d, sp) = Sp(c, sp)
  <2>1. Sp(d, sp) = (Below(c, sp, Size(r)) + Size(r)) % 65536
    BY <1>3, <1>4, <1>5
  <2> DEFINE s == Sp(c, sp)
             k == Size(r)
  <2>2. s \in Int /\ 0 <= s /\ s < 65536 /\ k \in Int
    BY <1>1, StackIs, SizeIs DEF Word
  <2>3. Below(c, sp, k) = (s - k) % 65536
    BY DEF Below
  <2> HIDE DEF s, k
  <2>4. (((s - k) % 65536) + k) % 65536 = s
    BY <2>2
  <2> QED
    BY <2>1, <2>3, <2>4 DEF s, k
<1>7. Get(d, r) = Get(c, r) /\ (r = "PC" => d.PC = Get(c, r))
  <2>1. /\ r \in WordRegs => RDMEM16(c1, Sp(c1, sp)) = Get(c, r)
        /\ r \in ByteRegs => read8(c1, Sp(c1, sp)) = Get(c, r)
    BY <1>1, PushedIs
  <2>2. /\ read8(g, Sp(c1, sp)) = read8(c1, Sp(c1, sp))
        /\ RDMEM16(g, Sp(c1, sp)) = RDMEM16(c1, Sp(c1, sp))
    BY <1>2, StillThere
  <2>3. \A b : read8(d1, b) = read8(g, b) /\ RDMEM16(d1, b) = RDMEM16(g, b)
    BY <1>4, SameMemory
  <2>4. "PC" \in WordRegs
    BY DEF WordRegs
  <2> QED
    BY <1>1, <1>4, <1>5, <2>1, <2>2, <2>3, <2>4, SizeIs
<1>8. ASSUME NEW x \in V, x # r PROVE Get(d, x) = Get(c, x)
  <2>1. x \in Regs /\ x # "D" /\ x # "mem" /\ x \in Frame /\ "mem" \notin Holds(x)
    BY <1>1, HoldsIs DEF Frame
  <2>2. CASE x = sp
    BY <1>6, <2>2 DEF Get, Sp, Stacks
  <2>3. CASE x # sp
    <3>1. Holds(sp) = {sp} /\ sp \in Regs /\ sp # "D"
      BY <1>1 DEF Stacks, Holds, Just
    <3>2. Holds(x) \cap Holds(sp) = {} /\ Holds(x) \cap Holds(r) = {}
      BY <1>1, <1>8, <2>1, <2>3, <3>1, Apart
    <3>3. Get(c1, x) = Get(c, x)
      <4>1. Holds(x) \cap StoreFields(sp) = {}
        BY <2>1, <3>1, <3>2 DEF StoreFields
      <4> QED
        BY <1>3, <2>1, <4>1, GetKept
    <3>4. Get(d, x) = Get(d1, x)
      <4>1. Holds(x) \cap PullFields(r, sp) = {}
        BY <3>1, <3>2 DEF PullFields
      <4>2. Changed(d1, d, PullFields(r, sp))
        BY <1>1, <1>4, PullIs
      <4> QED
        BY <2>1, <4>1, <4>2, GetKept
    <3> QED
      BY <1>4, <3>3, <3>4
  <2> QED
    BY <2>2, <2>3
<1>9. Back(c, d, g, sp, V \cup {r})
  BY <1>4, <1>5, <1>6, <1>7, <1>8 DEF Back
<1>10. Get(c, "PC") = c.PC % 65536
  BY DEF Get
<1> QED
  BY <1>2, <1>7, <1>9, <1>10

\* Cycles do not matter.
LEMMA BackClock ==
  ASSUME NEW c \in Cpu, NEW m \in Int, NEW d \in Cpu, NEW n \in Int, NEW g, NEW sp \in Stacks,
         NEW V, V \subseteq Frame
  PROVE  /\ Back(Clock(c, m), d, g, sp, V) <=> Back(c, d, g, sp, V)
         /\ Back(c, Clock(d, n), g, sp, V) <=> Back(c, d, g, sp, V)
         /\ \A k : Deep(Clock(c, m), g, sp, k) <=> Deep(c, g, sp, k)
<1>1. ASSUME NEW e \in Cpu, NEW i \in Int
      PROVE  /\ Clock(e, i) \in Cpu /\ Clock(e, i).mem = e.mem /\ Sp(Clock(e, i), sp) = Sp(e, sp)
             /\ \A x \in Frame : Get(Clock(e, i), x) = Get(e, x)
  <2>1. Changed(e, Clock(e, i), JustCycles)
    BY <1>1, ClockIs
  <2>2. ASSUME NEW x \in Frame PROVE Get(Clock(e, i), x) = Get(e, x)
    <3>1. x \in Regs /\ Holds(x) \cap JustCycles = {}
      <4>1. x \in Regs
        BY DEF Frame, Regs, WordRegs, ByteRegs
      <4> QED
        BY <4>1, HoldsIs DEF JustCycles
    <3> QED
      BY <2>1, <3>1, GetKept
  <2> QED
    BY <2>1, <2>2 DEF Changed, Names, JustCycles, Sp, Stacks
<1>2. Back(Clock(c, m), d, g, sp, V) <=> Back(c, d, g, sp, V)
  BY <1>1 DEF Back
<1>3. Back(c, Clock(d, n), g, sp, V) <=> Back(c, d, g, sp, V)
  BY <1>1 DEF Back
<1>4. ASSUME NEW k PROVE Deep(Clock(c, m), g, sp, k) <=> Deep(c, g, sp, k)
  <2>1. \A j : Below(Clock(c, m), sp, j) = Below(c, sp, j)
    BY <1>1 DEF Below
  <2>2. \A b : read8(Clock(c, m), b) = read8(c, b)
    BY <1>1, SameMemory
  <2> QED
    BY <2>1, <2>2 DEF Deep
<1> QED
  BY <1>2, <1>3, <1>4

\* The same for a register that a post-byte may name, and every register.
LEMMA NestIf ==
  ASSUME NEW c \in Cpu, NEW sp \in Stacks, NEW post, NEW mask, NEW r \in Frame, r # sp,
         NEW c1, c1 = PushIf(c, sp, post, mask, r), NEW n \in Nat, n <= 18, NEW g, Deep(c1, g, sp, n)
  PROVE  /\ Deep(c, g, sp, n + Size(r))
         /\ \A d1, d : Back(c1, d1, g, sp, Frame) /\ d = PullIf(d1, sp, post, mask, r)
                         => Back(c, d, g, sp, Frame)
<1> DEFINE p == PushReg(c, sp, r)
           k == Size(r)
<1>0. r \in Regs /\ k \in Nat /\ k <= 2 /\ k \in Int /\ Frame \cup {r} = Frame
  <2>1. r \in Regs
    BY DEF Frame, Regs, WordRegs, ByteRegs
  <2> QED
    BY <2>1, SizeIs
<1>1. CASE Has(post, mask)
  <2>1. c1 = Clock(p, k)
    BY <1>1 DEF PushIf
  <2>p. p \in Cpu
    BY <1>0, PushIs DEF Changed
  <2> HIDE DEF p, k
  <2>2. Deep(p, g, sp, n)
    BY <1>0, <2>1, <2>p, BackClock
  <2>3. Deep(c, g, sp, n + k)
    BY <1>0, <2>2, DeepPush DEF p, k
  <2>4. ASSUME NEW d1, NEW d, Back(c1, d1, g, sp, Frame), d = PullIf(d1, sp, post, mask, r)
        PROVE  Back(c, d, g, sp, Frame)
    <3> DEFINE q == PullReg(d1, sp, r)
    <3>1. d = Clock(q, k)
      BY <1>1, <2>4 DEF PullIf, k
    <3>2. d1 \in Cpu
      BY <2>4 DEF Back
    <3>3. Back(p, d1, g, sp, Frame)
      BY <1>0, <2>1, <2>p, <2>4, <3>2, BackClock
    <3>4. Back(c, q, g, sp, Frame)
      <4>1. r \in Frame \cup {"PC"} /\ n <= 20 /\ p = PushReg(c, sp, r)
        BY DEF p
      <4>2. Back(c, q, g, sp, Frame \cup {r})
        BY <2>2, <3>3, <4>1, Nest
      <4> QED
        BY <1>0, <4>2
    <3>5. q \in Cpu
      BY <3>4 DEF Back
    <3> HIDE DEF q
    <3> QED
      BY <1>0, <3>1, <3>4, <3>5, BackClock
  <2> QED
    BY <2>3, <2>4 DEF k
<1>2. CASE ~Has(post, mask)
  <2>1. c1 = c
    BY <1>2 DEF PushIf
  <2>2. \A d1 : PullIf(d1, sp, post, mask, r) = d1
    BY <1>2 DEF PullIf
  <2> HIDE DEF k
  <2>3. Deep(c, g, sp, n + k)
    <3>1. \A j \in 1..n : j \in 1..(n + k)
      BY <1>0
    <3> QED
      BY <2>1, <3>1 DEF Deep
  <2> QED
    BY <2>1, <2>2, <2>3 DEF k
<1> QED
  BY <1>1, <1>2

\* The stack pointer and the registers a post-byte names on it.
Named(sp, order) == (sp = "S" /\ order = SysOrder) \/ (sp = "U" /\ order = UsrOrder)

\* They are those of Frame, each with its size.
LEMMA NamedAre ==
  ASSUME NEW sp, NEW order, Named(sp, order)
  PROVE  /\ sp \in Stacks /\ order \in {SysOrder, UsrOrder} /\ order[1] = "PC"
         /\ order[2] \in Frame /\ order[2] # sp /\ Size(order[2]) = 2
         /\ order[3] \in Frame /\ order[3] # sp /\ Size(order[3]) = 2
         /\ order[4] \in Frame /\ order[4] # sp /\ Size(order[4]) = 2
         /\ order[5] \in Frame /\ order[5] # sp /\ Size(order[5]) = 1
         /\ order[6] \in Frame /\ order[6] # sp /\ Size(order[6]) = 1
         /\ order[7] \in Frame /\ order[7] # sp /\ Size(order[7]) = 1
         /\ order[8] \in Frame /\ order[8] # sp /\ Size(order[8]) = 1
BY DEF Named, SysOrder, UsrOrder, Stacks, Frame, Size, WordRegs

\* PSHS and PULS, or PSHU and PULU, without PC: at most ten bytes are touched, and
\* the pull brings back what the push found.
LEMMA PushThenPull ==
  ASSUME NEW c \in Cpu, NEW sp, NEW order, Named(sp, order), ~Has(imm_byte(c), 128),
         NEW g, g = Push(c, sp, order)
  PROVE  /\ Deep(c, g, sp, 10)
         /\ \A e \in Cpu : imm_byte(e) = imm_byte(c) /\ Back(g, e, g, sp, Frame)
                             => Back(c, Pull(e, sp, order), g, sp, Frame)
<1> DEFINE post == imm_byte(c)
           d0 == Clock(Advance(c, 1), 5)
           d1 == PushIf(d0, sp, post, 128, order[1])
           d2 == PushIf(d1, sp, post, 64, order[2])
           d3 == PushIf(d2, sp, post, 32, order[3])
           d4 == PushIf(d3, sp, post, 16, order[4])
           d5 == PushIf(d4, sp, post, 8, order[5])
           d6 == PushIf(d5, sp, post, 4, order[6])
           d7 == PushIf(d6, sp, post, 2, order[7])
           d8 == PushIf(d7, sp, post, 1, order[8])
<1>0. g = d8
  BY DEF Push
<1>o. /\ sp \in Stacks
      /\ order[2] \in Frame /\ order[2] # sp /\ Size(order[2]) = 2
      /\ order[3] \in Frame /\ order[3] # sp /\ Size(order[3]) = 2
      /\ order[4] \in Frame /\ order[4] # sp /\ Size(order[4]) = 2
      /\ order[5] \in Frame /\ order[5] # sp /\ Size(order[5]) = 1
      /\ order[6] \in Frame /\ order[6] # sp /\ Size(order[6]) = 1
      /\ order[7] \in Frame /\ order[7] # sp /\ Size(order[7]) = 1
      /\ order[8] \in Frame /\ order[8] # sp /\ Size(order[8]) = 1
  BY NamedAre
<1>f. Frame \subseteq Regs
  BY DEF Frame, Regs, WordRegs, ByteRegs
<1>c. d0 \in Cpu
  BY PostIs
<1>1. d1 = d0
  BY DEF PushIf
<1>i. ASSUME NEW d \in Cpu, NEW m, NEW r \in Frame PROVE PushIf(d, sp, post, m, r) \in Cpu
  BY <1>i, <1>o, <1>f, PushIfIs DEF Later, Changed
<1> HIDE DEF post, d0, d1
<1>2. d2 \in Cpu
  BY <1>c, <1>1, <1>o, <1>i
<1> HIDE DEF d2
<1>3. d3 \in Cpu
  BY <1>2, <1>o, <1>i
<1> HIDE DEF d3
<1>4. d4 \in Cpu
  BY <1>3, <1>o, <1>i
<1> HIDE DEF d4
<1>5. d5 \in Cpu
  BY <1>4, <1>o, <1>i
<1> HIDE DEF d5
<1>6. d6 \in Cpu
  BY <1>5, <1>o, <1>i
<1> HIDE DEF d6
<1>7. d7 \in Cpu
  BY <1>6, <1>o, <1>i
<1> HIDE DEF d7
<1>8. d8 \in Cpu /\ Deep(d8, d8, sp, 0)
  BY <1>7, <1>o, <1>i DEF Deep
<1> DEFINE Undoes(a, b, m, r) ==
             \A x, y : Back(b, x, g, sp, Frame) /\ y = PullIf(x, sp, post, m, r)
                         => Back(a, y, g, sp, Frame)
<1>l. ASSUME NEW a \in Cpu, NEW b, NEW m, NEW r \in Frame, r # sp, b = PushIf(a, sp, post, m, r),
             NEW n \in Nat, n <= 18, Deep(b, g, sp, n)
      PROVE  Deep(a, g, sp, n + Size(r)) /\ Undoes(a, b, m, r)
  <2>1. /\ Deep(a, g, sp, n + Size(r))
        /\ \A x, y : Back(b, x, g, sp, Frame) /\ y = PullIf(x, sp, post, m, r)
                       => Back(a, y, g, sp, Frame)
    BY <1>l, <1>o, NestIf
  <2> QED
    BY <2>1
<1> HIDE DEF Undoes
<1>17. Deep(d7, g, sp, 1) /\ Undoes(d7, d8, 1, order[8])
  <2>1. Deep(d7, g, sp, 0 + Size(order[8])) /\ Undoes(d7, d8, 1, order[8])
    BY <1>0, <1>7, <1>8, <1>o, <1>l
  <2> QED
    BY <2>1, <1>o
<1> HIDE DEF d8
<1>16. Deep(d6, g, sp, 2) /\ Undoes(d6, d7, 2, order[7])
  <2>1. Deep(d6, g, sp, 1 + Size(order[7])) /\ Undoes(d6, d7, 2, order[7])
    BY <1>6, <1>17, <1>o, <1>l DEF d7
  <2> QED
    BY <2>1, <1>o
<1>15. Deep(d5, g, sp, 3) /\ Undoes(d5, d6, 4, order[6])
  <2>1. Deep(d5, g, sp, 2 + Size(order[6])) /\ Undoes(d5, d6, 4, order[6])
    BY <1>5, <1>16, <1>o, <1>l DEF d6
  <2> QED
    BY <2>1, <1>o
<1>14. Deep(d4, g, sp, 4) /\ Undoes(d4, d5, 8, order[5])
  <2>1. Deep(d4, g, sp, 3 + Size(order[5])) /\ Undoes(d4, d5, 8, order[5])
    BY <1>4, <1>15, <1>o, <1>l DEF d5
  <2> QED
    BY <2>1, <1>o
<1>13. Deep(d3, g, sp, 6) /\ Undoes(d3, d4, 16, order[4])
  <2>1. Deep(d3, g, sp, 4 + Size(order[4])) /\ Undoes(d3, d4, 16, order[4])
    BY <1>3, <1>14, <1>o, <1>l DEF d4
  <2> QED
    BY <2>1, <1>o
<1>12. Deep(d2, g, sp, 8) /\ Undoes(d2, d3, 32, order[3])
  <2>1. Deep(d2, g, sp, 6 + Size(order[3])) /\ Undoes(d2, d3, 32, order[3])
    BY <1>2, <1>13, <1>o, <1>l DEF d3
  <2> QED
    BY <2>1, <1>o
<1>11. Deep(d0, g, sp, 10) /\ Undoes(d0, d2, 64, order[2])
  <2>1. Deep(d0, g, sp, 8 + Size(order[2])) /\ Undoes(d0, d2, 64, order[2])
    BY <1>c, <1>1, <1>12, <1>o, <1>l DEF d2
  <2> QED
    BY <2>1, <1>o
<1>20. /\ \A x : Back(d0, x, g, sp, Frame) => Back(c, x, g, sp, Frame)
       /\ Deep(d0, g, sp, 10) => Deep(c, g, sp, 10)
  <2> DEFINE a == Advance(c, 1)
  <2>1. Changed(c, a, JustPC)
    BY AdvanceIs
  <2>2. a \in Cpu /\ a.mem = c.mem /\ Sp(a, sp) = Sp(c, sp)
    BY <2>1, <1>o DEF Changed, Names, JustPC, Stacks, Sp
  <2>3. \A x \in Frame : Get(a, x) = Get(c, x)
    <3>1. ASSUME NEW x \in Frame PROVE Holds(x) \cap JustPC = {}
      BY DEF Frame, Holds, Just, JustPC, Codes
    <3> QED
      BY <1>f, <2>1, <3>1, GetKept
  <2>4. d0 = Clock(a, 5)
    BY DEF d0
  <2> HIDE DEF a
  <2>5. ASSUME NEW x, Back(d0, x, g, sp, Frame) PROVE Back(c, x, g, sp, Frame)
    <3>1. x \in Cpu
      BY <2>5 DEF Back
    <3>2. Back(a, x, g, sp, Frame)
      BY <1>o, <2>2, <2>4, <2>5, <3>1, BackClock
    <3> QED
      BY <2>2, <2>3, <3>2 DEF Back
  <2>6. ASSUME Deep(d0, g, sp, 10) PROVE Deep(c, g, sp, 10)
    <3>1. Deep(a, g, sp, 10)
      BY <1>o, <2>2, <2>4, <2>6, BackClock
    <3>2. \A b : read8(a, b) = read8(c, b)
      BY <2>2, SameMemory
    <3> QED
      BY <2>2, <3>1, <3>2 DEF Deep, Below
  <2> QED
    BY <2>5, <2>6
<1>21. ASSUME NEW e \in Cpu, imm_byte(e) = post, Back(g, e, g, sp, Frame)
       PROVE  Back(c, Pull(e, sp, order), g, sp, Frame)
  <2> DEFINE e0 == Clock(Advance(e, 1), 5)
             e1 == PullIf(e0, sp, post, 1, order[8])
             e2 == PullIf(e1, sp, post, 2, order[7])
             e3 == PullIf(e2, sp, post, 4, order[6])
             e4 == PullIf(e3, sp, post, 8, order[5])
             e5 == PullIf(e4, sp, post, 16, order[4])
             e6 == PullIf(e5, sp, post, 32, order[3])
             e7 == PullIf(e6, sp, post, 64, order[2])
             e8 == PullIf(e7, sp, post, 128, order[1])
  <2>0. Pull(e, sp, order) = e8
    BY <1>21 DEF Pull
  <2>c. Back(g, e0, g, sp, Frame)
    <3> DEFINE a == Advance(e, 1)
    <3>1. Changed(e, a, JustPC)
      BY AdvanceIs
    <3>2. a \in Cpu /\ a.mem = e.mem /\ Sp(a, sp) = Sp(e, sp)
      BY <3>1, <1>o DEF Changed, Names, JustPC, Stacks, Sp
    <3>3. \A x \in Frame : Get(a, x) = Get(e, x)
      <4>1. ASSUME NEW x \in Frame PROVE Holds(x) \cap JustPC = {}
        BY DEF Frame, Holds, Just, JustPC, Codes
      <4> QED
        BY <1>f, <3>1, <4>1, GetKept
    <3>4. e0 = Clock(a, 5)
      OBVIOUS
    <3> HIDE DEF a, e0
    <3>5. Back(g, a, g, sp, Frame)
      BY <1>21, <3>2, <3>3 DEF Back
    <3>6. g \in Cpu
      BY <1>0, <1>8
    <3> QED
      BY <1>o, <3>2, <3>4, <3>5, <3>6, BackClock
  <2> HIDE DEF e0
  <2>1. Back(d7, e1, g, sp, Frame)
    BY <1>0, <1>17, <2>c DEF Undoes
  <2> HIDE DEF e1
  <2>2. Back(d6, e2, g, sp, Frame)
    BY <1>16, <2>1 DEF Undoes
  <2> HIDE DEF e2
  <2>3. Back(d5, e3, g, sp, Frame)
    BY <1>15, <2>2 DEF Undoes
  <2> HIDE DEF e3
  <2>4. Back(d4, e4, g, sp, Frame)
    BY <1>14, <2>3 DEF Undoes
  <2> HIDE DEF e4
  <2>5. Back(d3, e5, g, sp, Frame)
    BY <1>13, <2>4 DEF Undoes
  <2> HIDE DEF e5
  <2>6. Back(d2, e6, g, sp, Frame)
    BY <1>12, <2>5 DEF Undoes
  <2> HIDE DEF e6
  <2>7. Back(d0, e7, g, sp, Frame)
    BY <1>11, <2>6 DEF Undoes
  <2> HIDE DEF e7
  <2>8. e8 = e7
    <3>1. ~Has(post, 128)
      BY DEF post
    <3> QED
      BY <3>1 DEF PullIf
  <2> HIDE DEF e8
  <2>9. Back(d0, e8, g, sp, Frame)
    BY <2>7, <2>8
  <2> QED
    BY <1>20, <2>0, <2>9
<1> QED
  BY <1>11, <1>20, <1>21 DEF post

-----------------------------------------------------------------------------
(* An interrupt and its return. *)

\* E is raised in the codes as it is in EFI.
LEMMA RaisedCodes ==
  ASSUME NEW efi \in Efis, NEW f \in Lazy
  PROVE  Has(efi | 128, 128) /\ get_cc(efi | 128, f) = get_cc(efi, f) | 128
<1> DEFINE h == IF Has(f.H, 16) THEN 1 ELSE 0
           n == IF Has(f.N, 128) THEN 1 ELSE 0
           z == IF f.Z = 0 THEN 1 ELSE 0
           v == IF Has(f.OV, 128) THEN 1 ELSE 0
           c == IF f.C # 0 THEN 1 ELSE 0
<1>1. PICK e \in Bit, fi \in Bit, i \in Bit : efi = 128 * e + 64 * fi + 16 * i
  BY DEF Efis
<1>2. /\ h \in Bit /\ n \in Bit /\ z \in Bit /\ v \in Bit /\ c \in Bit /\ 0 \in Bit /\ 1 \in Bit
      /\ 128 \in Byte
  BY DEF Bit, Byte
<1>3. ASSUME NEW x \in Efis
      PROVE  get_cc(x, f) = x + 32 * h + 8 * n + 4 * z + 2 * v + c
  BY DEF get_cc, H_FLAG, N_FLAG, Z_FLAG, V_FLAG, C_FLAG
<1> HIDE DEF h, n, z, v, c
<1>4. ASSUME NEW h1 \in Bit, NEW n1 \in Bit, NEW z1 \in Bit, NEW v1 \in Bit, NEW c1 \in Bit
      PROVE  FlagBits(e, fi, h1, i, n1, z1, v1, c1) | 128 = FlagBits(1, fi, h1, i, n1, z1, v1, c1)
  <2> DEFINE x == FlagBits(e, fi, h1, i, n1, z1, v1, c1)
  <2>1. IsBits(x, e, fi, h1, i, n1, z1, v1, c1)
    BY BitsOfCC, Zenon
  <2>2. x \in Byte
    BY <2>1 DEF IsBits
  <2>3. x | 128 = ByteOr(x, 128)
    BY <1>2, <2>2, OnBytes
  <2>4. /\ Has(128, 128) /\ ~Has(128, 64) /\ ~Has(128, 32) /\ ~Has(128, 16)
        /\ ~Has(128, 8) /\ ~Has(128, 4) /\ ~Has(128, 2) /\ ~Has(128, 1)
    BY DEF Has
  <2> HIDE DEF x
  <2> DEFINE b(m) == IF Has(x, m) \/ Has(128, m) THEN m ELSE 0
  <2>b. ByteOr(x, 128) = b(128) + b(64) + b(32) + b(16) + b(8) + b(4) + b(2) + b(1)
    BY DEF ByteOr, Masks
  <2>6. /\ fi \in {0, 1} /\ h1 \in {0, 1} /\ i \in {0, 1} /\ n1 \in {0, 1} /\ z1 \in {0, 1}
        /\ v1 \in {0, 1} /\ c1 \in {0, 1}
    BY DEF Bit
  <2>m. /\ b(128) = 128 /\ b(64) = 64 * fi /\ b(32) = 32 * h1 /\ b(16) = 16 * i /\ b(8) = 8 * n1
        /\ b(4) = 4 * z1 /\ b(2) = 2 * v1 /\ b(1) = c1
    BY <2>1, <2>4, <2>6 DEF IsBits
  <2> HIDE DEF b
  <2>5. ByteOr(x, 128) = 128 * 1 + 64 * fi + 32 * h1 + 16 * i + 8 * n1 + 4 * z1 + 2 * v1 + c1
    BY <2>b, <2>m, <2>6
  <2> QED
    BY <2>3, <2>5, <2>6 DEF x, FlagBits
<1>5. efi = FlagBits(e, fi, 0, i, 0, 0, 0, 0)
  BY <1>1 DEF FlagBits, Bit
<1>6. efi | 128 = FlagBits(1, fi, 0, i, 0, 0, 0, 0)
  BY <1>2, <1>4, <1>5, SMTT(30)
<1>7. Has(efi | 128, 128)
  <2>1. IsBits(FlagBits(1, fi, 0, i, 0, 0, 0, 0), 1, fi, 0, i, 0, 0, 0, 0)
    BY <1>2, BitsOfCC, Zenon
  <2> QED
    BY <1>6, <2>1 DEF IsBits
<1>8. efi | 128 = 128 * 1 + 64 * fi + 16 * i /\ efi | 128 \in Efis
  BY <1>6, EfisKept DEF FlagBits, Bit
<1>9. get_cc(efi, f) = FlagBits(e, fi, h, i, n, z, v, c)
  BY <1>1, <1>3 DEF FlagBits
<1>10. get_cc(efi | 128, f) = FlagBits(1, fi, h, i, n, z, v, c)
  BY <1>3, <1>8 DEF FlagBits
<1>11. get_cc(efi, f) | 128 = FlagBits(1, fi, h, i, n, z, v, c)
  BY <1>2, <1>4, <1>9, SMTT(30)
<1> QED
  BY <1>7, <1>10, <1>11

\* f is c returned to, with E set.
Returned(c, f) ==
  /\ f \in Cpu /\ f.PC = c.PC % 65536
  /\ \A x \in Frame \ {"CC"} : Get(f, x) = Get(c, x)
  /\ Get(f, "CC") = Get(c, "CC") | 128

\* RTI, and PULS with all registers, take back the frame of an interrupt, which
\* twelve bytes below S make.
LEMMA FrameBack ==
  ASSUME NEW c \in Cpu, NEW g, g = stack_machine_state(c)
  PROVE  /\ g \in Cpu /\ Deep(c, g, "S", 12)
         /\ \A e \in Cpu : Back(g, e, g, "S", Frame \ {"CC"})
                             => /\ Returned(c, rti(e))
                                /\ imm_byte(e) = 255 => Returned(c, puls(e))
<1> DEFINE efi == c.EFI | 128
           b0 == [c EXCEPT !.EFI = efi]
           d0 == Clock(b0, 19)
           d1 == PushReg(d0, "S", "PC")
           d2 == PushReg(d1, "S", "U")
           d3 == PushReg(d2, "S", "Y")
           d4 == PushReg(d3, "S", "X")
           d5 == PushReg(d4, "S", "DP")
           d6 == PushReg(d5, "S", "B")
           d7 == PushReg(d6, "S", "A")
           d8 == PushReg(d7, "S", "CC")
           T == StoreFields("S")
<1>a. g = d8
  BY DEF stack_machine_state
<1>b. efi \in Efis /\ Has(efi, 128) /\ get_cc(efi, c.f) = Get(c, "CC") | 128
  BY CpuIs, EfisKept, RaisedCodes DEF Get
<1> HIDE DEF efi
<1>c. Changed(c, b0, JustEFI) /\ b0.EFI = efi
  BY <1>b DEF Changed, Names, Cpu, JustEFI
<1>d. b0 \in Cpu
  BY <1>c DEF Changed
<1> HIDE DEF b0
<1>e. Changed(b0, d0, JustCycles)
  BY <1>d, ClockIs
<1>f. /\ d0 \in Cpu /\ d0.PC = c.PC /\ Sp(d0, "S") = Sp(c, "S") /\ d0.mem = c.mem
      /\ d0.EFI = efi /\ d0.f = c.f
  BY <1>c, <1>e DEF Changed, Names, JustEFI, JustCycles, Sp
<1>g. ASSUME NEW x \in Frame \ {"CC"} PROVE Get(d0, x) = Get(c, x)
  <2>1. x \in Regs /\ Holds(x) \cap JustEFI = {} /\ Holds(x) \cap JustCycles = {}
    BY DEF Frame, Regs, WordRegs, ByteRegs, Holds, Just, JustEFI, JustCycles
  <2> QED
    BY <1>c, <1>e, <2>1, GetKept
<1>h. Get(d0, "CC") = Get(c, "CC") | 128
  BY <1>b, <1>f DEF Get
<1> HIDE DEF d0
<1>r. /\ "PC" \in Regs /\ Frame \subseteq Regs /\ "S" \in Stacks
      /\ Size("PC") = 2 /\ Size("U") = 2 /\ Size("Y") = 2 /\ Size("X") = 2
      /\ Size("DP") = 1 /\ Size("B") = 1 /\ Size("A") = 1 /\ Size("CC") = 1
      /\ "U" \in Frame /\ "Y" \in Frame /\ "X" \in Frame /\ "DP" \in Frame /\ "B" \in Frame
      /\ "A" \in Frame /\ "CC" \in Frame
  BY DEF Regs, WordRegs, ByteRegs, Size, Stacks, Frame
<1>i. ASSUME NEW a, Changed(d0, a, T), NEW r \in Frame \cup {"PC"}, NEW b, b = PushReg(a, "S", r)
      PROVE  b \in Cpu /\ Changed(d0, b, T)
  <2>1. a \in Cpu /\ r \in Regs
    BY <1>i, <1>r DEF Changed
  <2>2. Changed(a, b, T)
    BY <1>i, <1>r, <2>1, PushIs
  <2> QED
    BY <1>i, <2>2, ChangedTwo DEF Changed
<1>0. Changed(d0, d0, T)
  BY <1>f DEF Changed
<1>1. d1 \in Cpu /\ Changed(d0, d1, T)
  BY <1>0, <1>i
<1> HIDE DEF d1
<1>2. d2 \in Cpu /\ Changed(d0, d2, T)
  BY <1>1, <1>i, <1>r
<1> HIDE DEF d2
<1>3. d3 \in Cpu /\ Changed(d0, d3, T)
  BY <1>2, <1>i, <1>r
<1> HIDE DEF d3
<1>4. d4 \in Cpu /\ Changed(d0, d4, T)
  BY <1>3, <1>i, <1>r
<1> HIDE DEF d4
<1>5. d5 \in Cpu /\ Changed(d0, d5, T)
  BY <1>4, <1>i, <1>r
<1> HIDE DEF d5
<1>6. d6 \in Cpu /\ Changed(d0, d6, T)
  BY <1>5, <1>i, <1>r
<1> HIDE DEF d6
<1>7. d7 \in Cpu /\ Changed(d0, d7, T)
  BY <1>6, <1>i, <1>r
<1> HIDE DEF d7
<1>8. d8 \in Cpu
  BY <1>7, <1>i, <1>r
<1> HIDE DEF d8
<1> DEFINE Undoes(a, b, r) ==
             \A x, y : Back(b, x, g, "S", Frame)
                       /\ (y = PullReg(x, "S", r) \/ y = Clock(PullReg(x, "S", r), Size(r)))
                         => Back(a, y, g, "S", Frame)
<1>l. ASSUME NEW a \in Cpu, NEW r \in Frame, r # "S", NEW b, b = PushReg(a, "S", r),
             NEW n \in Nat, n <= 20, Deep(b, g, "S", n)
      PROVE  Deep(a, g, "S", n + Size(r)) /\ Undoes(a, b, r)
  <2>1. Deep(a, g, "S", n + Size(r)) /\ Size(r) \in Int
    BY <1>l, <1>r, DeepPush, SizeIs
  <2>2. ASSUME NEW x, NEW y, Back(b, x, g, "S", Frame),
               y = PullReg(x, "S", r) \/ y = Clock(PullReg(x, "S", r), Size(r))
        PROVE  Back(a, y, g, "S", Frame)
    <3> DEFINE q == PullReg(x, "S", r)
    <3>1. Back(a, q, g, "S", Frame)
      <4>1. r \in Frame \cup {"PC"} /\ Frame \subseteq Frame /\ Frame \cup {r} = Frame
        OBVIOUS
      <4>2. Back(a, q, g, "S", Frame \cup {r})
        BY <1>l, <1>r, <2>2, <4>1, Nest
      <4> QED
        BY <4>1, <4>2
    <3>2. q \in Cpu
      BY <3>1 DEF Back
    <3> HIDE DEF q
    <3>3. Back(a, Clock(q, Size(r)), g, "S", Frame)
      BY <1>r, <2>1, <3>1, <3>2, BackClock
    <3> QED
      BY <2>2, <3>1, <3>3 DEF q
  <2> QED
    BY <2>1, <2>2
<1> HIDE DEF Undoes
<1>z. Deep(d8, g, "S", 0) /\ g \in Cpu
  BY <1>a, <1>8 DEF Deep
<1>17. Deep(d7, g, "S", 1)
  <2>1. Deep(d7, g, "S", 0 + Size("CC"))
    BY <1>7, <1>r, <1>z, DeepPush DEF d8
  <2> QED
    BY <2>1, <1>r
<1>16. Deep(d6, g, "S", 2) /\ Undoes(d6, d7, "A")
  <2>1. Deep(d6, g, "S", 1 + Size("A")) /\ Undoes(d6, d7, "A")
    BY <1>6, <1>17, <1>r, <1>l DEF d7
  <2> QED
    BY <2>1, <1>r
<1>15. Deep(d5, g, "S", 3) /\ Undoes(d5, d6, "B")
  <2>1. Deep(d5, g, "S", 2 + Size("B")) /\ Undoes(d5, d6, "B")
    BY <1>5, <1>16, <1>r, <1>l DEF d6
  <2> QED
    BY <2>1, <1>r
<1>14. Deep(d4, g, "S", 4) /\ Undoes(d4, d5, "DP")
  <2>1. Deep(d4, g, "S", 3 + Size("DP")) /\ Undoes(d4, d5, "DP")
    BY <1>4, <1>15, <1>r, <1>l DEF d5
  <2> QED
    BY <2>1, <1>r
<1>13. Deep(d3, g, "S", 6) /\ Undoes(d3, d4, "X")
  <2>1. Deep(d3, g, "S", 4 + Size("X")) /\ Undoes(d3, d4, "X")
    BY <1>3, <1>14, <1>r, <1>l DEF d4
  <2> QED
    BY <2>1, <1>r
<1>12. Deep(d2, g, "S", 8) /\ Undoes(d2, d3, "Y")
  <2>1. Deep(d2, g, "S", 6 + Size("Y")) /\ Undoes(d2, d3, "Y")
    BY <1>2, <1>13, <1>r, <1>l DEF d3
  <2> QED
    BY <2>1, <1>r
<1>11. Deep(d1, g, "S", 10) /\ Undoes(d1, d2, "U")
  <2>1. Deep(d1, g, "S", 8 + Size("U")) /\ Undoes(d1, d2, "U")
    BY <1>1, <1>12, <1>r, <1>l DEF d2
  <2> QED
    BY <2>1, <1>r
<1>10. Deep(c, g, "S", 12)
  <2>1. Deep(d0, g, "S", 10 + Size("PC"))
    BY <1>f, <1>11, <1>r, DeepPush DEF d1
  <2>2. \A b : read8(d0, b) = read8(c, b)
    BY <1>f, SameMemory
  <2>3. \A j : Below(d0, "S", j) = Below(c, "S", j)
    BY <1>f DEF Below
  <2>4. 10 + Size("PC") = 12
    BY <1>r
  <2>5. Deep(d0, g, "S", 12)
    BY <2>1, <2>4
  <2> QED
    BY <2>2, <2>3, <2>5 DEF Deep
<1>20. ASSUME NEW x, Back(d1, x, g, "S", Frame), NEW y,
              y = PullReg(x, "S", "PC") \/ y = Clock(PullReg(x, "S", "PC"), 2)
       PROVE  Returned(c, y)
  <2> DEFINE q == PullReg(x, "S", "PC")
  <2>1. Back(d0, q, g, "S", Frame \cup {"PC"}) /\ q.PC = d0.PC % 65536
    <3>1. "PC" \in Frame \cup {"PC"} /\ "PC" # "S" /\ Frame \subseteq Frame
      OBVIOUS
    <3> QED
      BY <1>f, <1>11, <1>20, <1>r, <3>1, Nest DEF d1
  <2> HIDE DEF q
  <2>2. q \in Cpu /\ \A r \in Frame : Get(q, r) = Get(d0, r)
    BY <2>1 DEF Back
  <2>3. y \in Cpu /\ y.PC = q.PC /\ \A r \in Frame : Get(y, r) = Get(q, r)
    <3>1. CASE y = q
      BY <2>2, <3>1
    <3>2. CASE y = Clock(q, 2)
      <4>1. Changed(q, y, JustCycles)
        BY <2>2, <3>2, ClockIs
      <4>2. ASSUME NEW r \in Frame PROVE Get(y, r) = Get(q, r)
        <5>1. Holds(r) \cap JustCycles = {} /\ r \in Regs
          BY <1>r, HoldsIs DEF JustCycles
        <5> QED
          BY <4>1, <5>1, GetKept
      <4> QED
        BY <4>1, <4>2 DEF Changed, Names, JustCycles
    <3> QED
      BY <1>20, <3>1, <3>2 DEF q
  <2> QED
    BY <1>f, <1>g, <1>h, <1>r, <2>1, <2>2, <2>3 DEF Returned
<1>21. ASSUME NEW x, Back(d8, x, g, "S", Frame \ {"CC"}), NEW y,
              y = PullReg(x, "S", "CC") \/ y = Clock(PullReg(x, "S", "CC"), Size("CC"))
       PROVE  Back(d7, y, g, "S", Frame)
  <2> DEFINE q == PullReg(x, "S", "CC")
  <2>1. Back(d7, q, g, "S", Frame)
    <3>1. /\ "CC" \in Frame \cup {"PC"} /\ "CC" # "S" /\ Frame \ {"CC"} \subseteq Frame
          /\ (Frame \ {"CC"}) \cup {"CC"} = Frame
      BY <1>r
    <3>2. Back(d7, q, g, "S", (Frame \ {"CC"}) \cup {"CC"})
      BY <1>7, <1>21, <1>r, <1>z, <3>1, Nest DEF d8
    <3> QED
      BY <3>1, <3>2
  <2>2. q \in Cpu
    BY <2>1 DEF Back
  <2> HIDE DEF q
  <2>3. Back(d7, Clock(q, Size("CC")), g, "S", Frame)
    BY <1>7, <1>r, <2>1, <2>2, BackClock
  <2> QED
    BY <1>21, <2>1, <2>3 DEF q
<1>22. ASSUME NEW e \in Cpu, Back(g, e, g, "S", Frame \ {"CC"})
       PROVE  Returned(c, rti(e))
  <2> DEFINE x8 == Clock(e, 6)
             x7 == PullReg(x8, "S", "CC")
             y7 == Clock(x7, 9)
             x6 == PullReg(y7, "S", "A")
             x5 == PullReg(x6, "S", "B")
             x4 == PullReg(x5, "S", "DP")
             x3 == PullReg(x4, "S", "X")
             x2 == PullReg(x3, "S", "Y")
             x1 == PullReg(x2, "S", "U")
             x0 == PullReg(x1, "S", "PC")
  <2>0. Has(x7.EFI, 128) => rti(e) = x0
    BY DEF rti
  <2>8. Back(d8, x8, g, "S", Frame \ {"CC"})
    BY <1>22, <1>a, <1>8, <1>r, BackClock
  <2> HIDE DEF x8
  <2>7. Back(d7, x7, g, "S", Frame)
    BY <1>21, <2>8
  <2> HIDE DEF x7
  <2>9. x7 \in Cpu /\ Get(x7, "CC") = Get(d7, "CC")
    BY <1>r, <2>7 DEF Back
  <2>10. Has(x7.EFI, 128)
    <3>1. d7.EFI = efi /\ d7.EFI \in Efis /\ d7.f \in Lazy /\ x7.EFI \in Efis /\ x7.f \in Lazy
      BY <1>7, <1>f, <2>9, CpuIs DEF Changed, Names, StoreFields
    <3>2. get_cc(x7.EFI, x7.f) = get_cc(d7.EFI, d7.f)
      BY <2>9 DEF Get
    <3>3. get_cc(x7.EFI, x7.f) & EFI_FLAGS = x7.EFI /\ get_cc(d7.EFI, d7.f) & EFI_FLAGS = d7.EFI
      BY <3>1, GetCC
    <3> QED
      BY <1>b, <3>1, <3>2, <3>3
  <2>11. Back(d7, y7, g, "S", Frame)
    BY <1>7, <1>r, <2>7, <2>9, BackClock
  <2> HIDE DEF y7
  <2>6. Back(d6, x6, g, "S", Frame)
    BY <1>16, <2>11 DEF Undoes
  <2> HIDE DEF x6
  <2>5. Back(d5, x5, g, "S", Frame)
    BY <1>15, <2>6 DEF Undoes
  <2> HIDE DEF x5
  <2>4. Back(d4, x4, g, "S", Frame)
    BY <1>14, <2>5 DEF Undoes
  <2> HIDE DEF x4
  <2>3. Back(d3, x3, g, "S", Frame)
    BY <1>13, <2>4 DEF Undoes
  <2> HIDE DEF x3
  <2>2. Back(d2, x2, g, "S", Frame)
    BY <1>12, <2>3 DEF Undoes
  <2> HIDE DEF x2
  <2>1. Back(d1, x1, g, "S", Frame)
    BY <1>11, <2>2 DEF Undoes
  <2> HIDE DEF x1
  <2>12. Returned(c, x0)
    BY <1>20, <2>1
  <2> QED
    BY <2>0, <2>10, <2>12
<1>23. ASSUME NEW e \in Cpu, Back(g, e, g, "S", Frame \ {"CC"}), imm_byte(e) = 255
       PROVE  Returned(c, puls(e))
  <2> DEFINE on(x, m, r) == PullIf(x, "S", 255, m, r)
             a8 == Advance(e, 1)
             x8 == Clock(a8, 5)
             x7 == on(x8, 1, "CC")
             x6 == on(x7, 2, "A")
             x5 == on(x6, 4, "B")
             x4 == on(x5, 8, "DP")
             x3 == on(x4, 16, "X")
             x2 == on(x3, 32, "Y")
             x1 == on(x2, 64, "U")
             x0 == on(x1, 128, "PC")
  <2>0. puls(e) = x0
    BY <1>23 DEF puls, Pull, SysOrder
  <2>h. ASSUME NEW x, NEW r, NEW m, m \in {1, 2, 4, 8, 16, 32, 64, 128}
        PROVE  on(x, m, r) = Clock(PullReg(x, "S", r), Size(r))
    <3>1. Has(255, m)
      BY <2>h DEF Has
    <3> QED
      BY <3>1 DEF PullIf
  <2> HIDE DEF on
  <2>8. Back(d8, x8, g, "S", Frame \ {"CC"})
    <3>1. Changed(e, a8, JustPC)
      BY AdvanceIs
    <3>2. a8 \in Cpu /\ a8.mem = e.mem /\ Sp(a8, "S") = Sp(e, "S")
      BY <3>1 DEF Changed, Names, JustPC, Sp
    <3>3. \A x \in Frame : Get(a8, x) = Get(e, x)
      <4>1. ASSUME NEW x \in Frame PROVE Holds(x) \cap JustPC = {}
        BY DEF Frame, Holds, Just, JustPC, Codes
      <4> QED
        BY <1>r, <3>1, <4>1, GetKept
    <3> HIDE DEF a8
    <3>4. Back(g, a8, g, "S", Frame \ {"CC"})
      <4>1. Sp(e, "S") = Sp(g, "S") /\ e.mem = g.mem /\ \A x \in Frame \ {"CC"} : Get(e, x) = Get(g, x)
        BY <1>23 DEF Back
      <4> QED
        BY <3>2, <3>3, <4>1 DEF Back
    <3>5. Back(d8, a8, g, "S", Frame \ {"CC"})
      BY <1>a, <3>4
    <3> QED
      BY <1>8, <1>r, <3>2, <3>5, BackClock
  <2> HIDE DEF x8
  <2>7. Back(d7, x7, g, "S", Frame)
    BY <1>21, <2>8, <2>h
  <2> HIDE DEF x7
  <2>6. Back(d6, x6, g, "S", Frame)
    BY <1>16, <2>7, <2>h DEF Undoes
  <2> HIDE DEF x6
  <2>5. Back(d5, x5, g, "S", Frame)
    BY <1>15, <2>6, <2>h DEF Undoes
  <2> HIDE DEF x5
  <2>4. Back(d4, x4, g, "S", Frame)
    BY <1>14, <2>5, <2>h DEF Undoes
  <2> HIDE DEF x4
  <2>3. Back(d3, x3, g, "S", Frame)
    BY <1>13, <2>4, <2>h DEF Undoes
  <2> HIDE DEF x3
  <2>2. Back(d2, x2, g, "S", Frame)
    BY <1>12, <2>3, <2>h DEF Undoes
  <2> HIDE DEF x2
  <2>1. Back(d1, x1, g, "S", Frame)
    BY <1>11, <2>2, <2>h DEF Undoes
  <2> HIDE DEF x1
  <2>9. x0 = Clock(PullReg(x1, "S", "PC"), 2)
    BY <1>r, <2>h
  <2> QED
    BY <1>20, <2>0, <2>1, <2>9
<1> QED
  BY <1>10, <1>22, <1>23, <1>z

-----------------------------------------------------------------------------
(* An exchange done twice. *)

\* Registers that EXG may exchange: of one size, and not PC.
Pair(r1, r2) ==
  /\ r1 \in Regs /\ r2 \in Regs /\ r1 # "PC" /\ r2 # "PC"
  /\ r1 \in WordRegs <=> r2 \in WordRegs

Touched(r1, r2) == Holds(r1) \cup Holds(r2) \cup {"PC", "cycles"}

\* The registers of a post-byte for two of the same size.
LEMMA PairIs ==
  ASSUME NEW post \in Byte, SameSize(post), RegNumber(post \div 16) \notin {"none", "PC"},
         RegNumber(post % 16) \notin {"none", "PC"}
  PROVE  Pair(RegNumber(post \div 16), RegNumber(post % 16))
<1> DEFINE h == post \div 16
           l == post % 16
<1>1. h \in Nibble /\ l \in Nibble /\ (h >= 8 <=> l >= 8) /\ (h < 8 <=> ~(h >= 8)) /\ (l < 8 <=> ~(l >= 8))
  <2>1. post \in Int /\ 0 <= post /\ post < 256
    BY DEF Byte
  <2>2. Has(post, 128) <=> h >= 8
    BY <2>1 DEF Has
  <2>3. Has(post, 8) <=> l >= 8
    BY <2>1 DEF Has
  <2>4. h >= 8 <=> l >= 8
    BY <2>2, <2>3 DEF SameSize
  <2> QED
    BY <2>1, <2>4 DEF Nibble
<1> HIDE DEF h, l
<1>2. RegNumber(h) \notin {"none", "PC"} /\ RegNumber(l) \notin {"none", "PC"}
  BY DEF h, l
<1>3. /\ h < 8 => RegNumber(h) \in WordRegs
      /\ h >= 8 => RegNumber(h) \in ByteRegs
      /\ l < 8 => RegNumber(l) \in WordRegs
      /\ l >= 8 => RegNumber(l) \in ByteRegs
      /\ RegNumber(h) \in Regs /\ RegNumber(l) \in Regs
  BY <1>1, <1>2, RegNumberIs
<1> QED
  BY <1>1, <1>2, <1>3, SizeIs DEF Pair, h, l

\* Setting a register, whichever its size.
LEMMA SetBack ==
  ASSUME NEW c \in Cpu, NEW r \in Regs, NEW v, r \in WordRegs => v \in Word,
         r \in ByteRegs => v \in Byte, NEW d, d = Set(c, r, v)
  PROVE  Changed(c, d, Holds(r)) /\ Get(d, r) = v
BY SetWordIs, SetByteIs, SetByteBack, SizeIs

\* EXG exchanges them.
LEMMA Exchanged ==
  ASSUME NEW c \in Cpu, NEW r1, NEW r2, Pair(r1, r2), SameSize(imm_byte(c)),
         r1 = RegNumber(imm_byte(c) \div 16), r2 = RegNumber(imm_byte(c) % 16), NEW e, e = exg(c)
  PROVE  /\ Changed(c, e, Touched(r1, r2)) /\ e.PC = c.PC + 1
         /\ Get(e, r1) = Get(c, r2) /\ Get(e, r2) = Get(c, r1)
<1> DEFINE post == imm_byte(c)
           T == Touched(r1, r2)
           d == Advance(c, 1)
           v == Get(d, r1)
           w == Get(d, r2)
           a == Set(d, r2, v)
           b == Set(a, r1, w)
<1>1. r1 # "none" /\ r2 # "none" /\ r1 \in Regs /\ r2 \in Regs /\ r1 # "PC" /\ r2 # "PC"
  BY DEF Pair, Regs, WordRegs, ByteRegs
<1>2. e = Clock(b, 8)
  <2>1. get_reg(d, post \div 16) = v /\ get_reg(d, post % 16) = w
    BY <1>1 DEF get_reg
  <2> HIDE DEF v, w
  <2>2. set_reg(d, post % 16, v) = a
    BY <1>1 DEF set_reg
  <2> HIDE DEF a
  <2>3. set_reg(a, post \div 16, w) = b
    BY <1>1 DEF set_reg
  <2> HIDE DEF b
  <2> QED
    BY <2>1, <2>2, <2>3 DEF exg
<1>3. Changed(c, d, JustPC) /\ d.PC = c.PC + 1
  BY AdvanceIs
<1> HIDE DEF d
<1>4. d \in Cpu
  BY <1>3 DEF Changed
<1>5. ASSUME NEW r \in {r1, r2} PROVE Holds(r) \cap {"PC", "cycles"} = {}
  BY <1>1, <1>5 DEF Regs, WordRegs, ByteRegs, Holds, Just, JustD, Codes
<1>6. Get(d, r1) = Get(c, r1) /\ Get(d, r2) = Get(c, r2)
  <2>1. Holds(r1) \cap JustPC = {} /\ Holds(r2) \cap JustPC = {}
    BY <1>5 DEF JustPC
  <2> QED
    BY <1>1, <1>3, <2>1, GetKept
<1>7. /\ r1 \in WordRegs => v \in Word /\ w \in Word
      /\ r1 \in ByteRegs => v \in Byte /\ w \in Byte
      /\ r2 \in WordRegs => v \in Word /\ w \in Word
      /\ r2 \in ByteRegs => v \in Byte /\ w \in Byte
  BY <1>1, <1>4, GetIs, SizeIs DEF Pair
<1> HIDE DEF v, w
<1>8. Changed(d, a, Holds(r2)) /\ Get(a, r2) = v
  BY <1>1, <1>4, <1>7, SetBack
<1> HIDE DEF a
<1>9. a \in Cpu
  BY <1>8 DEF Changed
<1>10. Changed(a, b, Holds(r1)) /\ Get(b, r1) = w
  BY <1>1, <1>7, <1>9, SetBack
<1> HIDE DEF b
<1>11. b \in Cpu
  BY <1>10 DEF Changed
<1>12. Changed(b, e, JustCycles)
  BY <1>2, <1>11, ClockIs
<1>13. Get(b, r2) = v
  <2>1. CASE r1 = r2
    BY <1>10, <2>1 DEF v, w
  <2>2. CASE r1 # r2
    <3>1. r1 = "D" => r2 \notin {"A", "B"}
      BY DEF Pair, WordRegs
    <3>2. r2 = "D" => r1 \notin {"A", "B"}
      BY DEF Pair, WordRegs
    <3>3. Holds(r2) \cap Holds(r1) = {}
      BY <1>1, <2>2, <3>1, <3>2, Apart
    <3> QED
      BY <1>1, <1>8, <1>10, <3>3, GetKept
  <2> QED
    BY <2>1, <2>2
<1>14. Get(e, r1) = w /\ Get(e, r2) = v
  <2>1. Holds(r1) \cap JustCycles = {} /\ Holds(r2) \cap JustCycles = {}
    BY <1>5 DEF JustCycles
  <2> QED
    BY <1>1, <1>10, <1>12, <1>13, <2>1, GetKept
<1>15. Changed(c, e, T)
  <2>1. JustPC \subseteq T /\ Holds(r2) \subseteq T /\ Holds(r1) \subseteq T /\ JustCycles \subseteq T
    BY DEF JustPC, JustCycles, Touched
  <2> HIDE DEF T
  <2>2. Changed(c, d, T) /\ Changed(d, a, T) /\ Changed(a, b, T) /\ Changed(b, e, T)
    BY <1>3, <1>8, <1>10, <1>12, <2>1, ChangedMore
  <2> QED
    BY <2>2, ChangedTwo
<1>16. e.PC = d.PC
  <2>1. "PC" \in Names /\ "PC" \notin Holds(r1) /\ "PC" \notin Holds(r2) /\ "PC" \notin JustCycles
    BY <1>5 DEF Names, JustCycles
  <2>2. a["PC"] = d["PC"] /\ b["PC"] = a["PC"] /\ e["PC"] = b["PC"]
    BY <1>8, <1>10, <1>12, <2>1 DEF Changed
  <2> QED
    BY <2>2
<1> QED
  BY <1>3, <1>6, <1>14, <1>15, <1>16 DEF v, w

\* Done twice it brings both back, and with them every register.
LEMMA ExchangedBack ==
  ASSUME NEW r1, NEW r2, Pair(r1, r2), NEW c, NEW d, NEW e, Changed(c, d, Touched(r1, r2)),
         Changed(d, e, Touched(r1, r2)), Get(e, r1) = Get(c, r1), Get(e, r2) = Get(c, r2)
  PROVE  \A x \in Frame : Get(e, x) = Get(c, x)
<1>1. c \in Cpu /\ e \in Cpu /\ Changed(c, e, Touched(r1, r2))
  BY ChangedTwo DEF Changed
<1>2. r1 \in Regs /\ r2 \in Regs /\ Frame \subseteq Regs /\ "D" \notin Frame
  BY DEF Pair, Frame, Regs, WordRegs, ByteRegs
<1>3. ASSUME Get(e, "D") = Get(c, "D") PROVE e.A = c.A /\ e.B = c.B
  <2>1. 256 * e.A + e.B = 256 * c.A + c.B
    BY <1>3 DEF Get, get_d
  <2>2. e.A \in Byte /\ e.B \in Byte /\ c.A \in Byte /\ c.B \in Byte
    BY <1>1, CpuIs
  <2> DEFINE a == e.A
             b == e.B
             i == c.A
             j == c.B
  <2>3. a \in Int /\ b \in Int /\ i \in Int /\ j \in Int /\ 0 <= b /\ b < 256 /\ 0 <= j /\ j < 256
        /\ 256 * a + b = 256 * i + j
    BY <2>1, <2>2 DEF Byte
  <2> HIDE DEF a, b, i, j
  <2>4. a = i /\ b = j
    BY <2>3
  <2> QED
    BY <2>4 DEF a, b, i, j
<1>4. ASSUME NEW x \in Frame PROVE Get(e, x) = Get(c, x)
  <2>0. x \in Regs /\ x # "D"
    BY <1>2
  <2>1. CASE x = r1 \/ x = r2
    BY <2>1
  <2>2. CASE x \in {"A", "B"} /\ (r1 = "D" \/ r2 = "D")
    <3>1. e.A = c.A /\ e.B = c.B
      BY <1>3, <2>2
    <3> QED
      BY <2>2, <3>1 DEF Get
  <2>3. CASE x \notin {r1, r2} /\ (r1 = "D" => x \notin {"A", "B"}) /\ (r2 = "D" => x \notin {"A", "B"})
    <3>1. Holds(x) \cap Holds(r1) = {} /\ Holds(x) \cap Holds(r2) = {}
      BY <1>2, <2>0, <2>3, Apart
    <3>2. Holds(x) \cap {"PC", "cycles"} = {}
      BY DEF Frame, Holds, Just, Codes
    <3>3. Holds(x) \cap Touched(r1, r2) = {}
      BY <3>1, <3>2 DEF Touched
    <3> QED
      BY <1>1, <2>0, <3>3, GetKept
  <2> QED
    BY <2>1, <2>2, <2>3
<1> QED
  BY <1>4

-----------------------------------------------------------------------------
(* The steps of these programs. *)

TwiceOps == {"pshs", "puls", "pshu", "pulu", "exg", "swi", "swi2", "swi3", "rti"}

\* A step is the one of the instruction decoded.
LEMMA TwiceTurn ==
  ASSUME Next, NEW op \in TwiceOps, Decode(cpu).op = op
  PROVE  /\ load' = load /\ count' = count + 1 /\ Running
         /\ op = "pshs" => cpu' = pshs(Fetched)
         /\ op = "puls" => cpu' = puls(Fetched)
         /\ op = "pshu" => cpu' = pshu(Fetched)
         /\ op = "pulu" => cpu' = pulu(Fetched)
         /\ op = "exg"  => cpu' = exg(Fetched)
         /\ op = "swi"  => cpu' = swi(Fetched)
         /\ op = "swi2" => cpu' = swi2(Fetched)
         /\ op = "swi3" => cpu' = swi3(Fetched)
         /\ op = "rti"  => cpu' = rti(Fetched)
<1>1. StackInsn \/ RegisterInsn \/ InterruptInsn
  BY DEF Next, UnaryInsn, ByteInsn, WordInsn, StoreInsn, LeaInsn, AccInsn, BranchInsn, JumpInsn,
         InvalidInsn, Plain, Turn, ByteOps, UnaryOps, WordOps, TwiceOps
<1>2. CASE StackInsn
  BY <1>2 DEF StackInsn, Plain, Turn, Fetched, TwiceOps
<1>3. CASE RegisterInsn
  BY <1>3 DEF RegisterInsn, Plain, Turn, Fetched, TwiceOps
<1>4. CASE InterruptInsn
  BY <1>4 DEF InterruptInsn, Plain, Turn, Fetched, TwiceOps
<1> QED
  BY <1>1, <1>2, <1>3, <1>4

\* The opcodes of these programs.
LEMMA TwiceOpcodes ==
  /\ page_0(52).op = "pshs" /\ page_0(53).op = "puls" /\ page_0(54).op = "pshu"
  /\ page_0(55).op = "pulu" /\ page_0(30).op = "exg"  /\ page_0(63).op = "swi"
  /\ page_0(59).op = "rti"  /\ page_10(63).op = "swi2" /\ page_11(63).op = "swi3"
<1>1. /\ 52 \div 16 = 3 /\ 52 % 16 = 4 /\ 53 \div 16 = 3 /\ 53 % 16 = 5
      /\ 54 \div 16 = 3 /\ 54 % 16 = 6 /\ 55 \div 16 = 3 /\ 55 % 16 = 7
      /\ 63 \div 16 = 3 /\ 63 % 16 = 15 /\ 59 \div 16 = 3 /\ 59 % 16 = 11
      /\ 30 \div 16 = 1 /\ 30 % 16 = 14
  OBVIOUS
<1>2. /\ page_0(52) = row_3(4) /\ page_0(53) = row_3(5) /\ page_0(54) = row_3(6) /\ page_0(55) = row_3(7)
      /\ page_0(63) = row_3(15) /\ page_0(59) = row_3(11) /\ page_0(30) = row_1(14)
  BY <1>1 DEF page_0
<1>3. /\ row_3(4) = Insn("pshs", "", "post", 0) /\ row_3(5) = Insn("puls", "", "post", 0)
      /\ row_3(6) = Insn("pshu", "", "post", 0) /\ row_3(7) = Insn("pulu", "", "post", 0)
      /\ row_3(15) = Insn("swi", "", "inherent", 0) /\ row_3(11) = Insn("rti", "", "inherent", 0)
  BY DEF row_3
<1>e. row_1(14) = Insn("exg", "", "post", 0)
  BY DEF row_1
<1>o. ASSUME NEW op, NEW reg, NEW mode, NEW clk PROVE Insn(op, reg, mode, clk).op = op
  BY InsnIs
<1>4. /\ row_3(4).op = "pshs" /\ row_3(5).op = "puls" /\ row_3(6).op = "pshu" /\ row_3(7).op = "pulu"
      /\ row_3(15).op = "swi" /\ row_3(11).op = "rti" /\ row_1(14).op = "exg"
  <2>1. /\ Insn("pshs", "", "post", 0).op = "pshs" /\ Insn("puls", "", "post", 0).op = "puls"
        /\ Insn("pshu", "", "post", 0).op = "pshu" /\ Insn("pulu", "", "post", 0).op = "pulu"
        /\ Insn("exg", "", "post", 0).op = "exg"
        /\ Insn("swi", "", "inherent", 0).op = "swi" /\ Insn("rti", "", "inherent", 0).op = "rti"
    BY <1>o, Zenon
  <2> QED
    BY <1>3, <1>e, <2>1, Zenon
<1> DEFINE row == 63 \div 16
           n == 63 % 16
           reg == IF row < 12 THEN "Y" ELSE "S"
           lb == Insn("long_branch", n, "rel_word", 0)
           sw2 == Insn("swi2", "", "inherent", 0)
           sw3 == Insn("swi3", "", "inherent", 0)
           i2 == page_10(63)
           i3 == page_11(63)
<1>5. i2 = CASE 63 \in 33..47 -> lb
        [] 63 = 63 -> sw2
        [] row \in 8..11 /\ n = 3  -> Insn("cmp16", "D", WordMode(row), WordClk(row))
        [] row \in 8..11 /\ n = 12 -> Insn("cmp16", "Y", WordMode(row), WordClk(row))
        [] row \in {8, 12} /\ n = 14 -> Insn("ld16", reg, "imm_word", 4)
        [] row \in {9, 10, 11, 13, 14, 15} /\ n = 14 -> Insn("ld16", reg, WordMode(row), WordClk(row))
        [] row \in {9, 10, 11, 13, 14, 15} /\ n = 15 -> Insn("st16", reg, WordMode(row), WordClk(row))
        [] OTHER -> NoInsn(0)
  BY DEF page_10
<1>6. i3 = CASE 63 = 63 -> sw3
        [] row \in 8..11 /\ n = 3  -> Insn("cmp16", "U", WordMode(row), WordClk(row))
        [] row \in 8..11 /\ n = 12 -> Insn("cmp16", "S", WordMode(row), WordClk(row))
        [] OTHER -> NoInsn(0)
  BY DEF page_11
<1>7. sw2.op = "swi2" /\ sw3.op = "swi3"
  BY <1>o, Zenon
<1>8. row = 3 /\ n = 15
  OBVIOUS
<1> HIDE DEF row, n, reg, lb, sw2, sw3, i2, i3
<1>9. i2 = sw2 /\ i3 = sw3
  BY <1>5, <1>6, <1>8
<1> QED
  BY <1>2, <1>4, <1>7, <1>9 DEF i2, i3

\* Fetching changes PC only.
LEMMA FetchKeeps ==
  ASSUME cpu \in Cpu
  PROVE  /\ Changed(cpu, Fetched, JustPC) /\ Fetched.PC = cpu.PC + OpcodeBytes(cpu)
         /\ Fetched \in Cpu /\ Fetched.mem = cpu.mem
         /\ \A x \in Frame : Get(Fetched, x) = Get(cpu, x)
         /\ \A sp \in Stacks : Sp(Fetched, sp) = Sp(cpu, sp)
<1>1. OpcodeBytes(cpu) \in Nat
  BY FetchIs
<1>2. Changed(cpu, Fetched, JustPC) /\ Fetched.PC = cpu.PC + OpcodeBytes(cpu)
  BY <1>1, AdvanceIs DEF Fetched
<1>3. Fetched \in Cpu /\ Fetched.mem = cpu.mem
  BY <1>2 DEF Changed, Names, JustPC
<1>4. \A sp \in Stacks : Sp(Fetched, sp) = Sp(cpu, sp)
  BY <1>2 DEF Changed, Names, JustPC, Stacks, Sp
<1>5. ASSUME NEW x \in Frame PROVE Get(Fetched, x) = Get(cpu, x)
  <2>1. Holds(x) \cap JustPC = {} /\ x \in Regs
    BY DEF Frame, Holds, Just, JustPC, Codes, Regs, WordRegs, ByteRegs
  <2> QED
    BY <1>2, <2>1, GetKept
<1> QED
  BY <1>2, <1>3, <1>4, <1>5

-----------------------------------------------------------------------------
(* The memory of a load. *)

\* The handler lies where the vectors point.
LEMMA HandlerIs ==
  ASSUME NEW l \in Loads, NEW k \in 1..Len(l.handler), NEW c, c.mem = InitialMemory(l)
  PROVE  read8(c, Handler + k - 1) = l.handler[k]
<1> DEFINE code == At(Origin, l.code)
           handler == At(Handler, l.handler)
           D == DOMAIN code \cup DOMAIN handler \cup (65522..65525) \cup {65530, 65531}
           val(b) == CASE b \in DOMAIN code -> code[b]
                       [] b \in DOMAIN handler \ DOMAIN code -> handler[b]
                       [] OTHER -> IF b % 2 = 0 THEN Handler \div 256 ELSE Handler % 256
           a == Handler + k - 1
<1>1. /\ l.code \in Seq(Byte) /\ Len(l.code) <= Handler - Origin
      /\ l.handler \in Seq(Byte) /\ Len(l.handler) <= 65522 - Handler
  BY LoadsAssumption
<1>2. Origin = 1024 /\ Handler = 2048 /\ Len(l.code) \in Nat /\ Len(l.handler) \in Nat
  BY <1>1 DEF Origin, Handler
<1>a. a \in Int /\ k \in Int /\ 2048 <= a /\ a < 65522 /\ a - Handler + 1 = k /\ k <= Len(l.handler)
  BY <1>1, <1>2
<1>3. /\ a \in Handler..(Handler + Len(l.handler) - 1) /\ a % 65536 = a /\ a - Handler + 1 = k
      /\ a \notin Origin..(Origin + Len(l.code) - 1)
  <2>1. a \in Handler..(Handler + Len(l.handler) - 1)
    BY <1>2, <1>a
  <2>2. a % 65536 = a
    BY <1>a
  <2>3. a \notin Origin..(Origin + Len(l.code) - 1)
    BY <1>1, <1>2, <1>a
  <2> QED
    BY <1>a, <2>1, <2>2, <2>3
<1>4. a \in DOMAIN handler /\ handler[a] = l.handler[k] /\ a \notin DOMAIN code
  BY <1>3 DEF At
<1>5. InitialMemory(l) = [b \in D |-> val(b)]
  BY DEF InitialMemory
<1> HIDE DEF code, handler, a
<1>6. a \in DOMAIN InitialMemory(l) /\ InitialMemory(l)[a] = l.handler[k]
  BY <1>4, <1>5
<1>7. read8(c, a) = l.handler[k]
  BY <1>3, <1>6 DEF read8
<1> QED
  BY <1>7 DEF a

\* And the vectors of the software interrupts point there.
LEMMA VectorsPoint ==
  ASSUME NEW l \in Loads, NEW v \in {65522, 65524, 65530}, NEW c, c.mem = InitialMemory(l)
  PROVE  RDMEM16(c, v) = Handler
<1> DEFINE code == At(Origin, l.code)
           handler == At(Handler, l.handler)
           D == DOMAIN code \cup DOMAIN handler \cup (65522..65525) \cup {65530, 65531}
           val(b) == CASE b \in DOMAIN code -> code[b]
                       [] b \in DOMAIN handler \ DOMAIN code -> handler[b]
                       [] OTHER -> IF b % 2 = 0 THEN Handler \div 256 ELSE Handler % 256
<1>1. /\ l.code \in Seq(Byte) /\ Len(l.code) <= Handler - Origin
      /\ l.handler \in Seq(Byte) /\ Len(l.handler) <= 65522 - Handler
  BY LoadsAssumption
<1>2. Origin = 1024 /\ Handler = 2048 /\ Len(l.code) \in Nat /\ Len(l.handler) \in Nat
  BY <1>1 DEF Origin, Handler
<1>3. DOMAIN code = Origin..(Origin + Len(l.code) - 1) /\ DOMAIN handler = Handler..(Handler + Len(l.handler) - 1)
  BY DEF At
<1>5. InitialMemory(l) = [b \in D |-> val(b)]
  BY DEF InitialMemory
<1> HIDE DEF code, handler
<1>6. ASSUME NEW a \in {65522, 65523, 65524, 65525, 65530, 65531}
      PROVE  /\ a \in D /\ a \notin DOMAIN code /\ a \notin DOMAIN handler /\ a % 65536 = a
             /\ a \in {65522, 65524, 65530} => a % 2 = 0
             /\ a \notin {65522, 65524, 65530} => a % 2 = 1
  <2>1. a \notin DOMAIN code
    BY <1>1, <1>2, <1>3
  <2>2. a \notin DOMAIN handler
    BY <1>1, <1>2, <1>3
  <2>3. a \in (65522..65525) \cup {65530, 65531}
    OBVIOUS
  <2>4. a % 65536 = a
    OBVIOUS
  <2>5. a \in {65522, 65524, 65530} => a % 2 = 0
    OBVIOUS
  <2>6. a \notin {65522, 65524, 65530} => a % 2 = 1
    OBVIOUS
  <2> QED
    BY <2>1, <2>2, <2>3, <2>4, <2>5, <2>6
<1>7. ASSUME NEW a \in {65522, 65523, 65524, 65525, 65530, 65531}
      PROVE  /\ a \in {65522, 65524, 65530} => read8(c, a) = 8
             /\ a \notin {65522, 65524, 65530} => read8(c, a) = 0
  <2>1. read8(c, a) = val(a)
    <3> HIDE DEF D, val
    <3> QED
      BY <1>5, <1>6 DEF read8
  <2>2. Handler \div 256 = 8 /\ Handler % 256 = 0
    BY <1>2
  <2> QED
    BY <1>6, <2>1, <2>2
<1>8. read8(c, v) = 8 /\ read8(c, v + 1) = 0
  <2>1. /\ v + 1 \in {65522, 65523, 65524, 65525, 65530, 65531}
        /\ v + 1 \notin {65522, 65524, 65530}
    OBVIOUS
  <2> QED
    BY <1>7, <2>1
<1> QED
  BY <1>2, <1>8 DEF RDMEM16

\* What is clear of the stack is still there.
LEMMA ClearKept ==
  ASSUME NEW c \in Cpu, NEW sp \in Stacks, NEW n \in Nat, n <= 12, NEW g, Deep(c, g, sp, n),
         NEW Adr, Clear(Sp(c, sp), Adr), NEW a \in Word, a \in Adr
  PROVE  read8(g, a) = read8(c, a)
<1>1. a \in Int /\ a % 65536 = a
  BY Wrap, WordIs
<1>2. ASSUME NEW j \in 1..n PROVE a % 65536 # Below(c, sp, j)
  <2>1. j \in 1..12
    OBVIOUS
  <2>2. (Sp(c, sp) - j) % 65536 \notin Adr
    BY <2>1 DEF Clear
  <2> QED
    BY <1>1, <2>2 DEF Below
<1> QED
  BY <1>1, <1>2 DEF Deep

\* The handler and the vectors.
HandlerBytes == {Handler, Handler + 1} \cup 65522..65531

\* d is c interrupted: at the handler, which is unchanged, and either way back
\* leads to c.
Vectored(c, d) ==
  /\ d.PC = Handler
  /\ read8(d, Handler) = read8(c, Handler) /\ read8(d, Handler + 1) = read8(c, Handler + 1)
  /\ \A e \in Cpu : Back(d, e, d, "S", Frame \ {"CC"})
                      => /\ Returned(c, rti(e))
                         /\ imm_byte(e) = 255 => Returned(c, puls(e))

\* A software interrupt goes to the handler with the frame stacked, and both
\* ways back take it off again.
LEMMA InterruptAndBack ==
  ASSUME NEW c \in Cpu, NEW n \in Nat, NEW m, m = 0 \/ m = 80, NEW v \in {65522, 65524, 65530},
         RDMEM16(c, v) = Handler, Clear(c.S, HandlerBytes),
         NEW d, d = SoftwareInterrupt(c, n, m, v)
  PROVE  Vectored(c, d)
<1> DEFINE a == Clock(c, n)
           g == stack_machine_state(a)
           efi == g.EFI | m
           b == [g EXCEPT !.EFI = efi]
           pc == RDMEM16(g, v)
           Adr == HandlerBytes
<1>s. "S" \in Stacks /\ Frame \subseteq Regs /\ 12 \in Nat /\ 12 <= 12
  BY DEF Stacks, Frame, Regs, WordRegs, ByteRegs
<1>1. Changed(c, a, JustCycles)
  BY ClockIs
<1>2. a \in Cpu /\ a.PC = c.PC /\ Sp(a, "S") = c.S /\ a.mem = c.mem /\ \A x \in Frame : Get(a, x) = Get(c, x)
  <2>1. ASSUME NEW x \in Frame PROVE Get(a, x) = Get(c, x)
    <3>1. Holds(x) \cap JustCycles = {} /\ x \in Regs
      BY <1>s, HoldsIs DEF JustCycles
    <3> QED
      BY <1>1, <3>1, GetKept
  <2> QED
    BY <1>1, <2>1 DEF Changed, Names, JustCycles, Sp
<1>3. d = change_pc(b, pc)
  BY DEF SoftwareInterrupt
<1> HIDE DEF a
<1>4. /\ g \in Cpu /\ Deep(a, g, "S", 12)
      /\ \A e \in Cpu : Back(g, e, g, "S", Frame \ {"CC"})
                          => Returned(a, rti(e)) /\ (imm_byte(e) = 255 => Returned(a, puls(e)))
  BY <1>2, FrameBack
<1> HIDE DEF g
<1>5. \A x : read8(a, x) = read8(c, x)
  BY <1>2, SameMemory
<1>6. ASSUME NEW x \in Word, x \in Adr PROVE read8(g, x) = read8(c, x)
  <2>1. Clear(Sp(a, "S"), Adr)
    BY <1>2
  <2> HIDE DEF Adr
  <2> QED
    BY <1>2, <1>4, <1>5, <1>6, <1>s, <2>1, ClearKept
<1>7. Handler \in Word /\ Handler + 1 \in Word /\ Handler \in Adr /\ Handler + 1 \in Adr /\ Handler = 2048
  BY DEF Handler, Word, HandlerBytes
<1>8. v \in Word /\ v \in Adr /\ v + 1 \in Word /\ v + 1 \in Adr
  BY DEF Word, HandlerBytes
<1> HIDE DEF Adr
<1>9. pc = Handler
  BY <1>6, <1>8 DEF RDMEM16
<1> HIDE DEF pc
<1>10. efi \in Efis
  BY <1>4, CpuIs, EfisKept
<1> HIDE DEF efi
<1>11. Changed(g, b, JustEFI)
  BY <1>4, <1>10, SetEfiIs
<1> HIDE DEF b
<1>12. b \in Cpu
  BY <1>11 DEF Changed
<1>13. Changed(b, d, JustPC) /\ d.PC = pc % 65536
  BY <1>3, <1>7, <1>9, <1>12, ChangePcIs
<1>14. d.PC = Handler
  BY <1>7, <1>9, <1>13
<1>15. d.mem = g.mem /\ Sp(d, "S") = Sp(g, "S")
  BY <1>11, <1>13 DEF Changed, Names, JustEFI, JustPC, Sp
<1>16. ASSUME NEW x \in Frame \ {"CC"} PROVE Get(d, x) = Get(g, x)
  <2>1. Holds(x) \cap JustEFI = {} /\ Holds(x) \cap JustPC = {} /\ x \in Regs
    BY <1>s DEF Frame, Holds, Just, JustEFI, JustPC
  <2> QED
    BY <1>11, <1>13, <2>1, GetKept
<1>17. read8(d, Handler) = read8(c, Handler) /\ read8(d, Handler + 1) = read8(c, Handler + 1)
  BY <1>6, <1>7, <1>15, SameMemory
<1>18. ASSUME NEW f, Returned(a, f) PROVE Returned(c, f)
  <2>1. "CC" \in Frame
    BY DEF Frame
  <2> QED
    BY <1>2, <1>18, <2>1 DEF Returned
<1>19. ASSUME NEW e \in Cpu, Back(d, e, d, "S", Frame \ {"CC"})
       PROVE  Back(g, e, g, "S", Frame \ {"CC"})
  BY <1>15, <1>16, <1>19 DEF Back
<1>20. ASSUME NEW e \in Cpu, Back(d, e, d, "S", Frame \ {"CC"})
       PROVE  Returned(c, rti(e)) /\ (imm_byte(e) = 255 => Returned(c, puls(e)))
  BY <1>4, <1>18, <1>19, <1>20
<1> QED
  BY <1>14, <1>17, <1>20 DEF Vectored

-----------------------------------------------------------------------------
(* The invariant. *)

\* c has the registers regs.
Same(c, regs) == \A x \in Frame : Get(c, x) = regs[x]

\* Before the first instruction.
Fresh(c, l) == c.PC = Origin /\ c.mem = InitialMemory(l) /\ Same(c, l.regs)

\* The stack, and the order of registers, a program pushes on.
PushesOn(l, sp, order) ==
  \/ sp = "S" /\ order = SysOrder /\ l.code[1] = 52 /\ l.code[3] = 53
  \/ sp = "U" /\ order = UsrOrder /\ l.code[1] = 54 /\ l.code[3] = 55

\* After the push, the pull is next and would bring the registers back.
Pushed(c, l) ==
  /\ c.PC = Origin + 2 /\ read8(c, Origin + 2) = l.code[3] /\ read8(c, Origin + 3) = l.code[4]
  /\ \A sp, order : PushesOn(l, sp, order) =>
       \A e \in Cpu : imm_byte(e) = l.code[2] /\ Back(c, e, c, sp, Frame)
                        => Same(Pull(e, sp, order), l.regs)

\* After the first exchange.
Swapped(c, l) ==
  LET r1 == RegNumber(l.code[2] \div 16)
      r2 == RegNumber(l.code[2] % 16)
  IN  /\ c.PC = Origin + 2 /\ c.mem = InitialMemory(l)
      /\ \E b \in Cpu : /\ Changed(b, c, Touched(r1, r2)) /\ Same(b, l.regs)
                        /\ Get(c, r1) = Get(b, r2) /\ Get(c, r2) = Get(b, r1)

\* Behind a software interrupt, with E set in the codes.
Ended(c, l) == c.PC = Origin + Len(l.code) /\ Same(c, [l.regs EXCEPT !.CC = @ | 128])

\* Either way back from c would end it.
Returns(c, l) ==
  \A e \in Cpu : Back(c, e, c, "S", Frame \ {"CC"})
                   => Ended(rti(e), l) /\ (imm_byte(e) = 255 => Ended(puls(e), l))

\* After the interrupt the handler is next.
Interrupted(c, l) ==
  /\ c.PC = Handler
  /\ \A k \in 1..Len(l.handler) : read8(c, Handler + k - 1) = l.handler[k]
  /\ Returns(c, l)

\* The end of the program.
Restored(c, l) ==
  /\ PushPull(l) \/ ExgTwice(l.code) => c.PC = Origin + Len(l.code) /\ Same(c, l.regs)
  /\ Interrupts(l) => Ended(c, l)

\* The inductive invariant of Undone: nothing runs after the second instruction.
UInv == /\ IInv /\ load \in Loads
        /\ count = 0 => Fresh(cpu, load)
        /\ count = 1 => /\ PushPull(load) => Pushed(cpu, load)
                        /\ ExgTwice(load.code) => Swapped(cpu, load)
                        /\ Interrupts(load) => Interrupted(cpu, load)
        /\ count >= 2 => Restored(cpu, load)

\* The registers of a load.
LEMMA RegFileIs ==
  ASSUME NEW l \in Loads
  PROVE  /\ l.regs = [x \in Frame |-> l.regs[x]]
         /\ l.regs.A \in Byte /\ l.regs.B \in Byte /\ l.regs.DP \in Byte /\ l.regs.CC \in Byte
         /\ l.regs.X \in Word /\ l.regs.Y \in Word /\ l.regs.U \in Word /\ l.regs.S \in Word
<1>1. l.regs \in RegFile
  BY LoadsAssumption
<1> QED
  BY <1>1 DEF RegFile, Frame

\* Undone compares them all.
LEMMA SameIs ==
  ASSUME NEW c, NEW regs, regs = [x \in Frame |-> regs[x]], Same(c, regs)
  PROVE  Registers(c) = regs
<1>1. Registers(c) = [x \in Frame |-> Get(c, x)]
  BY DEF Registers, Frame
<1>2. [x \in Frame |-> Get(c, x)] = [x \in Frame |-> regs[x]]
  BY DEF Same
<1> QED
  BY <1>1, <1>2

\* A run starts with the load's registers.
LEMMA FreshIs ==
  ASSUME Init
  PROVE  Fresh(cpu, load)
<1> DEFINE r == load.regs
           efi == r.CC & EFI_FLAGS
           f == set_cc(r.CC)
           m == InitialMemory(load)
           dp == 256 * r.DP
<1>1. load \in Loads
  BY DEF Init
<1>2. r.DP \in Byte /\ r.CC \in Byte
  BY <1>1, LoadsAssumption DEF RegFile
<1>3. cpu = [A |-> r.A, B |-> r.B, DP |-> dp, X |-> r.X, Y |-> r.Y, U |-> r.U, S |-> r.S,
             PC |-> Origin, EFI |-> efi, f |-> f, cycles |-> 0, mem |-> m,
             waiting |-> FALSE, stopped |-> FALSE]
  BY DEF Init
<1>4. dp \div 256 = r.DP
  BY <1>2 DEF Byte
<1>5. get_cc(efi, f) = r.CC
  BY <1>2, CodesBack
<1> HIDE DEF r, efi, f, m, dp
<1>6. /\ cpu.A = r.A /\ cpu.B = r.B /\ cpu.DP = dp /\ cpu.X = r.X /\ cpu.Y = r.Y /\ cpu.U = r.U
      /\ cpu.S = r.S /\ cpu.PC = Origin /\ cpu.EFI = efi /\ cpu.f = f /\ cpu.mem = m
  BY <1>3
<1>7. ASSUME NEW x \in Frame PROVE Get(cpu, x) = r[x]
  <2>1. CASE x \in {"A", "B", "X", "Y", "U", "S"}
    <3>1. cpu[x] = r[x]
      BY <1>6, <2>1
    <3> QED
      BY <2>1, <3>1 DEF Get
  <2>2. CASE x = "DP"
    BY <1>4, <1>6, <2>2 DEF Get
  <2>3. CASE x = "CC"
    BY <1>5, <1>6, <2>3 DEF Get
  <2> QED
    BY <2>1, <2>2, <2>3 DEF Frame
<1> QED
  BY <1>6, <1>7 DEF Fresh, Same, r, m

\* The bytes of a program of four.
LEMMA FourBytes ==
  ASSUME NEW l \in Loads, Len(l.code) = 4, NEW c, c.mem = InitialMemory(l)
  PROVE  /\ read8(c, Origin) = l.code[1] /\ read8(c, Origin + 1) = l.code[2]
         /\ read8(c, Origin + 2) = l.code[3] /\ read8(c, Origin + 3) = l.code[4]
         /\ l.code[2] \in Byte
<1>1. \A k \in {1, 2, 3, 4} : k \in 1..Len(l.code)
  OBVIOUS
<1>2. /\ Origin + 1 - 1 = Origin /\ Origin + 2 - 1 = Origin + 1 /\ Origin + 3 - 1 = Origin + 2
      /\ Origin + 4 - 1 = Origin + 3
  BY DEF Origin
<1>3. ASSUME NEW k \in {1, 2, 3, 4} PROVE read8(c, Origin + k - 1) = l.code[k] /\ l.code[k] \in Byte
  BY <1>1, CodeIs
<1>4. /\ read8(c, Origin + 1 - 1) = l.code[1] /\ read8(c, Origin + 2 - 1) = l.code[2]
      /\ read8(c, Origin + 3 - 1) = l.code[3] /\ read8(c, Origin + 4 - 1) = l.code[4]
      /\ l.code[2] \in Byte
  BY <1>3
<1> QED
  BY <1>2, <1>4

\* The push.
LEMMA PushStep ==
  ASSUME cpu \in Cpu, load \in Loads, Fresh(cpu, load), PushPull(load), Next
  PROVE  Pushed(cpu', load)
<1> DEFINE code == load.code
           c == Fetched
           g == cpu'
<1>1. /\ cpu.PC = Origin /\ cpu.mem = InitialMemory(load) /\ \A x \in Frame : Get(cpu, x) = load.regs[x]
      /\ Len(code) = 4 /\ code[2] = code[4] /\ code[2] < 128
  BY DEF Fresh, Same, PushPull
<1>2. PICK sp, order : Named(sp, order) /\ PushesOn(load, sp, order) /\ Clear(load.regs[sp], Origin..(Origin + 3))
  <2>1. CASE code[1] = 52 /\ code[3] = 53 /\ Clear(load.regs.S, Origin..(Origin + 3))
    <3>1. Named("S", SysOrder) /\ PushesOn(load, "S", SysOrder)
      BY <2>1 DEF Named, PushesOn
    <3> QED
      BY <2>1, <3>1
  <2>2. CASE code[1] = 54 /\ code[3] = 55 /\ Clear(load.regs.U, Origin..(Origin + 3))
    <3>1. Named("U", UsrOrder) /\ PushesOn(load, "U", UsrOrder)
      BY <2>2 DEF Named, PushesOn
    <3> QED
      BY <2>2, <3>1
  <2> QED
    BY <2>1, <2>2 DEF PushPull
<1>3. /\ read8(cpu, Origin) = code[1] /\ read8(cpu, Origin + 1) = code[2]
      /\ read8(cpu, Origin + 2) = code[3] /\ read8(cpu, Origin + 3) = code[4]
      /\ code[2] \in Byte
  BY <1>1, FourBytes
<1>4. code[1] = 52 \/ code[1] = 54
  BY <1>2 DEF PushesOn
<1>5. Decode(cpu) = page_0(code[1]) /\ c.PC = Origin + 1
  BY <1>1, <1>3, <1>4, FetchOne
<1>6. /\ c \in Cpu /\ c.mem = cpu.mem /\ \A x \in Frame : Get(c, x) = Get(cpu, x)
      /\ \A s \in Stacks : Sp(c, s) = Sp(cpu, s)
  BY FetchKeeps
<1>7. g = Push(c, sp, order)
  <2>1. CASE code[1] = 52
    <3>1. Decode(cpu).op = "pshs" /\ "pshs" \in TwiceOps
      BY <1>5, <2>1, TwiceOpcodes DEF TwiceOps
    <3>2. sp = "S" /\ order = SysOrder
      BY <1>2, <2>1 DEF PushesOn
    <3> QED
      BY <3>1, <3>2, TwiceTurn DEF pshs
  <2>2. CASE code[1] = 54
    <3>1. Decode(cpu).op = "pshu" /\ "pshu" \in TwiceOps
      BY <1>5, <2>2, TwiceOpcodes DEF TwiceOps
    <3>2. sp = "U" /\ order = UsrOrder
      BY <1>2, <2>2 DEF PushesOn
    <3> QED
      BY <3>1, <3>2, TwiceTurn DEF pshu
  <2> QED
    BY <1>4, <2>1, <2>2
<1>8. imm_byte(c) = code[2] /\ ~Has(imm_byte(c), 128)
  <2>1. imm_byte(c) = code[2]
    BY <1>3, <1>5, <1>6, SameMemory DEF imm_byte
  <2> QED
    BY <1>1, <1>3, <2>1, HighBit
<1>9. sp \in Stacks /\ order \in {SysOrder, UsrOrder}
  BY <1>2, NamedAre
<1> HIDE DEF c, g
<1>10. g.PC = Origin + 2
  <2>1. g.PC = c.PC + 1
    BY <1>6, <1>7, <1>9, PushAllIs
  <2> QED
    BY <1>5, <2>1 DEF Origin
<1>11. /\ Deep(c, g, sp, 10)
       /\ \A e \in Cpu : imm_byte(e) = imm_byte(c) /\ Back(g, e, g, sp, Frame)
                           => Back(c, Pull(e, sp, order), g, sp, Frame)
  BY <1>2, <1>6, <1>7, <1>8, PushThenPull
<1>12. read8(g, Origin + 2) = code[3] /\ read8(g, Origin + 3) = code[4]
  <2> DEFINE Adr == Origin..(Origin + 3)
  <2>1. Sp(c, sp) = load.regs[sp]
    <3>1. Get(cpu, sp) = cpu[sp] /\ sp \in Frame
      BY <1>9 DEF Get, Stacks, Frame
    <3> QED
      BY <1>1, <1>6, <1>9, <3>1 DEF Sp
  <2>2. Clear(Sp(c, sp), Adr)
    BY <1>2, <2>1
  <2>3. /\ Origin + 2 \in Adr /\ Origin + 3 \in Adr /\ Origin + 2 \in Word /\ Origin + 3 \in Word
        /\ 10 \in Nat /\ 10 <= 12
    BY DEF Origin, Word
  <2> HIDE DEF Adr
  <2>4. read8(g, Origin + 2) = read8(c, Origin + 2) /\ read8(g, Origin + 3) = read8(c, Origin + 3)
    BY <1>6, <1>9, <1>11, <2>2, <2>3, ClearKept
  <2> QED
    BY <1>3, <1>6, <2>4, SameMemory
<1>13. ASSUME NEW s, NEW o, PushesOn(load, s, o), NEW e \in Cpu, imm_byte(e) = code[2], Back(g, e, g, s, Frame)
       PROVE  Same(Pull(e, s, o), load.regs)
  <2>1. s = sp /\ o = order
    BY <1>2, <1>13 DEF PushesOn
  <2>2. Back(c, Pull(e, s, o), g, s, Frame)
    BY <1>8, <1>11, <1>13, <2>1
  <2> QED
    BY <1>1, <1>6, <2>2 DEF Back, Same
<1> QED
  BY <1>10, <1>12, <1>13 DEF Pushed, g

\* The pull.
LEMMA PullStep ==
  ASSUME cpu \in Cpu, load \in Loads, Pushed(cpu, load), PushPull(load), Next
  PROVE  cpu'.PC = Origin + 4 /\ Same(cpu', load.regs)
<1> DEFINE code == load.code
           c == Fetched
           g == cpu'
<1>1. /\ Len(code) = 4 /\ code[2] = code[4] /\ code[2] < 128
      /\ cpu.PC = Origin + 2 /\ read8(cpu, Origin + 2) = code[3] /\ read8(cpu, Origin + 3) = code[4]
  BY DEF Pushed, PushPull
<1>2. PICK sp, order : Named(sp, order) /\ PushesOn(load, sp, order)
  <2>1. CASE code[1] = 52 /\ code[3] = 53 /\ Clear(load.regs.S, Origin..(Origin + 3))
    <3>1. Named("S", SysOrder) /\ PushesOn(load, "S", SysOrder)
      BY <2>1 DEF Named, PushesOn
    <3> QED
      BY <2>1, <3>1
  <2>2. CASE code[1] = 54 /\ code[3] = 55 /\ Clear(load.regs.U, Origin..(Origin + 3))
    <3>1. Named("U", UsrOrder) /\ PushesOn(load, "U", UsrOrder)
      BY <2>2 DEF Named, PushesOn
    <3> QED
      BY <2>2, <3>1
  <2> QED
    BY <2>1, <2>2 DEF PushPull
<1>3. code[2] \in Byte
  BY <1>1, LoadIs
<1>4. code[3] = 53 \/ code[3] = 55
  BY <1>2 DEF PushesOn
<1>5. Decode(cpu) = page_0(code[3]) /\ c.PC = Origin + 2 + 1
  BY <1>1, <1>4, FetchOne
<1>6. /\ c \in Cpu /\ c.mem = cpu.mem /\ \A x \in Frame : Get(c, x) = Get(cpu, x)
      /\ \A s \in Stacks : Sp(c, s) = Sp(cpu, s)
  BY FetchKeeps
<1>7. g = Pull(c, sp, order)
  <2>1. CASE code[3] = 53
    <3>1. Decode(cpu).op = "puls" /\ "puls" \in TwiceOps
      BY <1>5, <2>1, TwiceOpcodes DEF TwiceOps
    <3>2. sp = "S" /\ order = SysOrder
      BY <1>2, <2>1 DEF PushesOn
    <3> QED
      BY <3>1, <3>2, TwiceTurn DEF puls
  <2>2. CASE code[3] = 55
    <3>1. Decode(cpu).op = "pulu" /\ "pulu" \in TwiceOps
      BY <1>5, <2>2, TwiceOpcodes DEF TwiceOps
    <3>2. sp = "U" /\ order = UsrOrder
      BY <1>2, <2>2 DEF PushesOn
    <3> QED
      BY <3>1, <3>2, TwiceTurn DEF pulu
  <2> QED
    BY <1>4, <2>1, <2>2
<1>8. c.PC = Origin + 3 /\ Origin + 3 + 1 = Origin + 4
  BY <1>5 DEF Origin
<1>9. sp \in Stacks /\ order \in {SysOrder, UsrOrder}
  BY <1>2, NamedAre
<1>10. imm_byte(c) = code[2] /\ ~Has(imm_byte(c), 128)
  <2>1. imm_byte(c) = code[2]
    BY <1>1, <1>6, <1>8, SameMemory DEF imm_byte
  <2> QED
    BY <1>1, <1>3, <2>1, HighBit
<1> HIDE DEF c, g
<1>11. g.PC = Origin + 4
  <2>1. g.PC = c.PC + 1
    BY <1>6, <1>7, <1>9, <1>10, PullAllIs
  <2> QED
    BY <1>8, <2>1
<1>12. Back(cpu, c, cpu, sp, Frame)
  BY <1>6, <1>9 DEF Back
<1>13. Same(g, load.regs)
  BY <1>2, <1>6, <1>7, <1>10, <1>12 DEF Pushed
<1> QED
  BY <1>11, <1>13 DEF g

\* An exchange is the step of its program, at either of its instructions.
LEMMA ExgTurn ==
  ASSUME cpu \in Cpu, load \in Loads, ExgTwice(load.code), cpu.mem = InitialMemory(load),
         cpu.PC = Origin \/ cpu.PC = Origin + 2, Next
  PROVE  LET r1 == RegNumber(load.code[2] \div 16)
             r2 == RegNumber(load.code[2] % 16)
         IN  /\ Pair(r1, r2) /\ Changed(cpu, cpu', Touched(r1, r2)) /\ cpu'.PC = cpu.PC + 2
             /\ Get(cpu', r1) = Get(cpu, r2) /\ Get(cpu', r2) = Get(cpu, r1)
<1> DEFINE code == load.code
           c == Fetched
           g == cpu'
           post == code[2]
           r1 == RegNumber(post \div 16)
           r2 == RegNumber(post % 16)
<1>1. Len(code) = 4 /\ code[1] = 30 /\ code[3] = 30 /\ code[2] = code[4] /\ SameSize(post)
  BY DEF ExgTwice
<1>2. r1 \notin {"none", "PC"} /\ r2 \notin {"none", "PC"}
  BY DEF ExgTwice
<1>3. /\ read8(cpu, Origin) = code[1] /\ read8(cpu, Origin + 1) = code[2]
      /\ read8(cpu, Origin + 2) = code[3] /\ read8(cpu, Origin + 3) = code[4]
      /\ post \in Byte
  BY <1>1, FourBytes
<1>4. Pair(r1, r2)
  BY <1>1, <1>2, <1>3, PairIs
<1>5. read8(cpu, cpu.PC) = 30 /\ read8(cpu, cpu.PC + 1) = post
  <2>1. Origin + 2 + 1 = Origin + 3
    BY DEF Origin
  <2> QED
    BY <1>1, <1>3, <2>1
<1>6. Decode(cpu) = page_0(30) /\ c.PC = cpu.PC + 1
  BY <1>5, FetchOne
<1>7. Changed(cpu, c, JustPC) /\ c \in Cpu /\ c.mem = cpu.mem
  BY FetchKeeps
<1>8. imm_byte(c) = post
  BY <1>5, <1>6, <1>7, SameMemory DEF imm_byte
<1>9. g = exg(c)
  <2>1. Decode(cpu).op = "exg" /\ "exg" \in TwiceOps
    BY <1>6, TwiceOpcodes DEF TwiceOps
  <2> QED
    BY <2>1, TwiceTurn
<1>p. cpu.PC \in Int
  BY CpuIs
<1> HIDE DEF c, g, r1, r2
<1>10. /\ Changed(c, g, Touched(r1, r2)) /\ g.PC = c.PC + 1
       /\ Get(g, r1) = Get(c, r2) /\ Get(g, r2) = Get(c, r1)
  <2>1. SameSize(imm_byte(c)) /\ r1 = RegNumber(imm_byte(c) \div 16) /\ r2 = RegNumber(imm_byte(c) % 16)
    BY <1>1, <1>8 DEF r1, r2
  <2> QED
    BY <1>4, <1>7, <1>9, <2>1, Exchanged
<1>11. Get(c, r1) = Get(cpu, r1) /\ Get(c, r2) = Get(cpu, r2)
  <2>1. r1 \in Regs /\ r2 \in Regs /\ r1 # "PC" /\ r2 # "PC"
    BY <1>4 DEF Pair
  <2>2. ASSUME NEW r \in {r1, r2} PROVE Holds(r) \cap JustPC = {}
    BY <2>1, <2>2 DEF Regs, WordRegs, ByteRegs, Holds, Just, JustD, Codes, JustPC
  <2> QED
    BY <1>7, <2>1, <2>2, GetKept
<1>12. Changed(cpu, g, Touched(r1, r2))
  <2>1. JustPC \subseteq Touched(r1, r2)
    BY DEF JustPC, Touched
  <2>2. Changed(cpu, c, Touched(r1, r2))
    BY <1>7, <2>1, ChangedMore
  <2> QED
    BY <1>10, <2>2, ChangedTwo
<1>13. g.PC = cpu.PC + 2
  BY <1>6, <1>10, <1>p
<1> QED
  BY <1>4, <1>10, <1>11, <1>12, <1>13 DEF r1, r2, g

\* EXG does not touch memory.
LEMMA TouchedIs ==
  ASSUME NEW r1, NEW r2, Pair(r1, r2), NEW c, NEW d, Changed(c, d, Touched(r1, r2))
  PROVE  d.mem = c.mem
<1>1. "mem" \notin Holds(r1) /\ "mem" \notin Holds(r2)
  BY HoldsIs DEF Pair
<1>2. "mem" \in Names /\ "mem" \notin Touched(r1, r2)
  BY <1>1 DEF Names, Touched
<1> QED
  BY <1>2 DEF Changed

\* The first exchange.
LEMMA SwapStep ==
  ASSUME cpu \in Cpu, load \in Loads, Fresh(cpu, load), ExgTwice(load.code), Next
  PROVE  Swapped(cpu', load)
<1> DEFINE r1 == RegNumber(load.code[2] \div 16)
           r2 == RegNumber(load.code[2] % 16)
<1>1. cpu.PC = Origin /\ cpu.mem = InitialMemory(load) /\ Same(cpu, load.regs)
  BY DEF Fresh
<1>2. /\ Pair(r1, r2) /\ Changed(cpu, cpu', Touched(r1, r2)) /\ cpu'.PC = Origin + 2
      /\ Get(cpu', r1) = Get(cpu, r2) /\ Get(cpu', r2) = Get(cpu, r1)
  BY <1>1, ExgTurn
<1>3. cpu'.mem = InitialMemory(load)
  BY <1>1, <1>2, TouchedIs
<1> QED
  BY <1>1, <1>2, <1>3 DEF Swapped

\* The second.
LEMMA SwapBackStep ==
  ASSUME cpu \in Cpu, load \in Loads, Swapped(cpu, load), ExgTwice(load.code), Next
  PROVE  cpu'.PC = Origin + 4 /\ Same(cpu', load.regs)
<1> DEFINE r1 == RegNumber(load.code[2] \div 16)
           r2 == RegNumber(load.code[2] % 16)
<1>1. cpu.PC = Origin + 2 /\ cpu.mem = InitialMemory(load)
  BY DEF Swapped
<1>2. PICK b \in Cpu : /\ Changed(b, cpu, Touched(r1, r2)) /\ Same(b, load.regs)
                       /\ Get(cpu, r1) = Get(b, r2) /\ Get(cpu, r2) = Get(b, r1)
  BY DEF Swapped
<1>3. /\ Pair(r1, r2) /\ Changed(cpu, cpu', Touched(r1, r2)) /\ cpu'.PC = cpu.PC + 2
      /\ Get(cpu', r1) = Get(cpu, r2) /\ Get(cpu', r2) = Get(cpu, r1)
  BY <1>1, ExgTurn
<1> HIDE DEF r1, r2
<1>4. \A x \in Frame : Get(cpu', x) = Get(b, x)
  BY <1>2, <1>3, ExchangedBack
<1>5. Origin + 2 + 2 = Origin + 4
  BY DEF Origin
<1> QED
  BY <1>1, <1>2, <1>3, <1>4, <1>5 DEF Same

\* The interrupt.
LEMMA InterruptStep ==
  ASSUME cpu \in Cpu, load \in Loads, Fresh(cpu, load), Interrupts(load), Next
  PROVE  Interrupted(cpu', load)
<1> DEFINE code == load.code
           c == Fetched
           g == cpu'
<1>1. /\ cpu.PC = Origin /\ cpu.mem = InitialMemory(load) /\ \A x \in Frame : Get(cpu, x) = load.regs[x]
      /\ code \in {<<63>>, <<16, 63>>, <<17, 63>>} /\ load.handler \in {<<59>>, <<53, 255>>}
      /\ Clear(load.regs.S, HandlerBytes)
  BY DEF Fresh, Same, Interrupts, HandlerBytes
<1>2. /\ c \in Cpu /\ c.mem = cpu.mem /\ c.PC = cpu.PC + OpcodeBytes(cpu)
      /\ \A x \in Frame : Get(c, x) = Get(cpu, x)
  BY FetchKeeps
<1>3. c.S = load.regs.S
  <2>1. "S" \in Frame /\ Get(c, "S") = c.S
    BY DEF Frame, Get
  <2> QED
    BY <1>1, <1>2, <2>1
<1>4. \A v \in {65522, 65524, 65530} : RDMEM16(c, v) = Handler
  BY <1>1, <1>2, VectorsPoint
<1>o. Origin + 1 - 1 = Origin /\ Origin + 2 - 1 = Origin + 1 /\ Origin \in Int
  BY DEF Origin
<1> DEFINE Is(n, m, v) == /\ n \in Nat /\ (m = 0 \/ m = 80) /\ v \in {65522, 65524, 65530}
                          /\ g = SoftwareInterrupt(c, n, m, v)
<1>5. ASSUME code = << 63 >> PROVE OpcodeBytes(cpu) = Len(code) /\ \E n, m, v : Is(n, m, v)
  <2>1. Len(code) = 1 /\ code[1] = 63 /\ 1 \in 1..Len(code)
    BY <1>5
  <2>2. read8(cpu, Origin) = 63
    BY <1>1, <1>o, <2>1, CodeIs
  <2>3. Decode(cpu) = page_0(63) /\ OpcodeBytes(cpu) = 1
    BY <1>1, <2>2, FetchOne DEF OpcodeBytes
  <2>4. "swi" \in TwiceOps /\ Decode(cpu).op = "swi"
    BY <2>3, TwiceOpcodes DEF TwiceOps
  <2>5. g = swi(c)
    BY <2>4, TwiceTurn
  <2>6. Is(0, 80, 65530)
    BY <2>5 DEF swi
  <2> HIDE DEF Is
  <2>7. \E n, m, v : Is(n, m, v)
    BY <2>6
  <2> QED
    BY <2>1, <2>3, <2>7
<1>6. ASSUME code = <<16, 63>> PROVE OpcodeBytes(cpu) = Len(code) /\ \E n, m, v : Is(n, m, v)
  <2>1. Len(code) = 2 /\ code[1] = 16 /\ code[2] = 63 /\ 1 \in 1..Len(code) /\ 2 \in 1..Len(code)
    BY <1>6
  <2>2. read8(cpu, Origin) = 16 /\ read8(cpu, Origin + 1) = 63
    BY <1>1, <1>o, <2>1, CodeIs
  <2>3. Decode(cpu) = page_10(63) /\ OpcodeBytes(cpu) = 2
    BY <1>1, <2>2 DEF Decode, OpcodeBytes
  <2>4. "swi2" \in TwiceOps /\ Decode(cpu).op = "swi2"
    BY <2>3, TwiceOpcodes DEF TwiceOps
  <2>5. g = swi2(c)
    BY <2>4, TwiceTurn
  <2>6. Is(1, 0, 65524)
    BY <2>5 DEF swi2
  <2> HIDE DEF Is
  <2>7. \E n, m, v : Is(n, m, v)
    BY <2>6
  <2> QED
    BY <2>1, <2>3, <2>7
<1>7. ASSUME code = <<17, 63>> PROVE OpcodeBytes(cpu) = Len(code) /\ \E n, m, v : Is(n, m, v)
  <2>1. Len(code) = 2 /\ code[1] = 17 /\ code[2] = 63 /\ 1 \in 1..Len(code) /\ 2 \in 1..Len(code)
    BY <1>7
  <2>2. read8(cpu, Origin) = 17 /\ read8(cpu, Origin + 1) = 63
    BY <1>1, <1>o, <2>1, CodeIs
  <2>3. Decode(cpu) = page_11(63) /\ OpcodeBytes(cpu) = 2
    BY <1>1, <2>2 DEF Decode, OpcodeBytes
  <2>4. "swi3" \in TwiceOps /\ Decode(cpu).op = "swi3"
    BY <2>3, TwiceOpcodes DEF TwiceOps
  <2>5. g = swi3(c)
    BY <2>4, TwiceTurn
  <2>6. Is(1, 0, 65522)
    BY <2>5 DEF swi3
  <2> HIDE DEF Is
  <2>7. \E n, m, v : Is(n, m, v)
    BY <2>6
  <2> QED
    BY <2>1, <2>3, <2>7
<1>8. OpcodeBytes(cpu) = Len(code) /\ \E n, m, v : Is(n, m, v)
  <2> HIDE DEF Is
  <2> QED
    BY <1>1, <1>5, <1>6, <1>7
<1>9. PICK n, m, v : Is(n, m, v)
  BY <1>8
<1>10. c.PC = Origin + Len(code) /\ c.PC \in Int /\ c.PC % 65536 = c.PC
  <2>1. c.PC = Origin + Len(code)
    BY <1>1, <1>2, <1>8
  <2>2. Len(code) \in {1, 2}
    BY <1>1
  <2>3. \A k \in {1, 2} : Origin + k \in Int /\ (Origin + k) % 65536 = Origin + k
    BY DEF Origin
  <2> DEFINE k == Len(code)
  <2>4. c.PC = Origin + k /\ k \in {1, 2}
    BY <2>1, <2>2
  <2> HIDE DEF k
  <2>5. c.PC \in Int /\ c.PC % 65536 = c.PC
    BY <2>3, <2>4
  <2> QED
    BY <2>1, <2>5
<1> HIDE DEF c, g
<1>11. /\ g.PC = Handler
       /\ read8(g, Handler) = read8(c, Handler) /\ read8(g, Handler + 1) = read8(c, Handler + 1)
       /\ \A e \in Cpu : Back(g, e, g, "S", Frame \ {"CC"})
                           => Returned(c, rti(e)) /\ (imm_byte(e) = 255 => Returned(c, puls(e)))
  <2>1. /\ c \in Cpu /\ n \in Nat /\ (m = 0 \/ m = 80) /\ v \in {65522, 65524, 65530}
        /\ g = SoftwareInterrupt(c, n, m, v)
    BY <1>2, <1>9
  <2>2. RDMEM16(c, v) = Handler
    BY <1>4, <2>1
  <2>3. Clear(c.S, HandlerBytes)
    BY <1>1, <1>3
  <2>4. Vectored(c, g)
    BY <2>1, <2>2, <2>3, InterruptAndBack
  <2> QED
    BY <2>4 DEF Vectored
<1>12. ASSUME NEW k \in 1..Len(load.handler) PROVE read8(g, Handler + k - 1) = load.handler[k]
  <2>1. read8(c, Handler + k - 1) = load.handler[k]
    BY <1>1, <1>2, HandlerIs
  <2>2. Len(load.handler) \in {1, 2}
    BY <1>1
  <2>3. k = 1 \/ k = 2
    <3>1. CASE Len(load.handler) = 1
      BY <3>1
    <3>2. CASE Len(load.handler) = 2
      BY <3>2
    <3> QED
      BY <2>2, <3>1, <3>2
  <2>4. Handler + 1 - 1 = Handler /\ Handler + 2 - 1 = Handler + 1
    BY DEF Handler
  <2> QED
    BY <1>11, <2>1, <2>3, <2>4
<1>13. ASSUME NEW f, Returned(c, f) PROVE Ended(f, load)
  <2> DEFINE r == load.regs
             w == [r EXCEPT !.CC = @ | 128]
  <2>1. /\ f.PC = c.PC % 65536 /\ Get(f, "CC") = Get(c, "CC") | 128
        /\ \A x \in Frame \ {"CC"} : Get(f, x) = Get(c, x)
    BY <1>13 DEF Returned
  <2>2. f.PC = Origin + Len(code)
    BY <1>10, <2>1
  <2>3. "CC" \in Frame /\ \A x \in Frame : Get(c, x) = r[x]
    BY <1>1, <1>2 DEF Frame
  <2>4. w["CC"] = r["CC"] | 128 /\ \A x \in Frame \ {"CC"} : w[x] = r[x]
    <3>1. r \in RegFile
      BY LoadsAssumption
    <3> HIDE DEF r
    <3> QED
      BY <3>1 DEF RegFile, Frame
  <2> HIDE DEF w, r
  <2>5. \A x \in Frame : Get(f, x) = w[x]
    BY <2>1, <2>3, <2>4
  <2> QED
    BY <2>2, <2>5 DEF Ended, Same, w, r
<1>14. ASSUME NEW e \in Cpu, Back(g, e, g, "S", Frame \ {"CC"})
       PROVE  Ended(rti(e), load) /\ (imm_byte(e) = 255 => Ended(puls(e), load))
  BY <1>11, <1>13, <1>14
<1>15. \A k \in 1..Len(load.handler) : read8(g, Handler + k - 1) = load.handler[k]
  BY <1>12
<1>r. Returns(g, load)
  BY <1>14 DEF Returns
<1>16. Interrupted(g, load)
  BY <1>11, <1>15, <1>r, Zenon DEF Interrupted
<1> QED
  BY <1>16 DEF g

\* The return.
LEMMA ReturnStep ==
  ASSUME cpu \in Cpu, load \in Loads, Interrupted(cpu, load), Interrupts(load), Next
  PROVE  Ended(cpu', load)
<1> DEFINE h == load.handler
           c == Fetched
           g == cpu'
<1>1. /\ cpu.PC = Handler /\ \A k \in 1..Len(h) : read8(cpu, Handler + k - 1) = h[k]
      /\ h \in {<<59>>, <<53, 255>>}
  BY DEF Interrupted, Interrupts
<1>2. /\ c \in Cpu /\ c.mem = cpu.mem /\ \A x \in Frame : Get(c, x) = Get(cpu, x)
      /\ Sp(c, "S") = Sp(cpu, "S")
  BY FetchKeeps DEF Stacks
<1>3. Back(cpu, c, cpu, "S", Frame \ {"CC"})
  BY <1>2 DEF Back
<1>4. Ended(rti(c), load) /\ (imm_byte(c) = 255 => Ended(puls(c), load))
  <2>1. Returns(cpu, load)
    BY DEF Interrupted
  <2> HIDE DEF c
  <2> QED
    BY <1>2, <1>3, <2>1 DEF Returns
<1>5. Handler + 1 - 1 = Handler /\ Handler + 2 - 1 = Handler + 1
  BY DEF Handler
<1>6. CASE h = <<59>>
  <2>1. 1 \in 1..Len(h) /\ h[1] = 59
    BY <1>6
  <2>2. read8(cpu, cpu.PC) = 59
    BY <1>1, <1>5, <2>1
  <2>3. Decode(cpu) = page_0(59)
    BY <2>2, FetchOne
  <2>4. "rti" \in TwiceOps /\ Decode(cpu).op = "rti"
    BY <2>3, TwiceOpcodes DEF TwiceOps
  <2> QED
    BY <1>4, <2>4, TwiceTurn
<1>7. CASE h = <<53, 255>>
  <2>1. 1 \in 1..Len(h) /\ 2 \in 1..Len(h) /\ h[1] = 53 /\ h[2] = 255
    BY <1>7
  <2>2. read8(cpu, cpu.PC) = 53 /\ read8(cpu, cpu.PC + 1) = 255
    BY <1>1, <1>5, <2>1
  <2>3. Decode(cpu) = page_0(53) /\ c.PC = cpu.PC + 1
    BY <2>2, FetchOne
  <2>4. imm_byte(c) = 255
    BY <1>2, <2>2, <2>3, SameMemory DEF imm_byte
  <2>5. "puls" \in TwiceOps /\ Decode(cpu).op = "puls"
    BY <2>3, TwiceOpcodes DEF TwiceOps
  <2> QED
    BY <1>4, <2>4, <2>5, TwiceTurn
<1> QED
  BY <1>1, <1>6, <1>7

\* Nothing runs behind the end of the program.
LEMMA UInvNext ==
  ASSUME UInv, Next
  PROVE  UInv'
<1>1. cpu \in Cpu /\ load \in Loads /\ count \in Nat
  BY DEF UInv, IInv
<1>2. load' = load /\ count' = count + 1 /\ cpu.PC # Origin + Len(load.code)
  BY DEF Next, UnaryInsn, ByteInsn, WordInsn, StoreInsn, LeaInsn, AccInsn, BranchInsn, JumpInsn,
         StackInsn, RegisterInsn, InterruptInsn, InvalidInsn, Plain, Turn, Running, EndOfCode
<1>3. IInv'
  BY NextIs DEF UInv
<1>4. CASE count = 0
  <2>1. Fresh(cpu, load) /\ count' = 1
    BY <1>2, <1>4 DEF UInv
  <2>2. /\ PushPull(load) => Pushed(cpu', load)
        /\ ExgTwice(load.code) => Swapped(cpu', load)
        /\ Interrupts(load) => Interrupted(cpu', load)
    BY <1>1, <2>1, PushStep, SwapStep, InterruptStep
  <2> QED
    BY <1>1, <1>2, <1>3, <2>1, <2>2 DEF UInv
<1>5. CASE count = 1
  <2>1. /\ PushPull(load) => Pushed(cpu, load)
        /\ ExgTwice(load.code) => Swapped(cpu, load)
        /\ Interrupts(load) => Interrupted(cpu, load)
        /\ count' = 2
    BY <1>2, <1>5 DEF UInv
  <2>2. /\ PushPull(load) => cpu'.PC = Origin + 4 /\ Same(cpu', load.regs)
        /\ ExgTwice(load.code) => cpu'.PC = Origin + 4 /\ Same(cpu', load.regs)
        /\ Interrupts(load) => Ended(cpu', load)
    BY <1>1, <2>1, PullStep, SwapBackStep, ReturnStep
  <2>3. PushPull(load) \/ ExgTwice(load.code) => Len(load.code) = 4
    BY DEF PushPull, ExgTwice
  <2>4. Restored(cpu', load)
    <3>1. ASSUME PushPull(load) \/ ExgTwice(load.code)
          PROVE  cpu'.PC = Origin + Len(load.code) /\ Same(cpu', load.regs)
      <4> DEFINE n == Len(load.code)
      <4>1. cpu'.PC = Origin + 4 /\ n = 4 /\ Same(cpu', load.regs)
        BY <2>2, <2>3, <3>1
      <4> HIDE DEF n
      <4>2. cpu'.PC = Origin + n
        BY <4>1
      <4> QED
        BY <4>1, <4>2 DEF n
    <3> QED
      BY <2>2, <3>1 DEF Restored
  <2> QED
    BY <1>1, <1>2, <1>3, <2>1, <2>4 DEF UInv
<1>6. CASE count >= 2
  <2>1. Restored(cpu, load) /\ count' >= 2 /\ count' # 0 /\ count' # 1
    BY <1>1, <1>2, <1>6 DEF UInv
  <2>2. ~PushPull(load) /\ ~ExgTwice(load.code) /\ ~Interrupts(load)
    BY <1>2, <2>1 DEF Restored, Ended
  <2>3. Restored(cpu', load)
    BY <2>2 DEF Restored
  <2> QED
    BY <1>1, <1>2, <1>3, <2>1, <2>3 DEF UInv
<1> QED
  BY <1>1, <1>4, <1>5, <1>6

\* It says what Undone says.
LEMMA UInvUndone ==
  ASSUME UInv
  PROVE  Undone
<1> DEFINE l == load
           r == l.regs
           w == [r EXCEPT !.CC = @ | 128]
<1>1. load \in Loads /\ count \in Nat
  BY DEF UInv, IInv
<1>2. Origin = 1024 /\ Handler = 2048 /\ EndOfCode = Origin + Len(l.code)
  BY DEF Origin, Handler, EndOfCode
<1>3. PushPull(l) \/ ExgTwice(l.code) => Len(l.code) = 4
  BY DEF PushPull, ExgTwice
<1>4. Interrupts(l) => Len(l.code) \in {1, 2}
  BY DEF Interrupts
<1>5. r = [x \in Frame |-> r[x]] /\ w = [x \in Frame |-> w[x]]
  <2>1. r = [x \in Frame |-> r[x]]
    BY <1>1, RegFileIs
  <2>2. DOMAIN w = Frame
    BY <2>1
  <2> QED
    BY <2>1, <2>2
<1> DEFINE n == Len(l.code)
<1>n. (PushPull(l) \/ ExgTwice(l.code) => n = 4) /\ (Interrupts(l) => n \in {1, 2}) /\ EndOfCode = Origin + n
  BY <1>2, <1>3, <1>4
<1> HIDE DEF w, n
<1>6. ASSUME cpu.PC = EndOfCode, PushPull(l) \/ ExgTwice(l.code)
      PROVE  Registers(cpu) = r
  <2>0. cpu.PC = 1024 + 4
    BY <1>2, <1>n, <1>6
  <2>1. count # 0
    <3>1. count = 0 => cpu.PC = 1024
      BY <1>2 DEF UInv, Fresh
    <3> QED
      BY <2>0, <3>1
  <2>2. count # 1
    <3>1. count = 1 => cpu.PC = 1024 + 2
      BY <1>2, <1>6 DEF UInv, Pushed, Swapped
    <3> QED
      BY <2>0, <3>1
  <2>3. Restored(cpu, l)
    BY <1>1, <2>1, <2>2 DEF UInv
  <2>4. Same(cpu, r)
    BY <1>6, <2>3 DEF Restored
  <2> QED
    BY <1>5, <2>4, SameIs
<1>7. ASSUME cpu.PC = EndOfCode, Interrupts(l)
      PROVE  Registers(cpu) = w
  <2>0. cpu.PC = 1024 + 1 \/ cpu.PC = 1024 + 2
    BY <1>2, <1>n, <1>7
  <2>1. count # 0
    <3>1. count = 0 => cpu.PC = 1024
      BY <1>2 DEF UInv, Fresh
    <3> QED
      BY <2>0, <3>1
  <2>2. count # 1
    <3>1. count = 1 => cpu.PC = 2048
      BY <1>2, <1>7 DEF UInv, Interrupted
    <3> QED
      BY <2>0, <3>1
  <2>3. Restored(cpu, l)
    BY <1>1, <2>1, <2>2 DEF UInv
  <2>4. Same(cpu, w)
    BY <1>7, <2>3 DEF Restored, Ended, w
  <2> QED
    BY <1>5, <2>4, SameIs
<1> QED
  BY <1>6, <1>7 DEF Undone, w

\* A push and its pull, an exchange done twice, and a software interrupt and its return
\* bring back every register of every load, whichever registers the post-byte names and
\* wherever S and U point, as long as the stack does not run over the program.
THEOREM ProgramsUndone == Spec => []Undone
<1>1. Init => UInv
  <2>1. Init => count = 0 /\ load \in Loads
    BY DEF Init
  <2> QED
    BY <2>1, InitIs, FreshIs DEF UInv
<1>2. UInv /\ [Next]_vars => UInv'
  <2>1. UInv /\ UNCHANGED vars => UInv'
    BY DEF UInv, IInv, vars
  <2> QED
    BY <2>1, UInvNext
<1>3. UInv => Undone
  BY UInvUndone
<1> QED
  BY <1>1, <1>2, <1>3, PTL DEF Spec

=============================================================================
