----------------------------- MODULE MCInsn6809 -----------------------------
(* Families of programs for Insn6809. *)
EXTENDS Insn6809

Regs == [A |-> 16, B |-> 240, DP |-> 3, X |-> 1280, Y |-> 1536, U |-> 1792, S |-> 3840,
         CC |-> 0]
Load(code, regs) == [code |-> code, handler |-> <<59>>, regs |-> regs]

\* Bytes around the ends of the signed and the unsigned range.
Edge  == {0, 1, 15, 16, 127, 128, 129, 254, 255}
Edge2 == {0, 1, 255, 256, 32767, 32768, 65535}

\* Every opcode of every page, and every post-byte of some.
Opcodes ==
  {Load(<<op, post, 32>>, Regs) : op \in 0..255 \ {16, 17}, post \in {5, 132, 17}}
  \cup {Load(<<page, op, 132, 5>>, Regs) : page \in {16, 17}, op \in 0..255}
PostBytes ==
  {Load(<<op, post, 4, 32>>, Regs) : op \in {48, 96, 110, 166, 172, 30, 31}, post \in 0..255}

Bytes ==
  {Load(<<op, v>>, [Regs EXCEPT !.A = a, !.CC = cc]) :
     op \in {128 + n : n \in {m \in 0..15 : ByteOp(m) # "invalid"}}, v \in Edge, a \in Edge, cc \in {0, 255, 1}}
  \cup {Load(<<64 + n>>, [Regs EXCEPT !.A = a, !.CC = cc]) :
          n \in {m \in 0..15 : UnaryOp(m) # "invalid"}, a \in 0..255, cc \in {0, 255}}
WordCode(op, v) == op \o <<v \div 256, v % 256>>
WordArith ==
  {Load(WordCode(op, v), [Regs EXCEPT !.A = d \div 256, !.B = d % 256, !.X = d, !.CC = cc]) :
     op \in {<<195>>, <<131>>, <<140>>, <<16, 131>>, <<204>>}, v \in Edge2, d \in Edge2,
     cc \in {0, 255}}

Compares ==
  {Load(<<op, v, 32 + n, 5>>, [Regs EXCEPT !.A = a]) :
     op \in {128, 129}, v \in Edge, a \in Edge, n \in 2..15}
  \cup {Load(WordCode(<<140>>, v) \o <<16, 32 + n, 0, 5>>, [Regs EXCEPT !.X = x]) :
          v \in Edge2, x \in Edge2, n \in 2..15}

Undos ==
  {Load(<<op, m, op + 1, m>>, [Regs EXCEPT !.S = s, !.U = 5, !.CC = 170]) :
     op \in {52, 54}, m \in 0..127, s \in {3, 3840}}
  \cup {Load(<<30, p, 30, p>>, [Regs EXCEPT !.CC = 85]) : p \in 0..255}
  \cup {[code |-> c, handler |-> h, regs |-> [Regs EXCEPT !.CC = cc]] :
          c \in {<<63>>, <<16, 63>>, <<17, 63>>}, h \in {<<59>>, <<53, 255>>},
          cc \in {0, 127, 47}}

Pairs ==
  {Load(<<op[1], v % 256, op[2], v \div 256>>,
        [Regs EXCEPT !.A = d \div 256, !.B = d % 256, !.CC = 1]) :
     op \in {<<203, 137>>, <<192, 130>>}, v \in Edge2, d \in Edge2}

Bcd == {Decimal(n) : n \in {0, 1, 5, 9, 10, 39, 45, 50, 55, 61, 88, 90, 95, 99}}
BcdLoads == {Load(<<139, v, 25>>, [Regs EXCEPT !.A = a]) : a \in Bcd, v \in Bcd}

AllLoads ==
  Opcodes \cup PostBytes \cup Bytes \cup WordArith \cup Compares \cup Undos \cup Pairs \cup BcdLoads
=============================================================================
