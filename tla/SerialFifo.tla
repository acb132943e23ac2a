----------------------------- MODULE SerialFifo -----------------------------
(***************************************************************************)
(* What the receive side of a serial port promises: bytes injected into it *)
(* come out in order, each once, and a byte is refused only when Size of   *)
(* them are waiting.                                                       *)
(***************************************************************************)
EXTENDS Integers, Sequences

CONSTANTS Byte, Size, NoByte

VARIABLES queue,   \* the bytes waiting, oldest first
          got      \* the byte taken last, NoByte before the first

Init == queue = << >> /\ got = NoByte

Put(v) ==
  /\ Len(queue) < Size
  /\ queue' = Append(queue, v)
  /\ got' = got

Take ==
  /\ queue # << >>
  /\ queue' = Tail(queue)
  /\ got' = Head(queue)

Next == Take \/ \E v \in Byte : Put(v)

Spec == Init /\ [][Next]_<<queue, got>>
=============================================================================
