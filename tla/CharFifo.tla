------------------------------ MODULE CharFifo ------------------------------
(***************************************************************************)
(* What the receiver of the multicomp09 UART promises.  It is the bounded  *)
(* queue of SerialFifo, but a read of the data register looks at the       *)
(* keyboard first, so that one step may put a character and take one, and  *)
(* the guest can reset it: it then finds the queue empty, until the next   *)
(* character arrives behind the stale ones the reset left.                 *)
(***************************************************************************)
EXTENDS SerialFifo

VARIABLE stale   \* after a reset, what the next character will bring back

\* What is in front of the next character.
Held == IF queue = << >> THEN stale ELSE queue

CharPut(v) ==
  /\ Len(Held) < Size
  /\ queue' = Append(Held, v)
  /\ got' = got
  /\ stale' = << >>

CharTake == Take /\ stale' = << >>

PutTake(v) ==
  /\ Len(Held) < Size
  /\ queue' = Tail(Append(Held, v))
  /\ got' = Head(Append(Held, v))
  /\ stale' = << >>

Reset == queue' = << >> /\ got' = got /\ Len(stale') < Size

CharNext == CharTake \/ Reset \/ \E v \in Byte : CharPut(v) \/ PutTake(v)

CharSpec == Init /\ stale = << >> /\ [][CharNext]_<<queue, got, stale>>
=============================================================================
