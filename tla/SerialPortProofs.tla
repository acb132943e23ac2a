-------------------------- MODULE SerialPortProofs --------------------------
(***************************************************************************)
(* Proofs about SerialPort for every ring size, byte set and descriptor.   *)
(***************************************************************************)
EXTENDS SerialPort, SequenceTheorems, TLAPS

\* Remainders of the numbers a cursor can reach.
LEMMA ModSmall ==
  ASSUME NEW n \in Nat \ {0}, NEW x \in Nat, x < n
  PROVE  x % n = x
  OBVIOUS

LEMMA ModWrap ==
  ASSUME NEW n \in Nat \ {0}, NEW x \in Nat, n <= x, x < n + n
  PROVE  x % n = x - n
  OBVIOUS

\* Moving the write cursor on by one moves the end of the queue on by one.
LEMMA ModPush ==
  ASSUME NEW n \in Nat \ {0}, NEW r \in 0..(n - 1), NEW k \in 0..n
  PROVE  (((r + k) % n) + 1) % n = (r + (k + 1)) % n
  <1>1. CASE r + k < n
    <2>1. (r + k) % n = r + k
      BY <1>1, ModSmall
    <2>2. ((r + k) % n) + 1 = r + (k + 1)
      BY <2>1
    <2> QED BY <2>2, Zenon
  <1>2. CASE r + k >= n
    <2>1. (r + k) % n = (r + k) - n
      <3> DEFINE x == r + k
      <3>1. x \in Nat /\ n <= x /\ x < n + n
        BY <1>2
      <3> HIDE DEF x
      <3>2. x % n = x - n
        BY <3>1, ModWrap
      <3> QED BY <3>2 DEF x
    <2>2. CASE r + k + 1 < n + n
      <3>1. (r + k - n + 1) % n = r + k - n + 1
        BY <1>2, <2>2, ModSmall
      <3>2. (r + (k + 1)) % n = r + (k + 1) - n
        BY <1>2, <2>2, ModWrap
      <3> QED BY <2>1, <3>1, <3>2
    <2> QED BY <2>2
  <1> QED BY <1>1, <1>2

\* Moving the read cursor on by one shifts every queued byte down by one.
LEMMA ModPop ==
  ASSUME NEW n \in Nat \ {0}, NEW r \in 0..(n - 1), NEW k \in 0..n
  PROVE  (((r + 1) % n) + k) % n = (r + (k + 1)) % n
  <1>1. CASE r + 1 < n
    <2>1. (r + 1) % n = r + 1
      BY <1>1, ModSmall
    <2> QED BY <2>1
  <1>2. CASE r + 1 = n
    <2>1. (r + 1) % n = 0
      BY <1>2, ModWrap
    <2>2. CASE k < n
      <3>1. k % n = k
        BY <2>2, ModSmall
      <3>2. (r + (k + 1)) = n + k
        BY <1>2
      <3>3. (n + k) % n = k
        BY <2>2, ModWrap
      <3> QED BY <2>1, <3>1, <3>2, <3>3
    <2>3. CASE k = n
      <3>1. k % n = 0
        BY <2>3, ModWrap
      <3>2. (n + n) % n = 0
        OBVIOUS
      <3> QED BY <1>2, <2>1, <2>3, <3>1, <3>2
    <2> QED BY <2>2, <2>3
  <1> QED BY <1>1, <1>2

\* A cursor moved on by one slot is again a slot.
LEMMA CursorStep ==
  ASSUME NEW x \in Slots
  PROVE  (x + 1) % Size \in Slots
  BY SizeAssumption, ModSmall, ModWrap DEF Slots

\* The inductive invariant.
Inv == TypeOK /\ RingConsistent

LEMMA InitInv == Init => Inv
  BY SizeAssumption, FinAssumption, BoundAssumption, ModSmall
  DEF Init, Inv, TypeOK, RingConsistent, Slots

\* serial_queue_push keeps the ring sound.
LEMMA PushInv ==
  ASSUME Inv, NEW v \in Byte, serial_queue_push(v)
  PROVE  /\ rx_buf' \in [Slots -> Byte]
         /\ rx_rd' \in Slots /\ rx_wr' \in Slots /\ rx_count' \in 0..Size
         /\ got' \in Byte \cup {NoByte}
         /\ RingConsistent'
  <1> USE SizeAssumption DEF Inv, TypeOK, serial_queue_push
  <1>1. rx_wr' \in Slots
    BY CursorStep
  <1>2. rx_buf' \in [Slots -> Byte] /\ rx_rd' \in Slots /\ got' \in Byte \cup {NoByte}
    OBVIOUS
  <1>3. rx_count' \in 0..Size
    OBVIOUS
  <1>4. RingConsistent'
    <2>1. Size \in Nat \ {0} /\ rx_rd \in 0..(Size - 1) /\ rx_count \in 0..Size
      BY DEF Slots
    <2>2. (((rx_rd + rx_count) % Size) + 1) % Size = (rx_rd + (rx_count + 1)) % Size
      BY <2>1, ModPush
    <2> QED BY <2>2 DEF RingConsistent
  <1> QED BY <1>1, <1>2, <1>3, <1>4

\* serial_queue_pop keeps the ring sound.
LEMMA PopInv ==
  ASSUME Inv, serial_queue_pop
  PROVE  /\ rx_buf' \in [Slots -> Byte]
         /\ rx_rd' \in Slots /\ rx_wr' \in Slots /\ rx_count' \in 0..Size
         /\ got' \in Byte \cup {NoByte}
         /\ RingConsistent'
  <1> USE SizeAssumption DEF Inv, TypeOK, serial_queue_pop
  <1>1. rx_rd' \in Slots
    BY CursorStep
  <1>2. rx_buf' \in [Slots -> Byte] /\ rx_wr' \in Slots /\ got' \in Byte \cup {NoByte}
    OBVIOUS
  <1>3. rx_count' \in 0..Size
    OBVIOUS
  <1>4. RingConsistent'
    <2>1. /\ Size \in Nat \ {0} /\ rx_rd \in 0..(Size - 1)
          /\ rx_count - 1 \in 0..Size /\ (rx_count - 1) + 1 = rx_count
      BY DEF Slots
    <2>2. (((rx_rd + 1) % Size) + (rx_count - 1)) % Size
            = (rx_rd + ((rx_count - 1) + 1)) % Size
      BY <2>1, ModPop
    <2> QED BY <2>1, <2>2 DEF RingConsistent
  <1> QED BY <1>1, <1>2, <1>3, <1>4

\* What a command line leaves of the host's bytes, and of fin if it is no stdin.
LEMMA LineTyped ==
  ASSUME Inv, TakeLine
  PROVE  /\ host' \in Seq(Byte) /\ taken' \in BOOLEAN
         /\ (taken' = taken /\ host' = host) \/ (FinSelected /\ taken')
  <1>1. PICK k \in 0..Len(host) : /\ k > 0 <=> FinSelected /\ host # << >>
                                 /\ host' = SubSeq(host, k + 1, Len(host))
                                 /\ taken' = (taken \/ k > 0)
    BY DEF TakeLine
  <1>2. host \in Seq(Byte) /\ taken \in BOOLEAN /\ Len(host) \in Nat
    BY DEF Inv, TypeOK
  <1>3. host' \in Seq(Byte)
    BY <1>1, <1>2
  <1>4. CASE k > 0
    BY <1>1, <1>2, <1>3, <1>4
  <1>5. CASE k = 0
    <2>1. SubSeq(host, 1, Len(host)) = host
      BY <1>2
    <2> QED BY <1>1, <1>2, <1>3, <1>5, <2>1
  <1>6. k > 0 \/ k = 0
    BY <1>2
  <1> QED BY <1>4, <1>5, <1>6

LEMMA NextInv == Inv /\ [Next]_vars => Inv'
  <1> SUFFICES ASSUME Inv, [Next]_vars PROVE Inv'
    OBVIOUS
  <1>1. ASSUME UNCHANGED ring
        PROVE  /\ rx_buf' \in [Slots -> Byte]
               /\ rx_rd' \in Slots /\ rx_wr' \in Slots /\ rx_count' \in 0..Size
               /\ got' \in Byte \cup {NoByte}
               /\ RingConsistent'
    BY <1>1 DEF Inv, TypeOK, RingConsistent, ring
  <1>2. CASE ReadStatus
    BY <1>1, <1>2 DEF ReadStatus, serial_update, Inv, TypeOK, history
  <1>3. CASE ReadData
    <2>1. /\ status' \subseteq {"READOK", "WRITEOK"} /\ ctrl' = ctrl /\ eof' = eof
          /\ args' = args /\ guest' = "poll" /\ prompt' = prompt /\ taken' = taken
      BY <1>3 DEF ReadData, serial_update
    <2>2. CASE serial_queue_pop /\ UNCHANGED <<host, phantom>>
      BY <2>1, <2>2, PopInv DEF Inv, TypeOK
    <2>3. CASE host # << >> /\ host' = Tail(host) /\ UNCHANGED <<ring, phantom>>
      BY <1>1, <2>1, <2>3 DEF Inv, TypeOK
    <2>4. CASE phantom' = TRUE /\ UNCHANGED <<ring, host>>
      BY <1>1, <2>1, <2>4 DEF Inv, TypeOK
    <2> QED BY <1>3, <2>2, <2>3, <2>4 DEF ReadData
  <1>4. ASSUME NEW bits \in SUBSET {"ASYNC", "RESET"}, WriteCtrl(bits) PROVE Inv'
    BY <1>1, <1>4 DEF WriteCtrl, Inv, TypeOK, history
  <1>5. ASSUME NEW v \in Byte, HostSend(v) PROVE Inv'
    BY <1>1, <1>5 DEF HostSend, Inv, TypeOK, history
  <1>6. CASE HostClose
    BY <1>1, <1>6 DEF HostClose, Inv, TypeOK, history
  <1>7. ASSUME NEW vals \in Args, Serrx(vals) PROVE Inv'
    <2>1. vals \in Seq(Byte)
      BY BoundAssumption DEF Args
    <2> QED BY <1>1, <1>7, <2>1, LineTyped DEF Serrx, Inv, TypeOK
  <1>8. CASE SerrxArg
    <2>1. /\ UNCHANGED <<status, ctrl, host, eof, prompt, guest, taken, phantom>>
          /\ args \in Seq(Byte) /\ args # << >>
      BY <1>8 DEF SerrxArg, Inv, TypeOK, history
    <2>2. CASE serial_queue_push(Head(args)) /\ args' = Tail(args)
      <3>1. Head(args) \in Byte /\ args' \in Seq(Byte)
        BY <2>1, <2>2
      <3> QED BY <2>1, <2>2, <3>1, PushInv DEF Inv, TypeOK
    <2>3. CASE args' = << >> /\ UNCHANGED ring
      BY <1>1, <2>1, <2>3 DEF Inv, TypeOK
    <2> QED BY <1>8, <2>2, <2>3 DEF SerrxArg
  <1>9. CASE UNCHANGED vars
    BY <1>1, <1>9 DEF vars, Inv, TypeOK, history
  <1>10. CASE OpenPrompt
    BY <1>1, <1>10 DEF OpenPrompt, Inv, TypeOK, history
  <1>11. CASE OtherLine
    BY <1>1, <1>11, LineTyped DEF OtherLine, Inv, TypeOK
  <1> QED BY <1>2, <1>3, <1>4, <1>5, <1>6, <1>7, <1>8, <1>9, <1>10, <1>11 DEF Next

\* The registers and the ring keep their types, for any ring size.
THEOREM TypeCorrect == Spec => []TypeOK
  <1>1. Inv => TypeOK
    BY DEF Inv
  <1> QED BY <1>1, InitInv, NextInv, PTL DEF Spec

\* The cursors of serial_queue_push and serial_queue_pop stay rx_count apart.
THEOREM RingSound == Spec => []RingConsistent
  <1>1. Inv => RingConsistent
    BY DEF Inv
  <1> QED BY <1>1, InitInv, NextInv, PTL DEF Spec

-----------------------------------------------------------------------------
(* The ring implements the bounded FIFO. *)

LEMMA ModRange ==
  ASSUME NEW n \in Nat \ {0}, NEW x \in Nat
  PROVE  x % n \in 0..(n - 1)
  OBVIOUS

\* Fewer than n consecutive numbers have different remainders.
LEMMA ModDistinct ==
  ASSUME NEW n \in Nat \ {0}, NEW r \in 0..(n - 1),
         NEW j \in Nat, NEW k \in Nat, j < k, k < n
  PROVE  (r + j) % n # (r + k) % n
  <1> DEFINE x == r + j
             y == r + k
  <1>1. x \in Nat /\ y \in Nat /\ x < y /\ y < x + n /\ y < n + n
    OBVIOUS
  <1> HIDE DEF x, y
  <1>2. (x < n => x % n = x) /\ (y < n => y % n = y)
    BY <1>1, ModSmall
  <1>3. n <= x => x % n = x - n
    BY <1>1, ModWrap
  <1>4. n <= y => y % n = y - n
    BY <1>1, ModWrap
  <1>5. x % n # y % n
    BY <1>1, <1>2, <1>3, <1>4
  <1> QED BY <1>5 DEF x, y

\* The i-th waiting byte is in a slot of the ring.
LEMMA QueueSlot ==
  ASSUME Inv, NEW i \in Nat
  PROVE  (rx_rd + i) % Size \in Slots
  <1>1. rx_rd + i \in Nat
    BY SizeAssumption DEF Inv, TypeOK, Slots
  <1> QED BY <1>1, SizeAssumption, ModRange DEF Slots

\* Queue is a sequence of rx_count bytes.
LEMMA QueueIsSeq ==
  ASSUME Inv
  PROVE  /\ Queue \in Seq(Byte)
         /\ Len(Queue) = rx_count
         /\ \A i \in 1..rx_count : Queue[i] = rx_buf[(rx_rd + (i - 1)) % Size]
  <1>1. rx_count \in Nat /\ rx_buf \in [Slots -> Byte]
    BY SizeAssumption DEF Inv, TypeOK
  <1>2. \A i \in 1..rx_count : rx_buf[(rx_rd + (i - 1)) % Size] \in Byte
    <2> SUFFICES ASSUME NEW i \in 1..rx_count
                 PROVE  rx_buf[(rx_rd + (i - 1)) % Size] \in Byte
      OBVIOUS
    <2>1. i - 1 \in Nat
      BY <1>1
    <2>2. (rx_rd + (i - 1)) % Size \in Slots
      BY <2>1, QueueSlot
    <2> QED BY <1>1, <2>2
  <1>3. Queue \in [1..rx_count -> Byte]
    BY <1>2 DEF Queue
  <1>4. Queue \in Seq(Byte) /\ Len(Queue) = rx_count
    BY <1>1, <1>3
  <1> QED BY <1>4 DEF Queue

LEMMA PushRefines ==
  ASSUME Inv, Inv', NEW v \in Byte, serial_queue_push(v)
  PROVE  Fifo!Put(v)
  <1>1. /\ Queue \in Seq(Byte) /\ Len(Queue) = rx_count
        /\ \A i \in 1..rx_count : Queue[i] = rx_buf[(rx_rd + (i - 1)) % Size]
    BY QueueIsSeq
  <1>2. /\ Queue' \in Seq(Byte) /\ Len(Queue') = rx_count'
        /\ \A i \in 1..rx_count' : Queue'[i] = rx_buf'[(rx_rd' + (i - 1)) % Size]
    <2>1. Inv' => (/\ Queue \in Seq(Byte) /\ Len(Queue) = rx_count
                   /\ \A i \in 1..rx_count :
                        Queue[i] = rx_buf[(rx_rd + (i - 1)) % Size])'
      BY QueueIsSeq, PTL
    <2> QED BY <2>1
  <1>3. /\ rx_count' = rx_count + 1 /\ rx_count < Size /\ rx_rd' = rx_rd /\ got' = got
        /\ rx_buf' = [rx_buf EXCEPT ![rx_wr] = v] /\ rx_wr = (rx_rd + rx_count) % Size
        /\ rx_buf \in [Slots -> Byte] /\ rx_wr \in Slots /\ rx_count \in Nat
        /\ rx_rd \in 0..(Size - 1)
    BY SizeAssumption DEF serial_queue_push, Inv, TypeOK, RingConsistent, Slots
  <1>4. Queue' = Append(Queue, v)
    <2>1. /\ Append(Queue, v) \in Seq(Byte) /\ Len(Append(Queue, v)) = rx_count + 1
          /\ \A i \in 1..rx_count : Append(Queue, v)[i] = Queue[i]
          /\ Append(Queue, v)[rx_count + 1] = v
      BY <1>1, AppendProperties
    <2>2. ASSUME NEW i \in 1..(rx_count + 1)
          PROVE  Queue'[i] = Append(Queue, v)[i]
      <3>1. Queue'[i] = rx_buf'[(rx_rd + (i - 1)) % Size]
        BY <1>2, <1>3
      <3>2. CASE i = rx_count + 1
        <4>1. (rx_rd + (i - 1)) % Size = rx_wr
          BY <1>3, <3>2
        <4> QED BY <1>3, <2>1, <3>1, <3>2, <4>1
      <3>3. CASE i \in 1..rx_count
        <4>1. i - 1 \in Nat /\ i - 1 < rx_count
          BY <1>3, <3>3
        <4>2. (rx_rd + (i - 1)) % Size # rx_wr
          BY <1>3, <4>1, SizeAssumption, ModDistinct
        <4>3. (rx_rd + (i - 1)) % Size \in Slots
          BY <4>1, QueueSlot
        <4>4. Queue'[i] = rx_buf[(rx_rd + (i - 1)) % Size]
          BY <1>3, <3>1, <4>2, <4>3
        <4> QED BY <1>1, <2>1, <3>3, <4>4
      <3>4. rx_count \in Nat
        BY <1>3
      <3>5. i = rx_count + 1 \/ i \in 1..rx_count
        BY <3>4
      <3> QED BY <3>2, <3>3, <3>5
    <2> QED BY <1>2, <1>3, <2>1, <2>2, SeqEqual
  <1> QED BY <1>1, <1>3, <1>4 DEF Fifo!Put

LEMMA PopRefines ==
  ASSUME Inv, Inv', serial_queue_pop
  PROVE  Fifo!Take
  <1>1. /\ Queue \in Seq(Byte) /\ Len(Queue) = rx_count
        /\ \A i \in 1..rx_count : Queue[i] = rx_buf[(rx_rd + (i - 1)) % Size]
    BY QueueIsSeq
  <1>2. /\ Queue' \in Seq(Byte) /\ Len(Queue') = rx_count'
        /\ \A i \in 1..rx_count' : Queue'[i] = rx_buf'[(rx_rd' + (i - 1)) % Size]
    <2>1. Inv' => (/\ Queue \in Seq(Byte) /\ Len(Queue) = rx_count
                   /\ \A i \in 1..rx_count :
                        Queue[i] = rx_buf[(rx_rd + (i - 1)) % Size])'
      BY QueueIsSeq, PTL
    <2> QED BY <2>1
  <1>3. /\ rx_count' = rx_count - 1 /\ rx_count > 0 /\ rx_count <= Size
        /\ rx_rd' = (rx_rd + 1) % Size /\ got' = rx_buf[rx_rd] /\ rx_buf' = rx_buf
        /\ rx_count \in Nat /\ rx_rd \in 0..(Size - 1)
    BY SizeAssumption DEF serial_queue_pop, Inv, TypeOK, Slots
  <1>4. Queue # << >>
    BY <1>1, <1>3
  <1>5. Queue' = Tail(Queue)
    <2>1. /\ Tail(Queue) \in Seq(Byte) /\ Len(Tail(Queue)) = rx_count - 1
          /\ \A i \in 1..(rx_count - 1) : Tail(Queue)[i] = Queue[i + 1]
      BY <1>1, <1>4, HeadTailProperties
    <2>2. ASSUME NEW i \in 1..(rx_count - 1)
          PROVE  Queue'[i] = Tail(Queue)[i]
      <3>1. Queue'[i] = rx_buf[(((rx_rd + 1) % Size) + (i - 1)) % Size]
        BY <1>2, <1>3
      <3>2. i - 1 \in 0..Size /\ (i - 1) + 1 = i /\ i + 1 \in 1..rx_count
                              /\ (i + 1) - 1 = i
        BY <1>3, SizeAssumption
      <3>3. (((rx_rd + 1) % Size) + (i - 1)) % Size = (rx_rd + ((i - 1) + 1)) % Size
        BY <1>3, <3>2, SizeAssumption, ModPop
      <3>4. Queue[i + 1] = rx_buf[(rx_rd + ((i + 1) - 1)) % Size]
        BY <1>1, <3>2
      <3>5. Queue'[i] = rx_buf[(rx_rd + i) % Size]
        BY <3>1, <3>2, <3>3, Zenon
      <3>6. Queue[i + 1] = rx_buf[(rx_rd + i) % Size]
        BY <3>2, <3>4, Zenon
      <3>7. Tail(Queue)[i] = Queue[i + 1]
        BY <2>1
      <3> QED BY <3>5, <3>6, <3>7
    <2> QED BY <1>2, <1>3, <2>1, <2>2, SeqEqual
  <1>6. Head(Queue) = rx_buf[rx_rd]
    <2>1. Head(Queue) = rx_buf[(rx_rd + (1 - 1)) % Size]
      BY <1>1, <1>3
    <2>2. rx_rd + (1 - 1) = rx_rd /\ rx_rd % Size = rx_rd
      BY <1>3, SizeAssumption, ModSmall
    <2> QED BY <2>1, <2>2
  <1> QED BY <1>3, <1>4, <1>5, <1>6 DEF Fifo!Take

\* Every step of the port is a step of the FIFO or leaves it alone.
LEMMA NextRefines ==
  ASSUME Inv, Inv', [Next]_vars
  PROVE  [Fifo!Next]_<<Queue, got>>
  <1>1. ASSUME UNCHANGED ring PROVE UNCHANGED <<Queue, got>>
    BY <1>1 DEF ring, Queue
  <1>2. CASE ReadData
    BY <1>1, <1>2, PopRefines DEF ReadData, Fifo!Next
  <1>3. CASE SerrxArg
    <2>1. args \in Seq(Byte) /\ args # << >>
      BY <1>3 DEF SerrxArg, Inv, TypeOK
    <2>2. Head(args) \in Byte
      BY <2>1
    <2> QED BY <1>1, <1>3, <2>2, PushRefines DEF SerrxArg, Fifo!Next
  <1>4. CASE ReadStatus \/ HostClose
    BY <1>1, <1>4 DEF ReadStatus, HostClose
  <1>5. ASSUME NEW bits \in SUBSET {"ASYNC", "RESET"}, WriteCtrl(bits)
        PROVE  UNCHANGED <<Queue, got>>
    BY <1>1, <1>5 DEF WriteCtrl
  <1>6. ASSUME NEW v \in Byte, HostSend(v) PROVE UNCHANGED <<Queue, got>>
    BY <1>1, <1>6 DEF HostSend
  <1>7. ASSUME NEW vals \in Args, Serrx(vals) PROVE UNCHANGED <<Queue, got>>
    BY <1>1, <1>7 DEF Serrx
  <1>8. CASE UNCHANGED vars
    BY <1>1, <1>8 DEF vars
  <1>9. CASE OpenPrompt \/ OtherLine
    BY <1>1, <1>9 DEF OpenPrompt, OtherLine
  <1> QED BY <1>2, <1>3, <1>4, <1>5, <1>6, <1>7, <1>8, <1>9 DEF Next

\* The receive ring implements the bounded FIFO of SerialFifo: bytes given to
\* serrx reach the guest in order, each once, for every ring size.
THEOREM RingImplementsFifo == Spec => ImplementsFifo
  <1>1. Init => Fifo!Init
    <2> SUFFICES ASSUME Init PROVE Fifo!Init
      OBVIOUS
    <2>1. Queue \in Seq(Byte) /\ Len(Queue) = 0
      BY InitInv, QueueIsSeq DEF Init
    <2> QED BY <2>1 DEF Init, Fifo!Init
  <1>2. Inv /\ Inv' /\ [Next]_vars => [Fifo!Next]_<<Queue, got>>
    BY NextRefines
  <1> QED BY <1>1, <1>2, InitInv, NextInv, PTL DEF Spec, ImplementsFifo, Fifo!Spec

-----------------------------------------------------------------------------
(* READOK keeps its word. *)

\* What the guest has seen announced is still there when it reads the data, or
\* the prompt has read fin since: nobody else takes bytes away.
Announced ==
  /\ guest = "data" /\ ~eof => rx_count > 0 \/ (FinSelected /\ (host # << >> \/ taken))
  /\ NoPhantomByte

LEMMA NextAnnounced ==
  ASSUME Inv, Announced, [Next]_vars
  PROVE  Announced'
  <1> USE DEF NoPhantomByte, history
  <1>1. CASE ReadStatus
    <2>1. UNCHANGED <<rx_count, host, eof>> /\ phantom' = FALSE
      BY <1>1 DEF ReadStatus, ring
    <2>2. guest' = "data" => rx_count > 0 \/ (FinSelected /\ (host # << >> \/ eof))
      BY <1>1 DEF ReadStatus, serial_update
    <2> QED BY <2>1, <2>2 DEF Announced
  <1>2. CASE ReadData
    <2>1. guest = "data" /\ guest' = "poll" /\ eof' = eof /\ taken' = taken
      BY <1>2 DEF ReadData
    <2>2. CASE phantom' = phantom
      BY <2>1, <2>2 DEF Announced
    <2>3. CASE rx_count = 0 /\ ("READOK" \in status' => host = << >>)
      <3>1. FinSelected /\ host # << >> => "READOK" \in status'
        BY <1>2 DEF ReadData, serial_update
      <3>2. eof \/ (FinSelected /\ taken)
        BY <2>1, <2>3, <3>1 DEF Announced
      <3> QED BY <2>1, <3>2 DEF Announced
    <2> QED BY <1>2, <2>2, <2>3 DEF ReadData
  <1>3. ASSUME NEW v \in Byte, HostSend(v) PROVE Announced'
    <2>1. host' # << >>
      BY <1>3 DEF HostSend, Inv, TypeOK
    <2> QED BY <1>3, <2>1 DEF HostSend, Announced, ring
  <1>4. CASE HostClose
    BY <1>4 DEF HostClose, Announced, ring
  <1>5. CASE SerrxArg
    <2>1. rx_count \in Nat /\ rx_count' \in Nat /\ rx_count' >= rx_count
      BY <1>5, SizeAssumption DEF SerrxArg, serial_queue_push, ring, Inv, TypeOK
    <2> QED BY <1>5, <2>1 DEF SerrxArg, Announced
  <1>6. ASSUME NEW bits \in SUBSET {"ASYNC", "RESET"}, WriteCtrl(bits) PROVE Announced'
    BY <1>6 DEF WriteCtrl, Announced, ring
  <1>7. ASSUME NEW vals \in Args, Serrx(vals) PROVE Announced'
    BY <1>7, LineTyped DEF Serrx, Announced, ring
  <1>8. CASE UNCHANGED vars
    BY <1>8 DEF vars, ring, Announced
  <1>9. CASE OpenPrompt
    BY <1>9 DEF OpenPrompt, Announced, ring
  <1>10. CASE OtherLine
    BY <1>10, LineTyped DEF OtherLine, Announced, ring
  <1> QED BY <1>1, <1>2, <1>3, <1>4, <1>5, <1>6, <1>7, <1>8, <1>9, <1>10 DEF Next

\* A guest that waits for READOK gets a byte somebody sent, whatever the host and
\* the operator do between its two reads, unless the host end is closed or a
\* prompt that shares stdin with the port has read it.
THEOREM ReadokKept == Spec => []NoPhantomByte
  <1>1. Init => Announced
    BY DEF Init, Announced, NoPhantomByte
  <1>2. Inv /\ Announced /\ [Next]_vars => Announced'
    BY NextAnnounced
  <1>3. Announced => NoPhantomByte
    BY DEF Announced
  <1> QED BY <1>1, <1>2, <1>3, InitInv, NextInv, PTL DEF Spec
=============================================================================
