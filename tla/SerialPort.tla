----------------------------- MODULE SerialPort -----------------------------
(***************************************************************************)
(* The emulated serial port (src/src/serial.c) between its three users:    *)
(* the guest program, which polls the status register and then reads the   *)
(* data register; the host, whose bytes arrive on the descriptor fin; and  *)
(* the operator, who types "serrx <byte...>" at the debugger's prompt      *)
(* (cmd_serial_rx in src/src/command.c) while the guest is stopped.  When  *)
(* fin is stdin the prompt reads its command lines from the same           *)
(* descriptor and takes whatever waits there.                              *)
(*                                                                         *)
(* Abstracted: the terminal settings, tracing, and the transmit side apart *)
(* from its one control register.                                          *)
(***************************************************************************)
EXTENDS Integers, Sequences

CONSTANTS
  Byte,         \* the byte values in use
  NoByte,       \* no byte was taken from the queue yet
  Size,         \* sizeof (port->rx_buf)
  FinSelected,  \* whether fin and fout are below the 2 passed to select()
  MaxHost,      \* bound on the bytes in flight from the host (model bound)
  MaxArgs       \* bound on the arguments of one serrx (model bound)

ASSUME SizeAssumption == Size \in Nat \ {0}
ASSUME ByteAssumption == NoByte \notin Byte
ASSUME FinAssumption == FinSelected \in BOOLEAN
ASSUME BoundAssumption == MaxHost \in Nat /\ MaxArgs \in Nat

Slots == 0..(Size - 1)

VARIABLES
  rx_buf, rx_rd, rx_wr, rx_count,  \* the ring of struct serial_port
  status,    \* which of READOK and WRITEOK serial_update left set
  ctrl,      \* which control bits the guest wrote last
  host,      \* bytes readable from fin
  eof,       \* the host end of fin is closed
  prompt,    \* the guest is stopped in command_loop
  args,      \* arguments the serrx in progress has still to inject
  guest,     \* the polling loop: about to read the status, or the data
  got,       \* history: the byte serial_queue_pop returned last
  taken,     \* history: the prompt took bytes of fin since the last status
  phantom    \* history: the last data read after READOK produced no byte

ring == <<rx_buf, rx_rd, rx_wr, rx_count, got>>
history == <<taken, phantom>>
vars == <<ring, status, ctrl, host, eof, prompt, args, guest, history>>

-----------------------------------------------------------------------------
(* The ring. *)

\* Mutant: a full ring takes one more byte.
serial_queue_push_off_by_one(v) ==
  /\ rx_count <= Size
  /\ rx_buf' = [rx_buf EXCEPT ![rx_wr] = v]
  /\ rx_wr' = (rx_wr + 1) % Size
  /\ rx_count' = rx_count + 1
  /\ UNCHANGED <<rx_rd, got>>

serial_queue_push(v) ==
  /\ rx_count < Size
  /\ rx_buf' = [rx_buf EXCEPT ![rx_wr] = v]
  /\ rx_wr' = (rx_wr + 1) % Size
  /\ rx_count' = rx_count + 1
  /\ UNCHANGED <<rx_rd, got>>

serial_queue_pop ==
  /\ rx_count # 0
  /\ got' = rx_buf[rx_rd]
  /\ rx_rd' = (rx_rd + 1) % Size
  /\ rx_count' = rx_count - 1
  /\ UNCHANGED <<rx_buf, rx_wr>>

\* Mutant: the bits are set and never cleared.
serial_update_sticky ==
  status' = status \cup {f \in {"READOK", "WRITEOK"} :
                           IF f = "READOK"
                           THEN rx_count > 0 \/ (FinSelected /\ (host # << >> \/ eof))
                           ELSE FinSelected}

\* Mutant: only injected bytes raise READOK.
serial_update_queue_only ==
  status' = {f \in {"READOK", "WRITEOK"} :
               IF f = "READOK" THEN rx_count > 0 ELSE FinSelected}

\* select() is asked about descriptors 0 and 1 only and clears every other bit.
\* At end of file a descriptor counts as readable.
serial_update ==
  status' = {f \in {"READOK", "WRITEOK"} :
               IF f = "READOK"
               THEN rx_count > 0 \/ (FinSelected /\ (host # << >> \/ eof))
               ELSE FinSelected}

-----------------------------------------------------------------------------
(* The guest.  It runs only while the prompt is closed. *)

\* serial_read of SER_CTL_STATUS.
ReadStatus ==
  /\ ~prompt
  /\ guest = "poll"
  /\ serial_update
  /\ guest' = IF "READOK" \in status' THEN "data" ELSE "poll"
  /\ taken' = FALSE /\ phantom' = FALSE
  /\ UNCHANGED <<ring, ctrl, host, eof, prompt, args>>

\* serial_read of SER_DATA: the queue first, then fin if it is readable, else
\* the constant 0xFF.  At end of file read() stores nothing and the value of
\* the uninitialised variable is returned.
ReadData ==
  /\ ~prompt
  /\ guest = "data"
  /\ serial_update
  /\ guest' = "poll"
  /\ \/ /\ serial_queue_pop
        /\ UNCHANGED <<host, phantom>>
     \/ /\ rx_count = 0 /\ "READOK" \in status' /\ host # << >>
        /\ host' = Tail(host)
        /\ UNCHANGED <<ring, phantom>>
     \/ /\ rx_count = 0 /\ ("READOK" \in status' => host = << >>)
        /\ phantom' = TRUE
        /\ UNCHANGED <<ring, host>>
  /\ UNCHANGED <<ctrl, eof, prompt, args, taken>>

\* serial_write to SER_CTL_STATUS only stores the value.
WriteCtrl(bits) ==
  /\ ~prompt
  /\ ctrl' = bits
  /\ UNCHANGED <<ring, status, host, eof, prompt, args, guest, history>>

-----------------------------------------------------------------------------
(* The host and the operator. *)

HostSend(v) ==
  /\ ~eof /\ Len(host) < MaxHost
  /\ host' = Append(host, v)
  /\ UNCHANGED <<ring, status, ctrl, eof, prompt, args, guest, history>>

HostClose ==
  /\ ~eof
  /\ eof' = TRUE
  /\ UNCHANGED <<ring, status, ctrl, host, prompt, args, guest, history>>

\* The prompt opens between two instructions of the guest.
OpenPrompt ==
  /\ ~prompt
  /\ prompt' = TRUE
  /\ UNCHANGED <<ring, status, ctrl, host, eof, args, guest, history>>

\* command_exec reads a line from stdin.  When that is fin too, what waits there
\* comes before anything the operator types now: the line takes the bytes up to
\* a newline, and the stdio buffer behind fgets any number of those after it.
TakeLine ==
  \E k \in 0..Len(host) :
    /\ k > 0 <=> FinSelected /\ host # << >>
    /\ host' = SubSeq(host, k + 1, Len(host))
    /\ taken' = (taken \/ k > 0)

\* A line with a serrx and its arguments.
Serrx(vals) ==
  /\ prompt /\ args = << >>
  /\ TakeLine
  /\ args' = vals
  /\ UNCHANGED <<ring, status, ctrl, eof, prompt, guest, phantom>>

\* Any other line, or the end of the input: the loop goes on, or the guest does.
OtherLine ==
  /\ prompt /\ args = << >>
  /\ TakeLine
  /\ prompt' \in BOOLEAN
  /\ UNCHANGED <<ring, status, ctrl, eof, args, guest, phantom>>

\* One round of the loop in cmd_serial_rx: inject the next argument, or give
\* up on the rest when the queue is full.
SerrxArg ==
  /\ args # << >>
  /\ \/ /\ serial_queue_push(Head(args))
        /\ args' = Tail(args)
     \/ /\ rx_count >= Size
        /\ args' = << >>
        /\ UNCHANGED ring
  /\ UNCHANGED <<status, ctrl, host, eof, prompt, guest, history>>

\* The state serial_create and serial_reset leave; rx_buf is not initialised.
Init ==
  /\ rx_buf \in [Slots -> Byte]
  /\ rx_rd = 0 /\ rx_wr = 0 /\ rx_count = 0
  /\ status = {} /\ ctrl = {}
  /\ host = << >> /\ eof = FALSE
  /\ prompt = FALSE /\ args = << >> /\ guest = "poll"
  /\ got = NoByte /\ taken = FALSE /\ phantom = FALSE

Args == UNION {[1..n -> Byte] : n \in 1..MaxArgs}

Next ==
  \/ ReadStatus \/ ReadData
  \/ \E bits \in SUBSET {"ASYNC", "RESET"} : WriteCtrl(bits)
  \/ \E v \in Byte : HostSend(v)
  \/ HostClose
  \/ OpenPrompt \/ OtherLine
  \/ \E vals \in Args : Serrx(vals)
  \/ SerrxArg

Spec == Init /\ [][Next]_vars

\* The guest's polling loop goes on, and a debugger command ends.
FairSpec == Spec /\ WF_vars(ReadStatus) /\ WF_vars(ReadData) /\ WF_vars(SerrxArg)

-----------------------------------------------------------------------------
(* Properties. *)

\* The registers and the ring keep their types.
TypeOK ==
  /\ rx_buf \in [Slots -> Byte]
  /\ rx_rd \in Slots /\ rx_wr \in Slots /\ rx_count \in 0..Size
  /\ status \subseteq {"READOK", "WRITEOK"} /\ ctrl \subseteq {"ASYNC", "RESET"}
  /\ host \in Seq(Byte) /\ eof \in BOOLEAN
  /\ prompt \in BOOLEAN /\ args \in Seq(Byte) /\ guest \in {"poll", "data"}
  /\ got \in Byte \cup {NoByte} /\ taken \in BOOLEAN /\ phantom \in BOOLEAN

\* The two cursors and the count agree, also after any number of wraps.
RingConsistent == rx_wr = (rx_rd + rx_count) % Size

\* The bytes between the cursors, oldest first.
Queue == [i \in 1..rx_count |-> rx_buf[(rx_rd + (i - 1)) % Size]]

Fifo == INSTANCE SerialFifo WITH queue <- Queue, got <- got

\* The ring implements the bounded FIFO: bytes given to serrx reach the guest
\* in order, each once, whatever the guest, the host and the operator do.
ImplementsFifo == Fifo!Spec

\* A guest that reads the data register only after READOK gets a byte somebody
\* sent, not the 0xFF that stands for "nothing there": what READOK announced is
\* still there when the data is read, across any number of prompts and serrx,
\* with two exceptions that serial_read has.  The host end may have been closed,
\* and a prompt opened in between may have read the byte as part of a command
\* line, which takes stdin behind the port.
NoPhantomByte == phantom => eof \/ (FinSelected /\ taken)

\* The README's host bridge: once the operator leaves the prompt closed, a guest
\* that keeps polling reads byte after byte of what the host has sent, in order,
\* until nothing is left.
HostBytesArrive ==
  <>[]~prompt => \/ []<>(host = << >>)
                 \/ []<><<host # << >> /\ host' = Tail(host)>>_vars
=============================================================================
