---------------------------- MODULE Multicomp09 -----------------------------
(***************************************************************************)
(* The interrupting devices of the multicomp09 machine (src/src/miscsbc.c) *)
(* and the CPU behind them: the receiver of the console UART, which drives *)
(* IRQ source 1, and the timer, which drives source 0.                     *)
(*                                                                         *)
(* The receiver is polled: characters enter its FIFO when the guest reads  *)
(* a register of it and when the main loop (src/src/main.c) calls          *)
(* multicomp09_console_update; only the latter raises the line.  The tick  *)
(* routine is called between slices of instructions (option -I).           *)
(*                                                                         *)
(* Abstracted: the characters a batch file or the keyboard supplies are    *)
(* any.  This includes what rxpoll stores at the end of a batch file,      *)
(* where fread leaves its variable uninitialised.  The transmitter, the    *)
(* other UARTs and the GPIO only print.                                    *)
(***************************************************************************)
EXTENDS CpuInterrupts

CONSTANTS
  CharFIFO_SIZE,
  Chars,      \* characters that arrive
  NoChar,     \* none arrives
  BatchFile   \* the values of "a multicomp09.bat was found" to start with

TimerSource == 0
UartSource  == 1

ASSUME FifoAssumption    == CharFIFO_SIZE \in Nat \ {0}
ASSUME CharsAssumption   == Chars \subseteq 0..255 /\ NoChar \notin 0..255
ASSUME BatchAssumption   == BatchFile \subseteq BOOLEAN
ASSUME McSourcesAssumption == {TimerSource, UartSource} \subseteq Sources

VARIABLES
  uart,       \* uart0_rx_fifo, and bit 7 of uart0_wr_status
  mc_timer,   \* its two bits: "enable" (1) and "irq" (7)
  batch_file,
  char        \* history: the character the last data read returned

mc_vars == <<cpu, uart, mc_timer, batch_file, char>>

-----------------------------------------------------------------------------
(* The receiver. *)

Full(u) == u.wr = u.rd /\ ~u.empty

\* Mutant: the cursor is moved before the character is stored.
Push_late(u, ch) ==
  LET wr == (u.wr + 1) % CharFIFO_SIZE
  IN  [u EXCEPT !.empty = FALSE, !.data[wr] = ch, !.wr = wr]

Push(u, ch) == [u EXCEPT !.empty = FALSE, !.data[u.wr] = ch,
                         !.wr = (u.wr + 1) % CharFIFO_SIZE]

\* What a poll may find: a batch file is read whenever there is room, and the
\* keyboard has a character or none.
Arrivals(u) == IF batch_file THEN IF Full(u) THEN {NoChar} ELSE Chars
               ELSE Chars \cup {NoChar}

\* A character that finds the FIFO full is dropped.
multicomp_console_rxpoll(u, ch) == IF ch = NoChar \/ Full(u) THEN u ELSE Push(u, ch)

\* Key conversions: rubout to backspace, LF to CR.
KeyConversion(ch) == CASE ch = 127 -> 8 [] ch = 10 -> 13 [] OTHER -> ch

Popped(u) ==
  LET rd == (u.rd + 1) % CharFIFO_SIZE
  IN  [u EXCEPT !.rd = rd, !.empty = (rd = u.wr)]

\* An instruction that reads the status register.
ReadUartStatus(next) ==
  /\ AtInsn
  /\ \E ch \in Arrivals(uart) : uart' = multicomp_console_rxpoll(uart, ch)
  /\ Becomes(EndInsn(Fetched(next)))
  /\ UNCHANGED <<mc_timer, batch_file, char>>

\* Mutant: the line is not dropped with the last character.
ReadUartData_holds(next) ==
  /\ AtInsn
  /\ \E ch \in Arrivals(uart) :
       LET u == multicomp_console_rxpoll(uart, ch)
       IN  IF u.empty
           THEN uart' = u /\ char' = char
           ELSE uart' = Popped(u) /\ char' = KeyConversion(u.data[u.rd])
  /\ Becomes(EndInsn(Fetched(next)))
  /\ UNCHANGED <<mc_timer, batch_file>>

\* An instruction that reads the data register; an empty one reads 0xFF.
ReadUartData(next) ==
  /\ AtInsn
  /\ \E ch \in Arrivals(uart) :
       LET u == multicomp_console_rxpoll(uart, ch)
       IN  IF u.empty
           THEN uart' = u /\ char' = char /\ Becomes(EndInsn(Fetched(next)))
           ELSE /\ uart' = Popped(u)
                /\ char' = KeyConversion(u.data[u.rd])
                /\ Becomes(EndInsn(IF Popped(u).empty
                                   THEN release_irq(Fetched(next), UartSource)
                                   ELSE Fetched(next)))
  /\ UNCHANGED <<mc_timer, batch_file>>

\* A store to the status register: its bit 7 is kept.  It does not touch the line.
WriteUartStatus(next, irq_enable) ==
  /\ AtInsn
  /\ uart' = [uart EXCEPT !.irq_enable = irq_enable]
  /\ Becomes(EndInsn(Fetched(next)))
  /\ UNCHANGED <<mc_timer, batch_file, char>>

\* A store of 3, master reset: wr is cleared twice and rd is not.
ResetUart(next) ==
  /\ AtInsn
  /\ uart' = [uart EXCEPT !.wr = 0, !.empty = TRUE, !.irq_enable = FALSE]
  /\ Becomes(EndInsn(release_irq(Fetched(next), UartSource)))
  /\ UNCHANGED <<mc_timer, batch_file, char>>

\* Mutant: the line is raised for a new character only.
multicomp09_console_update_edge ==
  /\ \E ch \in Arrivals(uart) :
       LET u == multicomp_console_rxpoll(uart, ch)
       IN  /\ uart' = u
           /\ Becomes(IF u # uart /\ u.irq_enable THEN request_irq(cpu, UartSource) ELSE cpu)
  /\ UNCHANGED <<mc_timer, batch_file, char>>

\* The device's update routine, between two calls of cpu_execute.
multicomp09_console_update ==
  /\ \E ch \in Arrivals(uart) :
       LET u == multicomp_console_rxpoll(uart, ch)
       IN  /\ uart' = u
           /\ Becomes(IF ~u.empty /\ u.irq_enable THEN request_irq(cpu, UartSource) ELSE cpu)
  /\ UNCHANGED <<mc_timer, batch_file, char>>

-----------------------------------------------------------------------------
(* The timer. *)

multicomp09_tick ==
  /\ "enable" \in mc_timer
  /\ mc_timer' = mc_timer \cup {"irq"}
  /\ Becomes(request_irq(cpu, TimerSource))
  /\ UNCHANGED <<uart, batch_file, char>>

\* A store to TIMER: bit 1 is stored, bit 7 clears the interrupt if written 1.
WriteTimer(next, bits) ==
  /\ AtInsn
  /\ LET t == (mc_timer \ {"enable"}) \cup (bits \cap {"enable"})
     IN  IF "irq" \in bits
         THEN /\ mc_timer' = t \ {"irq"}
              /\ Becomes(EndInsn(release_irq(Fetched(next), TimerSource)))
         ELSE /\ mc_timer' = t
              /\ Becomes(EndInsn(Fetched(next)))
  /\ UNCHANGED <<uart, batch_file, char>>

-----------------------------------------------------------------------------
\* Instructions that leave the devices alone.
McOtherInsn ==
  /\ \/ \E next \in Code :
          PlainInsn(next) \/ \E flags \in SUBSET Flags : SetCCInsn(next, flags)
     \/ \E g \in OtherBytes : RtiInsn(g)
  /\ UNCHANGED <<uart, mc_timer, batch_file, char>>

\* The state multicomp09_init leaves; the FIFO's data is not initialised.
McInit ==
  /\ Init
  /\ \E data \in [0..CharFIFO_SIZE - 1 -> Chars] :
       uart = [data |-> data, wr |-> 0, rd |-> 0, empty |-> TRUE, irq_enable |-> FALSE]
  /\ mc_timer = {}
  /\ batch_file \in BatchFile
  /\ char = NoChar

McNext ==
  \/ McOtherInsn
  \/ \E next \in Code :
       \/ ReadUartStatus(next)
       \/ ReadUartData(next)
       \/ ResetUart(next)
       \/ \E irq_enable \in BOOLEAN : WriteUartStatus(next, irq_enable)
       \/ \E bits \in SUBSET {"enable", "irq"} : WriteTimer(next, bits)
  \/ multicomp09_console_update
  \/ multicomp09_tick

McSpec == McInit /\ [][McNext]_mc_vars

-----------------------------------------------------------------------------
(* Properties. *)

\* The lines follow the devices whatever the guest, the keyboard and the tick do
\* in between: the timer's line is bit 7 of its register, and the UART's line is
\* up only while a character waits, so no handler finds nothing to do.
LinesFollowDevices ==
  /\ TimerSource \in cpu.irqs <=> "irq" \in mc_timer
  /\ UartSource \in cpu.irqs => ~uart.empty

\* The characters between the two cursors, oldest first, as the guest would see
\* them: those that wait or, in an empty FIFO, what a reset left there.
Span == IF uart.wr > uart.rd THEN uart.wr - uart.rd
        ELSE IF uart.wr = uart.rd /\ uart.empty THEN 0
        ELSE uart.wr - uart.rd + CharFIFO_SIZE

Between ==
  [i \in 1..Span |-> KeyConversion(uart.data[(uart.rd + i - 1) % CharFIFO_SIZE])]

Received == IF uart.empty THEN << >> ELSE Between
Stale    == IF uart.empty THEN Between ELSE << >>

Fifo == INSTANCE CharFifo WITH
          Byte <- {KeyConversion(ch) : ch \in Chars}, Size <- CharFIFO_SIZE,
          NoByte <- NoChar, queue <- Received, got <- char, stale <- Stale

\* Two cursors and a flag are a FIFO: whoever polls, the guest gets the
\* characters in order, each once, and one is lost only when CharFIFO_SIZE are
\* held.  A master reset hides what waits, but the next character to arrive
\* brings back what lay between the cursors; after that it is a FIFO again.
UartImplementsFifo == Fifo!CharSpec

\* A character is not forgotten: if a read of the status took it in and the
\* guest then waits for the interrupt, the line comes up with no further key.
ArrivalInterrupts ==
  (~uart.empty /\ uart.irq_enable)
    ~> (UartSource \in cpu.irqs \/ uart.empty \/ ~uart.irq_enable)
=============================================================================
