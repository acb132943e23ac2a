------------------------------ MODULE Hostmon -------------------------------
(***************************************************************************)
(* The host monitor (src/src/hostmon.c): a shell that keeps connections to *)
(* serial adapters of the host and exchanges bytes with the boards behind  *)
(* them.  A shell may be started from a shell.  A board answers when it    *)
(* likes: in time, late, in pieces or not at all.                          *)
(*                                                                         *)
(* Abstracted: bytes to their number, and times to the fact that select    *)
(* gives up when nothing has arrived.  Opening a device fails for many     *)
(* reasons, an unsupported rate among them, all of them before a           *)
(* descriptor is kept.  A call interrupted by a signal is made again.      *)
(* Commands that only print are not steps.                                 *)
(***************************************************************************)
EXTENDS Integers, Sequences, FiniteSets, FiniteSetsExt

CONSTANTS
  Profiles,   \* names of profiles, "VOLATCO-A", "VOLATCO-B" and aliases among others
  Port,       \* the device a profile is resolved to
  DefaultProfile, \* g_default_profile
  Fds,        \* the descriptors a process may have (small numbers)
  ReadLens,   \* the lengths of an answer the user asks for
  MaxShells,  \* model bound: shells started from shells
  MaxRx       \* model bound: bytes waiting on a line

Devices == {Port[p] : p \in Profiles}

ASSUME HostmonAssumption ==
  /\ DefaultProfile \in Profiles
  /\ Fds \subseteq Nat /\ ReadLens \subseteq Int
  /\ MaxShells \in Nat /\ MaxRx \in Nat

VARIABLES
  shells,    \* the locals of cmd_shell, innermost last
  files,     \* the open descriptors and their devices
  waiting,   \* for each device, the bytes received and not read
  exchange,  \* the command that is talking to a board, or Idle
  left       \* history: descriptors of inner shells that were left open

hostmon_vars == <<shells, files, waiting, exchange, left>>

None == -1
Idle == [phase |-> "idle"]

Shell == shells[Len(shells)]
WithShell(s) == [shells EXCEPT ![Len(shells)] = s]

\* The slot a profile's connection is kept in: all but B share fd_a.
SlotOf(p) == IF p \in {"VOLATCO-B", "B"} THEN "fd_b" ELSE "fd_a"

SlotsOf(s) == {s.fd_a, s.fd_b} \ {None}

-----------------------------------------------------------------------------
(* Descriptors. *)

\* Closing a device's last descriptor discards what waits on its line.
Closed(fs, fds) == [f \in DOMAIN fs \ fds |-> fs[f]]
WaitingOn(fs, w) == [d \in Devices |-> IF \E f \in DOMAIN fs : fs[f] = d THEN w[d] ELSE 0]

\* The descriptor open() returns: the smallest one.
Free(fs) == Fds \ DOMAIN fs
NewFd(fs) == Min(Free(fs))
Opened(fs, dev) == [f \in DOMAIN fs \cup {NewFd(fs)} |-> IF f \in DOMAIN fs THEN fs[f] ELSE dev]

\* The program takes these descriptors from now on.
Files(fs) == files' = fs /\ waiting' = WaitingOn(fs, waiting)

-----------------------------------------------------------------------------
(* The lines a shell understands itself. *)

AtPrompt == exchange = Idle /\ shells # << >>

cmd_shell ==
  /\ exchange = Idle
  /\ Len(shells) < MaxShells
  /\ shells' = Append(shells, [profile |-> DefaultProfile, af_mode |-> FALSE, af_loaded |-> FALSE,
                               fd_a |-> None, fd_b |-> None])
  /\ UNCHANGED <<files, waiting, exchange, left>>

\* The innermost shell returns, with fds closed.  The end of the process closes
\* all of them.
Returns(fds, kept) ==
  /\ AtPrompt
  /\ shells' = SubSeq(shells, 1, Len(shells) - 1)
  /\ IF Len(shells) = 1
     THEN Files([f \in {} |-> None]) /\ left' = {}
     ELSE Files(Closed(files, fds)) /\ left' = left \cup kept
  /\ UNCHANGED exchange

\* EXIT and QUIT return at once; the end of input goes past the two closes.
Exit      == Returns({}, SlotsOf(Shell))
EndOfFile == Returns(SlotsOf(Shell), {})

\* AFORTH enters the mode, and once more loads it.
Aforth ==
  /\ AtPrompt
  /\ shells' = WithShell([Shell EXCEPT !.af_loaded = @ \/ Shell.af_mode, !.af_mode = TRUE])
  /\ UNCHANGED <<files, waiting, exchange, left>>

Monitor ==
  /\ AtPrompt
  /\ shells' = WithShell([Shell EXCEPT !.af_mode = FALSE])
  /\ UNCHANGED <<files, waiting, exchange, left>>

Profile(p) ==
  /\ AtPrompt
  /\ shells' = WithShell([Shell EXCEPT !.profile = p])
  /\ UNCHANGED <<files, waiting, exchange, left>>

Connect ==
  LET slot == SlotOf(Shell.profile)
      old  == Closed(files, {Shell[slot]})
  IN  /\ AtPrompt
      /\ \/ /\ Free(old) # {}
            /\ Files(Opened(old, Port[Shell.profile]))
            /\ shells' = WithShell([Shell EXCEPT ![slot] = NewFd(old)])
         \/ /\ Files(old)
            /\ shells' = WithShell([Shell EXCEPT ![slot] = None])
      /\ UNCHANGED <<exchange, left>>

Disconnect(slots) ==
  /\ AtPrompt
  /\ Files(Closed(files, {Shell[slot] : slot \in slots}))
  /\ shells' = WithShell([Shell EXCEPT !.fd_a = IF "fd_a" \in slots THEN None ELSE @,
                                       !.fd_b = IF "fd_b" \in slots THEN None ELSE @])
  /\ UNCHANGED <<exchange, left>>

-----------------------------------------------------------------------------
(* Exchanges. *)

\* Bytes are sent on tx and expected on rx; "own" are the descriptors the
\* command opened, "since" (history) counts what arrived on rx from the flush to
\* the report, whichever command the board meant it for.
Begin(fs, own, tx, rx, readlen) ==
  /\ Files(fs)
  /\ exchange' = [phase |-> "flush", own |-> own, tx |-> tx, rx |-> rx,
                  readlen |-> readlen, total |-> 0, since |-> 0]
  /\ UNCHANGED <<shells, left>>

\* cmd_transceive_like: transceive, loopback and plug, from a shell or from the
\* command line.  A failing open ends the command and is no step.
Transceive(dev, readlen) ==
  /\ exchange = Idle
  /\ Free(files) # {}
  /\ LET fd == NewFd(files)
     IN  Begin(Opened(files, dev), {fd}, fd, fd, readlen)

\* link-test opens two devices, and closes the first if the second fails.
cmd_link_test(txdev, rxdev, txlen) ==
  LET fs == Opened(files, txdev)
  IN  /\ exchange = Idle
      /\ Cardinality(Free(files)) >= 2
      /\ Begin(Opened(fs, rxdev), {NewFd(files), NewFd(fs)}, NewFd(files), NewFd(fs), txlen)

\* Mutant: always the first slot.
CurrentFd_a(s) == s.fd_a

CurrentFd(s) == s[SlotOf(s.profile)]

\* HOST LOAD and SERIAL LOAD, in AFORTH mode and when it is loaded.
Load(readlen) ==
  LET fd == CurrentFd(Shell)
  IN  /\ AtPrompt
      /\ Shell.af_mode /\ Shell.af_loaded
      /\ IF fd # None
         THEN Begin(files, {}, fd, fd, readlen)
         ELSE Transceive(Port[Shell.profile], readlen)

\* Mutant: the line is flushed after the bytes have been sent.
Sent_flushes ==
  /\ exchange' = [exchange EXCEPT !.phase = "read"]
  /\ waiting' = [waiting EXCEPT ![files[exchange.rx]] = 0]
  /\ UNCHANGED files

Sent == exchange' = [exchange EXCEPT !.phase = "read"] /\ UNCHANGED <<files, waiting>>

\* tcflush of both lines.
FlushLine ==
  /\ exchange.phase = "flush"
  /\ waiting' = [waiting EXCEPT ![files[exchange.tx]] = 0, ![files[exchange.rx]] = 0]
  /\ exchange' = [exchange EXCEPT !.phase = "write"]
  /\ UNCHANGED <<shells, files, left>>

\* The bytes are out, and the pause after it is over.
write_all ==
  /\ exchange.phase = "write"
  /\ Sent
  /\ UNCHANGED <<shells, left>>

\* What is reported is known.
Ends == exchange' = [exchange EXCEPT !.phase = "report"] /\ UNCHANGED <<files, waiting>>

\* Mutant: a timeout is treated like a signal.
TimedOut_retries == UNCHANGED <<exchange, files, waiting>>

TimedOut == Ends

\* One turn of the loop of read_some_wait: a read takes what waits, at most
\* what is missing.
read_some_wait ==
  LET missing == exchange.readlen - exchange.total
      there   == waiting[files[exchange.rx]]
      got     == Min({there, missing})
  IN  /\ exchange.phase = "read"
      /\ \/ missing <= 0 /\ Ends
         \/ missing > 0 /\ there = 0 /\ TimedOut
         \/ /\ missing > 0 /\ there > 0
            /\ exchange' = [exchange EXCEPT !.total = @ + got]
            /\ waiting' = [waiting EXCEPT ![files[exchange.rx]] = @ - got]
            /\ UNCHANGED files
      /\ UNCHANGED <<shells, left>>

\* The line is hung up: what waits on it is gone, and read() returns 0, which
\* ends the loop like a timeout.
HangUp ==
  /\ exchange.phase = "read"
  /\ exchange' = [exchange EXCEPT !.phase = "report", !.since = exchange.total]
  /\ waiting' = [waiting EXCEPT ![files[exchange.rx]] = 0]
  /\ UNCHANGED <<shells, files, left>>

\* The error is reported, and no byte of what was read.
IoFails ==
  /\ exchange' = [exchange EXCEPT !.phase = "failed", !.total = 0, !.since = 0]
  /\ UNCHANGED <<files, waiting>>

\* A write or a read fails: the bytes read before are dropped.
Fail ==
  /\ exchange.phase \in {"write", "read"}
  /\ IoFails
  /\ UNCHANGED <<shells, left>>

\* Mutant: the command's descriptors stay open.
Finish_open == exchange' = Idle /\ UNCHANGED <<files, waiting>>

Finish == exchange' = Idle /\ Files(Closed(files, exchange.own))

\* The report or the error is printed, and the command's descriptors closed.
Report ==
  /\ exchange.phase \in {"report", "failed"}
  /\ Finish
  /\ UNCHANGED <<shells, left>>

\* The board sends a byte, asked or not, if the device is open.
Arrive(dev) ==
  /\ \E f \in DOMAIN files : files[f] = dev
  /\ waiting[dev] < MaxRx
  /\ waiting' = [waiting EXCEPT ![dev] = @ + 1]
  /\ exchange' = IF exchange.phase \in {"write", "read"} /\ files[exchange.rx] = dev
                 THEN [exchange EXCEPT !.since = @ + 1] ELSE exchange
  /\ UNCHANGED <<shells, files, left>>

-----------------------------------------------------------------------------
HostmonInit ==
  /\ shells = << >>
  /\ files = [f \in {} |-> None]
  /\ waiting = [d \in Devices |-> 0]
  /\ exchange = Idle
  /\ left = {}

ExchangeStep == FlushLine \/ write_all \/ read_some_wait \/ Report

HostmonNext ==
  \/ cmd_shell \/ Exit \/ EndOfFile \/ Aforth \/ Monitor \/ Connect
  \/ \E p \in Profiles : Profile(p)
  \/ AtPrompt /\ \E slots \in {{SlotOf(Shell.profile)}, {"fd_a", "fd_b"}} : Disconnect(slots)
  \/ \E readlen \in ReadLens : Load(readlen) \/ \E dev \in Devices : Transceive(dev, readlen)
  \/ \E readlen \in ReadLens, d, e \in Devices : cmd_link_test(d, e, readlen)
  \/ ExchangeStep
  \/ HangUp
  \/ Fail
  \/ \E dev \in Devices : Arrive(dev)

\* The calls of the C library return, select by itself after wait_ms; nothing
\* has to fail.
HostmonFairness == WF_hostmon_vars(ExchangeStep)

HostmonSpec == HostmonInit /\ [][HostmonNext]_hostmon_vars /\ HostmonFairness

-----------------------------------------------------------------------------
(* Properties. *)

\* Whatever was connected, disconnected, renamed and left before, a slot that is
\* not empty is an open descriptor, of a device of one of its own profiles: what
\* LOAD sends for B goes to B's board and nothing else does.
SlotsAreConnections ==
  /\ \A i \in 1..Len(shells) : \A slot \in {"fd_a", "fd_b"} :
       shells[i][slot] # None =>
         /\ shells[i][slot] \in DOMAIN files
         /\ files[shells[i][slot]] \in {Port[p] : p \in {q \in Profiles : SlotOf(q) = slot}}
  /\ exchange # Idle /\ exchange.own = {} =>
       files[exchange.tx] \in {Port[p] : p \in {q \in Profiles : SlotOf(q) = SlotOf(Shell.profile)}}

\* Every open descriptor belongs to one slot of one shell or to the command that
\* is running, on all ways out of an exchange; only EXIT of an inner shell
\* leaves some behind.
NoDescriptorLeak ==
  /\ DOMAIN files = (UNION {SlotsOf(shells[i]) : i \in 1..Len(shells)}) \cup left
                    \cup (IF exchange = Idle THEN {} ELSE exchange.own)
  /\ \A i, j \in 1..Len(shells) : i # j => SlotsOf(shells[i]) \cap SlotsOf(shells[j]) = {}

\* What a command reports is what its line received between its flush and its
\* report, without a gap: nothing that waited before the flush, and no byte
\* missing unless as many as were asked for are there; a read error does not pass
\* off a part of the answer for the whole.  A byte of a late answer to an earlier
\* command that arrives after the flush counts like the others.
ExchangeExact ==
  exchange # Idle =>
    /\ exchange.phase \in {"write", "read"} =>
         exchange.total + waiting[files[exchange.rx]] = exchange.since
    /\ exchange.phase = "report" =>
         /\ exchange.total <= exchange.since
         /\ exchange.total < exchange.since => exchange.total >= exchange.readlen

\* A command comes back to the prompt, whatever the board does.
ExchangeReturns == exchange # Idle ~> exchange = Idle
=============================================================================
