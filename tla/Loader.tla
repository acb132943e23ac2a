------------------------------- MODULE Loader -------------------------------
(***************************************************************************)
(* The loaders of S-record and Intel hex images (load_image, load_s19 and  *)
(* load_hex of src/src/monitor.c), one step per record.                    *)
(*                                                                         *)
(* A file is a sequence of lines.  A line is the fields of its header and  *)
(* the bytes that follow, the checksum among them; a line without a header *)
(* has type -1.  Abstracted: digits, line endings and messages.            *)
(***************************************************************************)
EXTENDS Integers, FiniteSets, Sequences, SequencesExt

CONSTANTS
  ByteValues,   \* 2^8
  UintValues,   \* 2^32
  Cells,        \* 2^16, the addresses
  ImageFiles        \* the files: a format and lines

Formats ==
  [s19 |-> [data |-> 1, end |-> 9, overhead |-> 3],
   hex |-> [data |-> 0, end |-> 1, overhead |-> 0]]

\* A line, as its fields are read.  %2x and %4x bound them; the bounds that matter
\* are those of ImagesAssumption.
Line == [type : Int, count : Nat, addr : Nat, bytes : Seq(Nat)]

ASSUME LoaderAssumption == {ByteValues, UintValues, Cells} \subseteq Nat \ {0}

\* The count, a byte, announces no more bytes than there are cells, and no line
\* has nearly 2^32 bytes.
ASSUME ImagesAssumption ==
  \A f \in ImageFiles :
    /\ f \in [format : {"s19", "hex"}, lines : Seq(Line)]
    /\ \A i \in DOMAIN f.lines :
         /\ f.lines[i].count - Formats[f.format].overhead <= Cells
         /\ Len(f.lines[i].bytes) <= UintValues - 3

VARIABLES
  image,     \* the file
  line,      \* the number of the record that is read
  loading,   \* "image", "records", "done" or "refused" (load_image returns 1)
  data,      \* the last byte read, uninitialised at first
  target_memory

loader_vars == <<image, line, loading, data, target_memory>>

Format == Formats[image.format]

-----------------------------------------------------------------------------
(* A record. *)

\* The bytes a record announces, in unsigned arithmetic: S-records count the
\* address and the checksum too.
Announced(l) == (l.count - Format.overhead) % UintValues

Sum(bytes) == FoldLeft(LAMBDA a, b : a + b, 0, bytes)

\* What the last byte has to be, given the bytes before it.
Checksum(l, bytes) ==
  LET sum == l.count + (l.addr \div ByteValues) + (l.addr % ByteValues) + Sum(bytes)
  IN  IF image.format = "s19" THEN (-1 - sum) % ByteValues ELSE (-(sum + l.type)) % ByteValues

\* The bytes a data record stores.  Where the line ends early, fscanf fails at
\* the next record and the loop is left; at the end of the file it returns EOF,
\* which is not 0, and what was read last is stored for each byte that is missing.
Stored(l) ==
  LET n == Announced(l)
      have == Len(l.bytes)
      before == IF have = 0 THEN data ELSE Last(l.bytes)
  IN  IF n <= have THEN SubSeq(l.bytes, 1, n)
      ELSE IF line < Len(image.lines) THEN l.bytes
      ELSE l.bytes \o [i \in 1..(n - have) |-> before]

\* A byte is stored when it is read, before the checksum is known.
Written(addr, bytes) ==
  [a \in 0..(Cells - 1) |->
     LET here == {i \in DOMAIN bytes : (addr + i - 1) % Cells = a}
     IN  IF here = {} THEN target_memory[a] ELSE bytes[CHOOSE i \in here : \A j \in here : j <= i]]

\* Mutant: a wrong checksum is reported and the load goes on.
ChecksumFails_reported(l) == Len(l.bytes) <= Len(Stored(l))

ChecksumFails(l) ==
  LET bytes == Stored(l)
  IN  Len(l.bytes) <= Len(bytes) \/ l.bytes[Len(bytes) + 1] # Checksum(l, bytes)

-----------------------------------------------------------------------------
(* The loaders. *)

\* The first line decides on the format; a file without a header is refused.
load_image ==
  /\ loading = "image"
  /\ loading' = IF image.lines # << >> /\ image.lines[1].type # -1 THEN "records" ELSE "refused"
  /\ UNCHANGED <<image, line, data, target_memory>>

\* One turn of the loop of load_s19 or load_hex.  A byte too many on a line is
\* found when it is read as the next header.
LoadRecord ==
  /\ loading = "records"
  /\ line' = line + 1
  /\ UNCHANGED image
  /\ IF line > Len(image.lines) \/ image.lines[line].type # Format.data
     THEN /\ loading' = "done"
          /\ UNCHANGED <<data, target_memory>>
     ELSE LET l == image.lines[line]
              bytes == Stored(l)
          IN  /\ target_memory' = Written(l.addr, bytes)
              /\ data' = IF l.bytes = << >> THEN data
                         ELSE l.bytes[IF Len(bytes) < Len(l.bytes) THEN Len(bytes) + 1 ELSE Len(l.bytes)]
              /\ loading' = IF ChecksumFails(l) \/ Len(l.bytes) > Len(bytes) + 1 THEN "done" ELSE "records"

LoaderInit ==
  /\ image \in ImageFiles
  /\ line = 1
  /\ loading = "image"
  /\ data \in {0, ByteValues - 1}
  /\ target_memory = [a \in 0..(Cells - 1) |-> 0]

LoaderNext == load_image \/ LoadRecord

LoaderSpec == LoaderInit /\ [][LoaderNext]_loader_vars

-----------------------------------------------------------------------------
(* Properties. *)

Intact(l) ==
  /\ l.type = Format.data
  /\ l.count >= Format.overhead
  /\ Len(l.bytes) = Announced(l) + 1
  /\ Last(l.bytes) = Checksum(l, Front(l.bytes))

\* The records before the first that is not an intact data record.
IntactLines ==
  {i \in DOMAIN image.lines : \A j \in 1..i : Intact(image.lines[j])}

Covers(i, a) ==
  \E k \in 0..(Announced(image.lines[i]) - 1) : (image.lines[i].addr + k) % Cells = a

\* When the loader stops, every record before the first damaged one is in
\* memory, later ones over earlier ones; nothing after the damaged one is; and
\* the damaged one, whose bytes are stored before its checksum is looked at,
\* has touched no byte outside the range it announces.
DamageConfined ==
  loading = "done" =>
    \A a \in 0..(Cells - 1) :
      LET good == {i \in IntactLines : Covers(i, a)}
          last == CHOOSE i \in good : \A j \in good : j <= i
          bad  == Cardinality(IntactLines) + 1
          k    == CHOOSE n \in 0..(Announced(image.lines[last]) - 1) : (image.lines[last].addr + n) % Cells = a
      IN  \/ /\ bad \in DOMAIN image.lines
             /\ image.lines[bad].type = Format.data
             /\ Covers(bad, a)
          \/ target_memory[a] = IF good = {} THEN 0 ELSE image.lines[last].bytes[k + 1]
=============================================================================
