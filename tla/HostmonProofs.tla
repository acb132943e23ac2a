--------------------------- MODULE HostmonProofs ----------------------------
(***************************************************************************)
(* Proofs about Hostmon for any profiles and devices, any depth of shells, *)
(* any set of descriptors and any number of bytes on a line.               *)
(***************************************************************************)
EXTENDS Hostmon, SequenceTheorems, FiniteSetTheorems, WellFoundedInduction, TLAPS

\* The smallest of a set of numbers is one of them.
LEMMA MinIs ==
  ASSUME NEW S \in SUBSET Nat, S # {}
  PROVE  Min(S) \in S /\ \A y \in S : Min(S) <= y
<1>1. IsWellFoundedOn({ss \in Nat \X Nat : ss[1] < ss[2]}, Nat)
  BY NatLessThanWellFounded, Zenon DEF OpToRel
<1>2. PICK x \in S : \A y \in S : ~(<<y, x>> \in {ss \in Nat \X Nat : ss[1] < ss[2]})
  BY <1>1, WFMin
<1>3. ASSUME NEW y \in S PROVE x <= y
  <2>1. x \in Nat /\ y \in Nat
    OBVIOUS
  <2>2. <<y, x>> \in Nat \X Nat /\ <<y, x>>[1] = y /\ <<y, x>>[2] = x
    BY <2>1
  <2>3. ~(y < x)
    BY <1>2, <2>2
  <2> QED
    BY <2>1, <2>3
<1> QED
  BY <1>3 DEF Min

-----------------------------------------------------------------------------
(* Who owns which descriptor. *)

SlotNames == {"fd_a", "fd_b"}

ShellType == [profile : Profiles, af_mode : BOOLEAN, af_loaded : BOOLEAN,
              fd_a : Fds \cup {None}, fd_b : Fds \cup {None}]

\* The devices of the profiles that share a slot.
DevicesOf(slot) == {Port[p] : p \in {q \in Profiles : SlotOf(q) = slot}}

\* A slot that is not empty is an open descriptor of the slot's own devices,
\* and the two slots of a shell are two descriptors.
Connected(s, fs) ==
  /\ s \in ShellType
  /\ \A slot \in SlotNames :
       s[slot] # None => s[slot] \in DOMAIN fs /\ fs[s[slot]] \in DevicesOf(slot)
  /\ s.fd_a = s.fd_b => s.fd_a = None

\* The inductive part of NoDescriptorLeak and SlotsAreConnections: every open
\* descriptor has exactly one owner, a shell, an EXIT long ago or the command
\* that is running.
Owned(ss, fs, lf, own) ==
  /\ ss \in Seq(ShellType)
  /\ DOMAIN fs \subseteq Fds
  /\ \A f \in DOMAIN fs : fs[f] \in Devices
  /\ \A i \in 1..Len(ss) : Connected(ss[i], fs)
  /\ \A f : f \in DOMAIN fs <=> ((\E i \in 1..Len(ss) : f \in SlotsOf(ss[i])) \/ f \in lf \/ f \in own)
  /\ \A i, j \in 1..Len(ss) : i # j => SlotsOf(ss[i]) \cap SlotsOf(ss[j]) = {}
  /\ \A i \in 1..Len(ss) : SlotsOf(ss[i]) \cap (lf \cup own) = {}
  /\ lf \cap own = {}

LEMMA NoneIsNoFd == None \notin Fds
BY HostmonAssumption DEF None

\* What a shell's slots are.
LEMMA SlotsAre ==
  ASSUME NEW s, NEW f
  PROVE  f \in SlotsOf(s) <=> f # None /\ (f = s.fd_a \/ f = s.fd_b)
BY DEF SlotsOf

\* A shell stays connected while its descriptors stay as they are.
LEMMA StillConnected ==
  ASSUME NEW s, NEW fs, NEW gs, Connected(s, fs),
         \A f \in SlotsOf(s) : f \in DOMAIN gs /\ gs[f] = fs[f]
  PROVE  Connected(s, gs)
<1>1. ASSUME NEW slot \in SlotNames, s[slot] # None
      PROVE  s[slot] \in DOMAIN gs /\ gs[s[slot]] \in DevicesOf(slot)
  <2>1. s[slot] \in SlotsOf(s)
    BY <1>1 DEF SlotsOf, SlotNames
  <2>2. s[slot] \in DOMAIN fs /\ fs[s[slot]] \in DevicesOf(slot)
    BY <1>1 DEF Connected
  <2> QED
    BY <2>1, <2>2
<1> QED
  BY <1>1 DEF Connected

LEMMA EmptyOwned == Owned(<< >>, [f \in {} |-> None], {}, {})
<1>1. << >> \in Seq(ShellType) /\ Len(<< >>) = 0
  OBVIOUS
<1>2. DOMAIN [f \in {} |-> None] = {}
  OBVIOUS
<1> QED
  BY <1>1, <1>2 DEF Owned

\* The innermost shell is replaced by s: its descriptors become those of s.
LEMMA ReplaceOwned ==
  ASSUME NEW ss, NEW fs, NEW lf, NEW own, Owned(ss, fs, lf, own), ss # << >>,
         NEW s, NEW gs, Connected(s, gs),
         DOMAIN gs \subseteq Fds, \A f \in DOMAIN gs : gs[f] \in Devices,
         \A f : f \in DOMAIN gs <=> ((f \in DOMAIN fs /\ f \notin SlotsOf(ss[Len(ss)])) \/ f \in SlotsOf(s)),
         \A f \in SlotsOf(s) : f \in DOMAIN fs => f \in SlotsOf(ss[Len(ss)]),
         \A f \in DOMAIN fs : f \notin SlotsOf(ss[Len(ss)]) => gs[f] = fs[f]
  PROVE  Owned([ss EXCEPT ![Len(ss)] = s], gs, lf, own)
<1> DEFINE n == Len(ss)
           tt == [ss EXCEPT ![n] = s]
<1>1. ss \in Seq(ShellType) /\ n \in Nat /\ n > 0 /\ n \in 1..n
  BY DEF Owned
<1>2. /\ tt \in Seq(ShellType) /\ Len(tt) = n /\ tt[n] = s
      /\ \A i \in 1..n : i # n => tt[i] = ss[i]
  BY <1>1 DEF Connected
<1> HIDE DEF n, tt
<1>0. n = Len(ss)
  BY DEF n
<1>3. \A i, j \in 1..n : i # j => SlotsOf(ss[i]) \cap SlotsOf(ss[j]) = {}
  BY <1>0 DEF Owned
<1>4. \A i \in 1..n : SlotsOf(ss[i]) \cap (lf \cup own) = {}
  BY <1>0 DEF Owned
<1>5. \A f : f \in DOMAIN fs <=> ((\E i \in 1..n : f \in SlotsOf(ss[i])) \/ f \in lf \/ f \in own)
  BY <1>0 DEF Owned
<1>6. \A f : f \in DOMAIN gs <=> ((f \in DOMAIN fs /\ f \notin SlotsOf(ss[n])) \/ f \in SlotsOf(s))
  BY <1>0
<1>7. ASSUME NEW i \in 1..n, i # n, NEW f \in SlotsOf(ss[i])
      PROVE  f \in DOMAIN fs /\ f \notin SlotsOf(ss[n]) /\ f \notin SlotsOf(s) /\ gs[f] = fs[f] /\ f \in DOMAIN gs
  <2>1. f \in DOMAIN fs
    BY <1>5
  <2>2. f \notin SlotsOf(ss[n])
    BY <1>1, <1>3, <1>7
  <2> QED
    BY <1>0, <1>6, <2>1, <2>2
<1>8. ASSUME NEW i \in 1..n PROVE Connected(tt[i], gs)
  <2>1. CASE i = n
    BY <1>2, <2>1
  <2>2. CASE i # n
    <3>1. Connected(ss[i], fs)
      BY <1>0 DEF Owned
    <3>2. Connected(ss[i], gs)
      BY <1>7, <2>2, <3>1, StillConnected
    <3> QED
      BY <1>2, <2>2, <3>2
  <2> QED
    BY <2>1, <2>2
<1>9. ASSUME NEW f
      PROVE  f \in DOMAIN gs <=> ((\E i \in 1..n : f \in SlotsOf(tt[i])) \/ f \in lf \/ f \in own)
  <2>1. ASSUME f \in DOMAIN gs
        PROVE  (\E i \in 1..n : f \in SlotsOf(tt[i])) \/ f \in lf \/ f \in own
    BY <1>1, <1>2, <1>5, <1>6, <2>1
  <2>2. ASSUME NEW i \in 1..n, f \in SlotsOf(tt[i]) PROVE f \in DOMAIN gs
    BY <1>2, <1>6, <1>7, <2>2
  <2>3. ASSUME f \in lf \/ f \in own PROVE f \in DOMAIN gs
    BY <1>1, <1>4, <1>5, <1>6, <2>3
  <2> QED
    BY <2>1, <2>2, <2>3
<1>10. \A i, j \in 1..n : i # j => SlotsOf(tt[i]) \cap SlotsOf(tt[j]) = {}
  <2>1. ASSUME NEW i \in 1..n, NEW j \in 1..n, i # j, NEW f \in SlotsOf(tt[i]), f \in SlotsOf(tt[j])
        PROVE  FALSE
    <3>1. CASE i # n /\ j # n
      BY <1>2, <1>3, <2>1, <3>1
    <3>2. CASE i = n
      BY <1>2, <1>7, <2>1, <3>2
    <3>3. CASE j = n
      BY <1>2, <1>7, <2>1, <3>3
    <3> QED
      BY <3>1, <3>2, <3>3
  <2> QED
    BY <2>1
<1>11. \A i \in 1..n : SlotsOf(tt[i]) \cap (lf \cup own) = {}
  <2>1. ASSUME NEW f \in SlotsOf(s), f \in lf \cup own PROVE FALSE
    <3>1. f \in DOMAIN fs
      BY <1>5, <2>1
    <3>2. f \in SlotsOf(ss[n])
      BY <1>0, <2>1, <3>1
    <3> QED
      BY <1>1, <1>4, <2>1, <3>2
  <2>2. ASSUME NEW i \in 1..n PROVE SlotsOf(tt[i]) \cap (lf \cup own) = {}
    BY <1>2, <1>4, <2>1
  <2> QED
    BY <2>2
<1>12. lf \cap own = {}
  BY DEF Owned
<1>13. Owned(tt, gs, lf, own)
  BY <1>2, <1>8, <1>9, <1>10, <1>11, <1>12 DEF Owned
<1> QED
  BY <1>13 DEF tt, n

\* A new shell has no connection.
LEMMA PushOwned ==
  ASSUME NEW ss, NEW fs, NEW lf, NEW own, Owned(ss, fs, lf, own), NEW s \in ShellType,
         s.fd_a = None, s.fd_b = None
  PROVE  Owned(Append(ss, s), fs, lf, own)
<1> DEFINE n == Len(ss)
           tt == Append(ss, s)
<1>1. ss \in Seq(ShellType) /\ n \in Nat
  BY DEF Owned
<1>2. /\ tt \in Seq(ShellType) /\ Len(tt) = n + 1 /\ tt[n + 1] = s
      /\ \A i \in 1..n : tt[i] = ss[i]
  BY <1>1, AppendProperties
<1>3. SlotsOf(s) = {}
  BY DEF SlotsOf
<1>4. Connected(s, fs)
  BY DEF Connected, SlotNames
<1> HIDE DEF tt, n
<1>0. n = Len(ss)
  BY DEF n
<1>5. /\ \A i \in 1..(n + 1) : i \in 1..n \/ i = n + 1
      /\ \A i \in 1..n : i \in 1..(n + 1)
  BY <1>1
<1>6. \A i \in 1..(n + 1) : Connected(tt[i], fs)
  BY <1>0, <1>2, <1>4, <1>5 DEF Owned
<1>7. ASSUME NEW f
      PROVE  f \in DOMAIN fs <=> ((\E i \in 1..(n + 1) : f \in SlotsOf(tt[i])) \/ f \in lf \/ f \in own)
  <2>1. f \in DOMAIN fs <=> ((\E i \in 1..n : f \in SlotsOf(ss[i])) \/ f \in lf \/ f \in own)
    BY <1>0 DEF Owned
  <2>2. (\E i \in 1..n : f \in SlotsOf(ss[i])) <=> \E i \in 1..(n + 1) : f \in SlotsOf(tt[i])
    BY <1>2, <1>3, <1>5
  <2> QED
    BY <2>1, <2>2
<1>8. \A i, j \in 1..(n + 1) : i # j => SlotsOf(tt[i]) \cap SlotsOf(tt[j]) = {}
  <2>1. \A i, j \in 1..n : i # j => SlotsOf(ss[i]) \cap SlotsOf(ss[j]) = {}
    BY <1>0 DEF Owned
  <2> QED
    BY <1>2, <1>3, <1>5, <2>1
<1>9. \A i \in 1..(n + 1) : SlotsOf(tt[i]) \cap (lf \cup own) = {}
  <2>1. \A i \in 1..n : SlotsOf(ss[i]) \cap (lf \cup own) = {}
    BY <1>0 DEF Owned
  <2> QED
    BY <1>2, <1>3, <1>5, <2>1
<1>10. Owned(tt, fs, lf, own)
  BY <1>2, <1>6, <1>7, <1>8, <1>9 DEF Owned
<1> QED
  BY <1>10 DEF tt

\* The innermost shell goes; those of its descriptors that are not closed are
\* left to nobody.
LEMMA PopOwned ==
  ASSUME NEW ss, NEW fs, NEW lf, Owned(ss, fs, lf, {}), ss # << >>, NEW fds, NEW kept,
         fds \cup kept = SlotsOf(ss[Len(ss)]), fds \cap kept = {}
  PROVE  Owned(SubSeq(ss, 1, Len(ss) - 1), Closed(fs, fds), lf \cup kept, {})
<1> DEFINE n == Len(ss)
           tt == SubSeq(ss, 1, n - 1)
           gs == Closed(fs, fds)
           kf == lf \cup kept
<1>1. ss \in Seq(ShellType) /\ n \in Nat /\ n > 0 /\ n \in 1..n
  BY DEF Owned
<1>2. tt \in Seq(ShellType) /\ Len(tt) = n - 1 /\ \A i \in 1..(n - 1) : tt[i] = ss[i]
  <2> DEFINE m == n - 1
  <2>1. 1 \in Int /\ m \in Int /\ m >= 0 /\ \A i \in 1..m : ss[i] \in ShellType
    BY <1>1
  <2> HIDE DEF m
  <2>2. /\ SubSeq(ss, 1, m) \in Seq(ShellType)
        /\ Len(SubSeq(ss, 1, m)) = IF 1 <= m THEN m - 1 + 1 ELSE 0
        /\ \A i \in 1..(m - 1 + 1) : SubSeq(ss, 1, m)[i] = ss[1 + i - 1]
    BY <2>1, SubSeqProperties
  <2>3. m - 1 + 1 = m /\ \A i \in 1..m : 1 + i - 1 = i
    BY <2>1
  <2>4. /\ Len(SubSeq(ss, 1, m)) = m
        /\ \A i \in 1..m : SubSeq(ss, 1, m)[i] = ss[i]
    BY <2>1, <2>2, <2>3
  <2> QED
    BY <2>2, <2>4 DEF m
<1>3. DOMAIN gs = DOMAIN fs \ fds /\ \A f \in DOMAIN fs \ fds : gs[f] = fs[f]
  BY DEF Closed
<1> HIDE DEF tt, n, gs, kf
<1>0. n = Len(ss)
  BY DEF n
<1>4. \A i \in 1..n : i = n \/ i \in 1..(n - 1)
  BY <1>1
<1>5. \A i \in 1..(n - 1) : i \in 1..n /\ i # n
  BY <1>1
<1>6. /\ \A f : f \in DOMAIN fs <=> ((\E i \in 1..n : f \in SlotsOf(ss[i])) \/ f \in lf)
      /\ \A i, j \in 1..n : i # j => SlotsOf(ss[i]) \cap SlotsOf(ss[j]) = {}
      /\ \A i \in 1..n : SlotsOf(ss[i]) \cap lf = {}
  BY <1>0 DEF Owned
<1>7. fds \cup kept = SlotsOf(ss[n])
  BY <1>0
<1>8. ASSUME NEW i \in 1..(n - 1), NEW f \in SlotsOf(ss[i])
      PROVE  f \in DOMAIN fs /\ f \notin fds /\ f \notin kept
  BY <1>1, <1>5, <1>6, <1>7
<1>9. ASSUME NEW i \in 1..(n - 1) PROVE Connected(tt[i], gs)
  <2>1. Connected(ss[i], fs)
    BY <1>0, <1>5 DEF Owned
  <2>2. Connected(ss[i], gs)
    BY <1>3, <1>8, <2>1, StillConnected
  <2> QED
    BY <1>2, <2>2
<1>10. ASSUME NEW f
       PROVE  f \in DOMAIN gs <=> ((\E i \in 1..(n - 1) : f \in SlotsOf(tt[i])) \/ f \in kf)
  <2>1. ASSUME f \in DOMAIN gs PROVE (\E i \in 1..(n - 1) : f \in SlotsOf(tt[i])) \/ f \in kf
    BY <1>2, <1>3, <1>4, <1>6, <1>7, <2>1 DEF kf
  <2>2. ASSUME NEW i \in 1..(n - 1), f \in SlotsOf(tt[i]) PROVE f \in DOMAIN gs
    BY <1>2, <1>3, <1>8, <2>2
  <2>3. ASSUME f \in kf PROVE f \in DOMAIN gs
    BY <1>1, <1>3, <1>6, <1>7, <2>3 DEF kf
  <2> QED
    BY <2>1, <2>2, <2>3
<1>11. \A i, j \in 1..(n - 1) : i # j => SlotsOf(tt[i]) \cap SlotsOf(tt[j]) = {}
  BY <1>2, <1>5, <1>6
<1>12. \A i \in 1..(n - 1) : SlotsOf(tt[i]) \cap (kf \cup {}) = {}
  BY <1>2, <1>5, <1>6, <1>8 DEF kf
<1>13. DOMAIN gs \subseteq Fds /\ \A f \in DOMAIN gs : gs[f] \in Devices
  BY <1>3 DEF Owned
<1>14. Owned(tt, gs, kf, {})
  BY <1>2, <1>9, <1>10, <1>11, <1>12, <1>13 DEF Owned
<1> QED
  BY <1>14 DEF tt, gs, kf, n

\* open(): a descriptor nobody has.
LEMMA NewFdIs ==
  ASSUME NEW fs, Free(fs) # {}
  PROVE  NewFd(fs) \in Fds /\ NewFd(fs) \notin DOMAIN fs
<1>1. Free(fs) \in SUBSET Nat
  BY HostmonAssumption DEF Free
<1>2. NewFd(fs) \in Free(fs)
  BY <1>1, MinIs DEF NewFd
<1> QED
  BY <1>2 DEF Free

LEMMA OpenedIs ==
  ASSUME NEW fs, NEW dev
  PROVE  /\ DOMAIN Opened(fs, dev) = DOMAIN fs \cup {NewFd(fs)}
         /\ \A f \in DOMAIN fs : Opened(fs, dev)[f] = fs[f]
         /\ NewFd(fs) \notin DOMAIN fs => Opened(fs, dev)[NewFd(fs)] = dev
BY DEF Opened

\* A command opens a descriptor for itself.
LEMMA OpenOwned ==
  ASSUME NEW ss, NEW fs, NEW lf, NEW own, Owned(ss, fs, lf, own), Free(fs) # {},
         NEW dev \in Devices
  PROVE  Owned(ss, Opened(fs, dev), lf, own \cup {NewFd(fs)})
<1> DEFINE fd == NewFd(fs)
           gs == Opened(fs, dev)
           n  == Len(ss)
<1>1. fd \in Fds /\ fd \notin DOMAIN fs
  BY NewFdIs
<1>2. DOMAIN gs = DOMAIN fs \cup {fd} /\ (\A f \in DOMAIN fs : gs[f] = fs[f]) /\ gs[fd] = dev
  BY <1>1, OpenedIs
<1> HIDE DEF fd, gs, n
<1>0. n = Len(ss)
  BY DEF n
<1>3. /\ \A f : f \in DOMAIN fs <=> ((\E i \in 1..n : f \in SlotsOf(ss[i])) \/ f \in lf \/ f \in own)
      /\ \A i, j \in 1..n : i # j => SlotsOf(ss[i]) \cap SlotsOf(ss[j]) = {}
      /\ \A i \in 1..n : SlotsOf(ss[i]) \cap (lf \cup own) = {}
      /\ ss \in Seq(ShellType) /\ lf \cap own = {}
      /\ DOMAIN fs \subseteq Fds /\ \A f \in DOMAIN fs : fs[f] \in Devices
  BY <1>0 DEF Owned
<1>4. ASSUME NEW i \in 1..n PROVE Connected(ss[i], gs)
  <2>1. Connected(ss[i], fs)
    BY <1>0 DEF Owned
  <2> QED
    BY <1>2, <1>3, <2>1, StillConnected
<1>5. \A f : f \in DOMAIN gs <=>
        ((\E i \in 1..n : f \in SlotsOf(ss[i])) \/ f \in lf \/ f \in own \cup {fd})
  BY <1>2, <1>3
<1>6. \A i \in 1..n : SlotsOf(ss[i]) \cap (lf \cup (own \cup {fd})) = {}
  BY <1>1, <1>3
<1>7. lf \cap (own \cup {fd}) = {}
  BY <1>1, <1>3
<1>8. DOMAIN gs \subseteq Fds /\ \A f \in DOMAIN gs : gs[f] \in Devices
  BY <1>1, <1>2, <1>3
<1>9. Owned(ss, gs, lf, own \cup {fd})
  BY <1>0, <1>3, <1>4, <1>5, <1>6, <1>7, <1>8 DEF Owned
<1> QED
  BY <1>9 DEF gs, fd

\* A command closes what it opened.
LEMMA CloseOwned ==
  ASSUME NEW ss, NEW fs, NEW lf, NEW own, Owned(ss, fs, lf, own)
  PROVE  Owned(ss, Closed(fs, own), lf, {})
<1> DEFINE gs == Closed(fs, own)
           n  == Len(ss)
<1>1. DOMAIN gs = DOMAIN fs \ own /\ \A f \in DOMAIN fs \ own : gs[f] = fs[f]
  BY DEF Closed
<1> HIDE DEF gs, n
<1>0. n = Len(ss)
  BY DEF n
<1>2. /\ \A f : f \in DOMAIN fs <=> ((\E i \in 1..n : f \in SlotsOf(ss[i])) \/ f \in lf \/ f \in own)
      /\ \A i, j \in 1..n : i # j => SlotsOf(ss[i]) \cap SlotsOf(ss[j]) = {}
      /\ \A i \in 1..n : SlotsOf(ss[i]) \cap (lf \cup own) = {}
      /\ ss \in Seq(ShellType) /\ lf \cap own = {}
      /\ DOMAIN fs \subseteq Fds /\ \A f \in DOMAIN fs : fs[f] \in Devices
  BY <1>0 DEF Owned
<1>3. ASSUME NEW i \in 1..n, NEW f \in SlotsOf(ss[i])
      PROVE  f \in DOMAIN fs \ own
  BY <1>2
<1>4. ASSUME NEW i \in 1..n PROVE Connected(ss[i], gs)
  <2>1. Connected(ss[i], fs)
    BY <1>0 DEF Owned
  <2> QED
    BY <1>1, <1>3, <2>1, StillConnected
<1>5. \A f : f \in DOMAIN gs <=>
        ((\E i \in 1..n : f \in SlotsOf(ss[i])) \/ f \in lf \/ f \in {})
  BY <1>1, <1>2, <1>3
<1>6. \A i \in 1..n : SlotsOf(ss[i]) \cap (lf \cup {}) = {}
  BY <1>2
<1>7. DOMAIN gs \subseteq Fds /\ \A f \in DOMAIN gs : gs[f] \in Devices
  BY <1>1, <1>2
<1>8. Owned(ss, gs, lf, {})
  BY <1>0, <1>2, <1>4, <1>5, <1>6, <1>7 DEF Owned
<1> QED
  BY <1>8 DEF gs

-----------------------------------------------------------------------------
(* The inductive invariant. *)

ExchangeType ==
  [phase : {"flush", "write", "read", "report", "failed"}, own : SUBSET Fds, tx : Fds, rx : Fds,
   readlen : Int, total : Nat, since : Nat]

\* A command that is running has its two lines open; on a connection of the
\* shell it is the one of the shell's profile, which cannot change meanwhile;
\* once the lines are flushed it has counted every byte that arrived, and what it
\* reports has no gap.
Talking(e, ss, fs, w) ==
  /\ e \in ExchangeType
  /\ e.tx \in DOMAIN fs /\ e.rx \in DOMAIN fs
  /\ e.own = {} => ss # << >> /\ e.tx = CurrentFd(ss[Len(ss)])
  /\ e.phase = "flush" => e.total = 0 /\ e.since = 0
  /\ e.phase \in {"write", "read"} => e.total + w[fs[e.rx]] = e.since
  /\ e.phase = "report" =>
       /\ e.total <= e.since
       /\ e.total < e.since => e.total >= e.readlen

OwnOf(e) == IF e = Idle THEN {} ELSE e.own

Inv ==
  /\ Owned(shells, files, left, OwnOf(exchange))
  /\ waiting \in [Devices -> Nat]
  /\ exchange = Idle \/ Talking(exchange, shells, files, waiting)

LEMMA NotIdle ==
  ASSUME NEW e \in ExchangeType
  PROVE  e # Idle
BY DEF ExchangeType, Idle

LEMMA WaitingTyped ==
  ASSUME NEW fs, NEW w \in [Devices -> Nat]
  PROVE  WaitingOn(fs, w) \in [Devices -> Nat]
BY DEF WaitingOn

\* At the prompt it is enough that the descriptors have their owners.
LEMMA PromptInv ==
  ASSUME Inv, exchange = Idle, exchange' = exchange,
         waiting' = waiting \/ \E fs : waiting' = WaitingOn(fs, waiting),
         Owned(shells', files', left', {})
  PROVE  Inv'
<1>1. waiting' \in [Devices -> Nat]
  BY WaitingTyped DEF Inv
<1>2. Owned(shells', files', left', OwnOf(exchange'))
  BY DEF OwnOf
<1>3. exchange' = Idle
  OBVIOUS
<1> QED
  BY <1>1, <1>2, <1>3 DEF Inv

\* Another shell record with the same descriptors.
LEMMA SameSlots ==
  ASSUME Inv, AtPrompt, NEW s \in ShellType, s.fd_a = Shell.fd_a, s.fd_b = Shell.fd_b
  PROVE  Owned(WithShell(s), files, left, {})
<1>1. Owned(shells, files, left, {}) /\ shells # << >>
  BY DEF Inv, AtPrompt, OwnOf
<1>2. Len(shells) \in 1..Len(shells) /\ Shell = shells[Len(shells)]
  BY <1>1 DEF Owned, Shell
<1>3. SlotsOf(s) = SlotsOf(Shell)
  BY DEF SlotsOf
<1>4. Connected(Shell, files)
  BY <1>1, <1>2 DEF Owned
<1>5. Connected(s, files)
  BY <1>4 DEF Connected, SlotNames
<1>6. /\ DOMAIN files \subseteq Fds /\ \A f \in DOMAIN files : files[f] \in Devices
      /\ \A f \in SlotsOf(Shell) : f \in DOMAIN files
  BY <1>1, <1>2 DEF Owned
<1>7. Owned([shells EXCEPT ![Len(shells)] = s], files, left, {})
  <2>1. \A f : f \in DOMAIN files <=>
          ((f \in DOMAIN files /\ f \notin SlotsOf(shells[Len(shells)])) \/ f \in SlotsOf(s))
    BY <1>2, <1>3, <1>6
  <2>2. \A f \in SlotsOf(s) : f \in DOMAIN files => f \in SlotsOf(shells[Len(shells)])
    BY <1>2, <1>3
  <2> QED
    BY <1>1, <1>5, <1>6, <2>1, <2>2, ReplaceOwned
<1> QED
  BY <1>7 DEF WithShell

LEMMA ShellTyped ==
  ASSUME Inv, AtPrompt
  PROVE  /\ Shell \in ShellType /\ Connected(Shell, files) /\ Owned(shells, files, left, {})
         /\ shells # << >> /\ Shell = shells[Len(shells)] /\ Len(shells) \in Nat
         /\ Len(shells) \in 1..Len(shells)
<1>1. Owned(shells, files, left, {}) /\ shells # << >>
  BY DEF Inv, AtPrompt, OwnOf
<1>2. Len(shells) \in 1..Len(shells) /\ Len(shells) \in Nat /\ Shell = shells[Len(shells)]
  BY <1>1 DEF Owned, Shell
<1>3. Connected(Shell, files)
  BY <1>1, <1>2 DEF Owned
<1> QED
  BY <1>1, <1>2, <1>3 DEF Connected

\* Lines that change the mode or the profile.
LEMMA ModeKeeps ==
  ASSUME Inv, Aforth \/ Monitor \/ \E p \in Profiles : Profile(p)
  PROVE  Inv'
<1>1. AtPrompt
  BY DEF Aforth, Monitor, Profile
<1>2. Shell \in ShellType
  BY <1>1, ShellTyped
<1>3. \E s \in ShellType : s.fd_a = Shell.fd_a /\ s.fd_b = Shell.fd_b /\ shells' = WithShell(s)
  <2>1. CASE Aforth
    <3> DEFINE s == [Shell EXCEPT !.af_loaded = @ \/ Shell.af_mode, !.af_mode = TRUE]
    <3>1. s \in ShellType /\ s.fd_a = Shell.fd_a /\ s.fd_b = Shell.fd_b
      BY <1>2 DEF ShellType
    <3> QED
      BY <2>1, <3>1 DEF Aforth
  <2>2. CASE Monitor
    <3> DEFINE s == [Shell EXCEPT !.af_mode = FALSE]
    <3>1. s \in ShellType /\ s.fd_a = Shell.fd_a /\ s.fd_b = Shell.fd_b
      BY <1>2 DEF ShellType
    <3> QED
      BY <2>2, <3>1 DEF Monitor
  <2>3. ASSUME NEW p \in Profiles, Profile(p)
        PROVE  \E s \in ShellType : s.fd_a = Shell.fd_a /\ s.fd_b = Shell.fd_b /\ shells' = WithShell(s)
    <3> DEFINE s == [Shell EXCEPT !.profile = p]
    <3>1. s \in ShellType /\ s.fd_a = Shell.fd_a /\ s.fd_b = Shell.fd_b
      BY <1>2 DEF ShellType
    <3> QED
      BY <2>3, <3>1 DEF Profile
  <2> QED
    BY <2>1, <2>2, <2>3
<1>4. Owned(shells', files, left, {})
  BY <1>1, <1>3, SameSlots
<1>5. UNCHANGED <<files, waiting, exchange, left>>
  BY DEF Aforth, Monitor, Profile
<1> QED
  BY <1>1, <1>4, <1>5, PromptInv DEF AtPrompt

LEMMA CmdShellKeeps ==
  ASSUME Inv, cmd_shell
  PROVE  Inv'
<1> DEFINE s == [profile |-> DefaultProfile, af_mode |-> FALSE, af_loaded |-> FALSE,
                 fd_a |-> None, fd_b |-> None]
<1>1. s \in ShellType /\ s.fd_a = None /\ s.fd_b = None
  BY HostmonAssumption DEF ShellType
<1>2. /\ exchange = Idle /\ shells' = Append(shells, s) /\ UNCHANGED <<files, waiting, exchange, left>>
  BY DEF cmd_shell
<1> HIDE DEF s
<1>3. Owned(shells, files, left, {})
  BY <1>2 DEF Inv, OwnOf
<1>4. Owned(shells', files', left', {})
  BY <1>1, <1>2, <1>3, PushOwned
<1> QED
  BY <1>2, <1>4, PromptInv

LEMMA ReturnsKeeps ==
  ASSUME Inv, Exit \/ EndOfFile
  PROVE  Inv'
<1>1. PICK fds, kept : /\ fds \cup kept = SlotsOf(Shell) /\ fds \cap kept = {}
                       /\ Returns(fds, kept)
  BY DEF Exit, EndOfFile
<1>2. AtPrompt /\ exchange = Idle /\ exchange' = exchange
  BY <1>1 DEF Returns, AtPrompt
<1>3. Owned(shells, files, left, {}) /\ shells # << >> /\ Shell = shells[Len(shells)] /\ Len(shells) \in Nat
  BY <1>2, ShellTyped
<1>4. CASE Len(shells) = 1
  <2>1. shells' = SubSeq(shells, 1, Len(shells) - 1)
    BY <1>1 DEF Returns
  <2>2. shells' = << >>
    BY <1>4, <2>1, SubSeqEmpty
  <2>3. files' = [f \in {} |-> None] /\ left' = {} /\ waiting' = WaitingOn(files', waiting)
    BY <1>1, <1>4 DEF Returns, Files
  <2>4. Owned(shells', files', left', {})
    BY <2>2, <2>3, EmptyOwned
  <2> QED
    BY <1>2, <2>3, <2>4, PromptInv
<1>5. CASE Len(shells) # 1
  <2>1. /\ shells' = SubSeq(shells, 1, Len(shells) - 1) /\ files' = Closed(files, fds)
        /\ left' = left \cup kept /\ waiting' = WaitingOn(files', waiting)
    BY <1>1, <1>5 DEF Returns, Files
  <2>2. Owned(shells', files', left', {})
    BY <1>1, <1>3, <2>1, PopOwned
  <2> QED
    BY <1>2, <2>1, <2>2, PromptInv
<1> QED
  BY <1>4, <1>5

\* One slot of the innermost shell is closed, and perhaps opened again.
LEMMA SlotChanged ==
  ASSUME Inv, AtPrompt, NEW slot \in SlotNames, NEW fd \in Fds \cup {None}, NEW gs,
         fd # None => /\ fd \notin DOMAIN files \ {Shell[slot]}
                      /\ gs[fd] \in DevicesOf(slot),
         DOMAIN gs = (DOMAIN files \ {Shell[slot]}) \cup ({fd} \ {None}),
         \A f \in DOMAIN files \ {Shell[slot]} : gs[f] = files[f]
  PROVE  Owned(WithShell([Shell EXCEPT ![slot] = fd]), gs, left, {})
<1> DEFINE other == IF slot = "fd_a" THEN "fd_b" ELSE "fd_a"
           s == [Shell EXCEPT ![slot] = fd]
<1>1. /\ Shell \in ShellType /\ Connected(Shell, files) /\ Owned(shells, files, left, {})
      /\ shells # << >> /\ Shell = shells[Len(shells)]
  BY ShellTyped
<1>2. /\ other \in SlotNames /\ other # slot
      /\ \A x \in SlotNames : x = slot \/ x = other
      /\ \A f : f \in SlotsOf(Shell) <=> f # None /\ (f = Shell[slot] \/ f = Shell[other])
  BY DEF SlotNames, SlotsOf
<1>3. s \in ShellType /\ s[slot] = fd /\ s[other] = Shell[other]
  BY <1>1 DEF ShellType, SlotNames
<1>4. \A f : f \in SlotsOf(s) <=> f # None /\ (f = s[slot] \/ f = s[other])
  <2> HIDE DEF s
  <2> QED
    BY DEF SlotNames, SlotsOf
<1>5. /\ Shell[slot] = Shell[other] => Shell[slot] = None
      /\ \A x \in SlotNames : Shell[x] # None => Shell[x] \in DOMAIN files /\ files[Shell[x]] \in DevicesOf(x)
  BY <1>1 DEF Connected, SlotNames
<1>6. s.fd_a = s.fd_b <=> s[slot] = s[other]
  <2> HIDE DEF s
  <2> QED
    BY DEF SlotNames
<1> HIDE DEF s, other
<1>7. Shell[other] # None => Shell[other] \in DOMAIN files \ {Shell[slot]}
  BY <1>2, <1>5
<1>8. fd = Shell[other] => fd = None
  BY <1>7
<1>9. Connected(s, gs)
  <2>1. ASSUME NEW x \in SlotNames, s[x] # None
        PROVE  s[x] \in DOMAIN gs /\ gs[s[x]] \in DevicesOf(x)
    <3>1. CASE x = slot
      BY <1>3, <2>1, <3>1
    <3>2. CASE x = other
      BY <1>3, <1>5, <1>7, <2>1, <3>2
    <3> QED
      BY <1>2, <3>1, <3>2
  <2>2. s.fd_a = s.fd_b => s.fd_a = None
    BY <1>3, <1>6, <1>8, <1>2 DEF SlotNames
  <2> QED
    BY <1>3, <2>1, <2>2 DEF Connected
<1>10. DOMAIN gs \subseteq Fds /\ \A f \in DOMAIN gs : gs[f] \in Devices
  <2>1. DOMAIN files \subseteq Fds /\ \A f \in DOMAIN files : files[f] \in Devices
    BY <1>1 DEF Owned
  <2>2. DevicesOf(slot) \subseteq Devices
    BY DEF DevicesOf, Devices
  <2> QED
    BY <2>1, <2>2
<1>11. \A f : f \in DOMAIN gs <=>
         ((f \in DOMAIN files /\ f \notin SlotsOf(Shell)) \/ f \in SlotsOf(s))
  <2>1. DOMAIN files \subseteq Fds
    BY <1>1 DEF Owned
  <2>2. None \notin DOMAIN files
    BY <2>1, NoneIsNoFd
  <2> QED
    BY <1>2, <1>3, <1>4, <1>5, <1>7, <2>2
<1>12. \A f \in SlotsOf(s) : f \in DOMAIN files => f \in SlotsOf(Shell)
  BY <1>2, <1>3, <1>4
<1>13. \A f \in DOMAIN files : f \notin SlotsOf(Shell) => gs[f] = files[f]
  <2>1. None \notin DOMAIN files
    BY <1>1, NoneIsNoFd DEF Owned
  <2> QED
    BY <1>2, <2>1
<1>14. Owned([shells EXCEPT ![Len(shells)] = s], gs, left, {})
  BY <1>1, <1>9, <1>10, <1>11, <1>12, <1>13, ReplaceOwned
<1> QED
  BY <1>14 DEF WithShell, s

LEMMA SlotOfProfile ==
  ASSUME NEW p \in Profiles
  PROVE  SlotOf(p) \in SlotNames /\ Port[p] \in DevicesOf(SlotOf(p))
BY DEF SlotOf, SlotNames, DevicesOf

LEMMA ConnectKeeps ==
  ASSUME Inv, Connect
  PROVE  Inv'
<1> DEFINE slot == SlotOf(Shell.profile)
           old  == Closed(files, {Shell[slot]})
           fd   == NewFd(old)
<1>1. AtPrompt /\ exchange = Idle /\ UNCHANGED <<exchange, left>>
  BY DEF Connect, AtPrompt
<1>2. Shell.profile \in Profiles
  BY <1>1, ShellTyped DEF ShellType
<1>3. slot \in SlotNames /\ Port[Shell.profile] \in DevicesOf(slot)
  BY <1>2, SlotOfProfile
<1>4. DOMAIN old = DOMAIN files \ {Shell[slot]} /\ \A f \in DOMAIN old : old[f] = files[f]
  BY DEF Closed
<1>5. CASE /\ Free(old) # {} /\ Files(Opened(old, Port[Shell.profile]))
           /\ shells' = WithShell([Shell EXCEPT ![slot] = fd])
  <2> HIDE DEF slot, old
  <2>1. fd \in Fds /\ fd \notin DOMAIN old
    BY <1>5, NewFdIs
  <2> DEFINE gs == Opened(old, Port[Shell.profile])
  <2>2. DOMAIN gs = DOMAIN old \cup {fd} /\ (\A f \in DOMAIN old : gs[f] = old[f])
        /\ gs[fd] = Port[Shell.profile]
    BY <2>1, OpenedIs
  <2>3. files' = gs /\ waiting' = WaitingOn(gs, waiting)
    BY <1>5 DEF Files
  <2> HIDE DEF fd, gs
  <2>4. fd # None
    BY <2>1, NoneIsNoFd
  <2>5. Owned(WithShell([Shell EXCEPT ![slot] = fd]), gs, left, {})
    <3>1. DOMAIN gs = (DOMAIN files \ {Shell[slot]}) \cup ({fd} \ {None})
      BY <1>4, <2>2, <2>4
    <3>2. fd \notin DOMAIN files \ {Shell[slot]} /\ gs[fd] \in DevicesOf(slot)
      BY <1>3, <1>4, <2>1, <2>2
    <3>3. \A f \in DOMAIN files \ {Shell[slot]} : gs[f] = files[f]
      BY <1>4, <2>2
    <3> QED
      BY <1>1, <1>3, <2>1, <3>1, <3>2, <3>3, SlotChanged
  <2> QED
    BY <1>1, <1>5, <2>3, <2>5, PromptInv
<1>6. CASE Files(old) /\ shells' = WithShell([Shell EXCEPT ![slot] = None])
  <2> HIDE DEF slot, old
  <2>1. files' = old /\ waiting' = WaitingOn(old, waiting)
    BY <1>6 DEF Files
  <2>2. Owned(WithShell([Shell EXCEPT ![slot] = None]), old, left, {})
    <3>1. DOMAIN old = (DOMAIN files \ {Shell[slot]}) \cup ({None} \ {None})
      BY <1>4
    <3> QED
      BY <1>1, <1>3, <1>4, <3>1, SlotChanged
  <2> QED
    BY <1>1, <1>6, <2>1, <2>2, PromptInv
<1> QED
  BY <1>5, <1>6 DEF Connect

LEMMA DisconnectKeeps ==
  ASSUME Inv, NEW slots \in {{SlotOf(Shell.profile)}, {"fd_a", "fd_b"}}, Disconnect(slots)
  PROVE  Inv'
<1>1. AtPrompt /\ exchange = Idle /\ UNCHANGED <<exchange, left>>
  BY DEF Disconnect, AtPrompt
<1>2. /\ Shell \in ShellType /\ Connected(Shell, files) /\ Owned(shells, files, left, {})
      /\ shells # << >> /\ Shell = shells[Len(shells)]
  BY <1>1, ShellTyped
<1> DEFINE gs == Closed(files, {Shell[slot] : slot \in slots})
           s  == [Shell EXCEPT !.fd_a = IF "fd_a" \in slots THEN None ELSE @,
                               !.fd_b = IF "fd_b" \in slots THEN None ELSE @]
<1>3. files' = gs /\ waiting' = WaitingOn(gs, waiting) /\ shells' = WithShell(s)
  BY DEF Disconnect, Files
<1>4. /\ DOMAIN gs = DOMAIN files \ {Shell[slot] : slot \in slots}
      /\ \A f \in DOMAIN gs : gs[f] = files[f]
  BY DEF Closed
<1>5. CASE slots = {SlotOf(Shell.profile)}
  <2> DEFINE slot == SlotOf(Shell.profile)
  <2>1. slot \in SlotNames
    BY <1>2, SlotOfProfile DEF ShellType
  <2>2. s = [Shell EXCEPT ![slot] = None]
    <3>1. CASE slot = "fd_a"
      BY <1>2, <1>5, <3>1 DEF ShellType
    <3>2. CASE slot = "fd_b"
      BY <1>2, <1>5, <3>2 DEF ShellType
    <3> QED
      BY <2>1, <3>1, <3>2 DEF SlotNames
  <2> HIDE DEF s, gs, slot
  <2>3. DOMAIN gs = (DOMAIN files \ {Shell[slot]}) \cup ({None} \ {None})
    BY <1>4, <1>5 DEF slot
  <2>4. Owned(WithShell([Shell EXCEPT ![slot] = None]), gs, left, {})
    BY <1>1, <1>4, <2>1, <2>3, SlotChanged
  <2> QED
    BY <1>1, <1>3, <2>2, <2>4, PromptInv
<1>6. CASE slots = {"fd_a", "fd_b"}
  <2>1. s \in ShellType /\ s.fd_a = None /\ s.fd_b = None
    BY <1>2, <1>6 DEF ShellType
  <2> HIDE DEF s, gs
  <2>2. SlotsOf(s) = {}
    BY <2>1 DEF SlotsOf
  <2>3. Connected(s, gs)
    BY <2>1 DEF Connected, SlotNames
  <2>4. DOMAIN files \subseteq Fds /\ \A f \in DOMAIN files : files[f] \in Devices
    BY <1>2 DEF Owned
  <2>5. DOMAIN gs = DOMAIN files \ {Shell.fd_a, Shell.fd_b}
    BY <1>4, <1>6
  <2>6. None \notin DOMAIN files
    BY <2>4, NoneIsNoFd
  <2>7. \A f : f \in DOMAIN gs <=>
          ((f \in DOMAIN files /\ f \notin SlotsOf(Shell)) \/ f \in SlotsOf(s))
    BY <2>2, <2>5, <2>6 DEF SlotsOf
  <2>8. DOMAIN gs \subseteq Fds /\ \A f \in DOMAIN gs : gs[f] \in Devices
    BY <1>4, <2>4, <2>5
  <2>9. \A f \in DOMAIN files : f \notin SlotsOf(Shell) => gs[f] = files[f]
    BY <1>4, <2>7
  <2>10. Owned([shells EXCEPT ![Len(shells)] = s], gs, left, {})
    BY <1>2, <2>2, <2>3, <2>7, <2>8, <2>9, ReplaceOwned
  <2> QED
    BY <1>1, <1>3, <2>10, PromptInv DEF WithShell
<1> QED
  BY <1>5, <1>6

-----------------------------------------------------------------------------
(* Exchanges. *)

\* A command that has its descriptors begins.
LEMMA BeginKeeps ==
  ASSUME Inv, exchange = Idle, NEW fs, NEW own \in SUBSET Fds, NEW tx \in DOMAIN fs,
         NEW rx \in DOMAIN fs, NEW readlen \in ReadLens, Owned(shells, fs, left, own),
         own = {} => shells # << >> /\ tx = CurrentFd(Shell),
         Begin(fs, own, tx, rx, readlen)
  PROVE  Inv'
<1> DEFINE e == [phase |-> "flush", own |-> own, tx |-> tx, rx |-> rx,
                 readlen |-> readlen, total |-> 0, since |-> 0]
<1>1. /\ files' = fs /\ waiting' = WaitingOn(fs, waiting) /\ exchange' = e
      /\ UNCHANGED <<shells, left>>
  BY DEF Begin, Files
<1>2. tx \in Fds /\ rx \in Fds /\ readlen \in Int
  BY HostmonAssumption DEF Owned
<1>3. e \in ExchangeType /\ e.own = own /\ e.tx = tx /\ e.rx = rx /\ e.phase = "flush"
      /\ e.total = 0 /\ e.since = 0
  BY <1>2 DEF ExchangeType
<1> HIDE DEF e
<1>4. Talking(e, shells, fs, waiting')
  BY <1>3 DEF Talking, Shell
<1>5. OwnOf(e) = own
  BY <1>3, NotIdle DEF OwnOf
<1>6. waiting' \in [Devices -> Nat]
  BY <1>1, WaitingTyped DEF Inv
<1> QED
  BY <1>1, <1>4, <1>5, <1>6 DEF Inv

LEMMA TransceiveKeeps ==
  ASSUME Inv, NEW dev \in Devices, NEW readlen \in ReadLens, Transceive(dev, readlen)
  PROVE  Inv'
<1> DEFINE fd == NewFd(files)
           fs == Opened(files, dev)
<1>1. exchange = Idle /\ Free(files) # {} /\ Begin(fs, {fd}, fd, fd, readlen)
  BY DEF Transceive
<1>2. Owned(shells, files, left, {})
  BY <1>1 DEF Inv, OwnOf
<1>3. Owned(shells, fs, left, {} \cup {fd})
  BY <1>1, <1>2, OpenOwned
<1>4. fd \in Fds /\ fd \in DOMAIN fs /\ {} \cup {fd} = {fd} /\ {fd} # {}
  BY <1>1, NewFdIs, OpenedIs
<1> HIDE DEF fd, fs
<1> QED
  BY <1>1, <1>3, <1>4, BeginKeeps

LEMMA LinkTestKeeps ==
  ASSUME Inv, NEW txdev \in Devices, NEW rxdev \in Devices, NEW txlen \in ReadLens,
         cmd_link_test(txdev, rxdev, txlen)
  PROVE  Inv'
<1> DEFINE fd == NewFd(files)
           fs == Opened(files, txdev)
           gd == NewFd(fs)
           gs == Opened(fs, rxdev)
<1>1. exchange = Idle /\ Cardinality(Free(files)) >= 2 /\ Begin(gs, {fd, gd}, fd, gd, txlen)
  BY DEF cmd_link_test
<1>2. Free(files) # {}
  BY <1>1, FS_EmptySet
<1>3. fd \in Fds /\ fd \notin DOMAIN files /\ DOMAIN fs = DOMAIN files \cup {fd}
  BY <1>2, NewFdIs, OpenedIs
<1>4. Free(fs) # {}
  <2>1. Cardinality({fd}) = 1
    BY FS_Singleton
  <2>2. Free(fs) = Free(files) \ {fd} /\ fd \in Free(files)
    <3> HIDE DEF fs, fd
    <3> QED
      BY <1>3 DEF Free
  <2>3. Free(files) # {fd}
    BY <1>1, <2>1
  <2> QED
    BY <2>2, <2>3
<1>5. Owned(shells, fs, left, {} \cup {fd})
  <2>1. Owned(shells, files, left, {})
    BY <1>1 DEF Inv, OwnOf
  <2> QED
    BY <1>2, <2>1, OpenOwned
<1>6. Owned(shells, gs, left, ({} \cup {fd}) \cup {gd})
  <2> HIDE DEF fs
  <2> QED
    BY <1>4, <1>5, OpenOwned
<1>7. gd \in Fds /\ DOMAIN gs = DOMAIN fs \cup {gd}
  BY <1>4, NewFdIs, OpenedIs
<1> HIDE DEF fd, fs, gd, gs
<1>8. ({} \cup {fd}) \cup {gd} = {fd, gd} /\ {fd, gd} # {} /\ {fd, gd} \in SUBSET Fds
      /\ fd \in DOMAIN gs /\ gd \in DOMAIN gs
  BY <1>3, <1>7
<1> QED
  BY <1>1, <1>6, <1>8, BeginKeeps

LEMMA LoadKeeps ==
  ASSUME Inv, NEW readlen \in ReadLens, Load(readlen)
  PROVE  Inv'
<1> DEFINE fd == CurrentFd(Shell)
<1>1. AtPrompt
  BY DEF Load
<1>2. /\ Shell \in ShellType /\ Connected(Shell, files) /\ Owned(shells, files, left, {})
      /\ shells # << >> /\ exchange = Idle
  BY <1>1, ShellTyped DEF AtPrompt
<1>3. CASE fd # None
  <2>1. Begin(files, {}, fd, fd, readlen)
    BY <1>3 DEF Load
  <2>2. SlotOf(Shell.profile) \in SlotNames
    BY <1>2, SlotOfProfile DEF ShellType
  <2>3. fd \in DOMAIN files
    BY <1>2, <1>3, <2>2 DEF Connected, CurrentFd
  <2> QED
    BY <1>2, <2>1, <2>3, BeginKeeps
<1>4. CASE fd = None
  <2>1. Transceive(Port[Shell.profile], readlen)
    BY <1>4 DEF Load
  <2>2. Port[Shell.profile] \in Devices
    BY <1>2 DEF ShellType, Devices
  <2> QED
    BY <2>1, <2>2, TransceiveKeeps
<1> QED
  BY <1>3, <1>4

\* The command ends: what it opened is closed.
LEMMA FinishKeeps ==
  ASSUME Inv, exchange # Idle, Finish, UNCHANGED <<shells, left>>
  PROVE  Inv'
<1>1. /\ exchange' = Idle /\ files' = Closed(files, exchange.own)
      /\ waiting' = WaitingOn(files', waiting)
  BY DEF Finish, Files
<1>2. Owned(shells, files, left, exchange.own)
  BY DEF Inv, OwnOf
<1>3. Owned(shells, files', left, {})
  BY <1>1, <1>2, CloseOwned
<1>4. waiting' \in [Devices -> Nat]
  BY <1>1, WaitingTyped DEF Inv
<1> QED
  BY <1>1, <1>3, <1>4 DEF Inv, OwnOf

\* What the steps of an exchange start from.
LEMMA TalkingIs ==
  ASSUME Inv, exchange.phase # "idle"
  PROVE  /\ Talking(exchange, shells, files, waiting) /\ exchange # Idle
         /\ exchange \in ExchangeType
         /\ files[exchange.tx] \in Devices /\ files[exchange.rx] \in Devices
         /\ waiting \in [Devices -> Nat]
<1>1. exchange # Idle
  BY DEF Idle
<1> QED
  BY <1>1 DEF Inv, Talking, Owned

\* A step that only counts: the descriptors stay.
LEMMA CountKeeps ==
  ASSUME Inv, exchange # Idle, UNCHANGED <<shells, files, left>>,
         waiting' \in [Devices -> Nat], Talking(exchange', shells, files, waiting'),
         exchange'.own = exchange.own
  PROVE  Inv'
<1>1. exchange' \in ExchangeType
  BY DEF Talking
<1>2. exchange' # Idle
  BY <1>1, NotIdle
<1>3. OwnOf(exchange') = OwnOf(exchange)
  BY <1>2 DEF OwnOf
<1> QED
  BY <1>3 DEF Inv

LEMMA FlushKeeps ==
  ASSUME Inv, FlushLine
  PROVE  Inv'
<1> DEFINE e == [exchange EXCEPT !.phase = "write"]
           w == [waiting EXCEPT ![files[exchange.tx]] = 0, ![files[exchange.rx]] = 0]
<1>1. /\ exchange.phase = "flush" /\ waiting' = w /\ exchange' = e
      /\ UNCHANGED <<shells, files, left>>
  BY DEF FlushLine
<1>2. /\ Talking(exchange, shells, files, waiting) /\ exchange # Idle
      /\ exchange \in ExchangeType
      /\ files[exchange.tx] \in Devices /\ files[exchange.rx] \in Devices
      /\ waiting \in [Devices -> Nat]
  BY <1>1, TalkingIs
<1>3. w \in [Devices -> Nat] /\ w[files[exchange.rx]] = 0
  BY <1>2
<1>4. /\ e \in ExchangeType /\ e.phase = "write" /\ e.own = exchange.own /\ e.tx = exchange.tx
      /\ e.rx = exchange.rx /\ e.total = exchange.total /\ e.since = exchange.since
  BY <1>2 DEF ExchangeType
<1>7. exchange.total = 0 /\ exchange.since = 0
  BY <1>1, <1>2 DEF Talking
<1> HIDE DEF e, w
<1>6. e.total + w[files[e.rx]] = e.since
  BY <1>3, <1>4, <1>7
<1>5. Talking(e, shells, files, w)
  BY <1>2, <1>4, <1>6 DEF Talking
<1> QED
  BY <1>1, <1>2, <1>3, <1>4, <1>5, CountKeeps

LEMMA WriteKeeps ==
  ASSUME Inv, write_all
  PROVE  Inv'
<1> DEFINE e == [exchange EXCEPT !.phase = "read"]
<1>1. /\ exchange.phase = "write" /\ waiting' = waiting /\ exchange' = e
      /\ UNCHANGED <<shells, files, left>>
  BY DEF write_all, Sent
<1>2. /\ Talking(exchange, shells, files, waiting) /\ exchange # Idle
      /\ exchange \in ExchangeType /\ waiting \in [Devices -> Nat]
  BY <1>1, TalkingIs
<1>4. /\ e \in ExchangeType /\ e.phase = "read" /\ e.own = exchange.own /\ e.tx = exchange.tx
      /\ e.rx = exchange.rx /\ e.total = exchange.total /\ e.since = exchange.since
  BY <1>2 DEF ExchangeType
<1> HIDE DEF e
<1>5. Talking(e, shells, files, waiting)
  BY <1>1, <1>2, <1>4 DEF Talking
<1> QED
  BY <1>1, <1>2, <1>4, <1>5, CountKeeps

\* The exchange is over, with all that arrived or with as much as was asked for.
LEMMA EndsKeeps ==
  ASSUME Inv, exchange.phase = "read", Ends, UNCHANGED <<shells, left>>,
         waiting[files[exchange.rx]] = 0 \/ exchange.readlen - exchange.total <= 0
  PROVE  Inv'
<1> DEFINE e == [exchange EXCEPT !.phase = "report"]
<1>1. waiting' = waiting /\ exchange' = e /\ UNCHANGED <<shells, files, left>>
  BY DEF Ends
<1>2. /\ Talking(exchange, shells, files, waiting) /\ exchange # Idle
      /\ exchange \in ExchangeType /\ waiting \in [Devices -> Nat] /\ files[exchange.rx] \in Devices
  BY TalkingIs
<1>3. /\ e \in ExchangeType /\ e.phase = "report" /\ e.own = exchange.own /\ e.tx = exchange.tx
      /\ e.rx = exchange.rx /\ e.total = exchange.total /\ e.since = exchange.since
      /\ e.readlen = exchange.readlen
  BY <1>2 DEF ExchangeType
<1> HIDE DEF e
<1>4. e.total <= e.since /\ (e.total < e.since => e.total >= e.readlen)
  <2>1. exchange.total + waiting[files[exchange.rx]] = exchange.since
    BY <1>2 DEF Talking
  <2>2. exchange.total \in Nat /\ exchange.readlen \in Int /\ waiting[files[exchange.rx]] \in Nat
    BY <1>2 DEF ExchangeType
  <2> QED
    BY <1>3, <2>1, <2>2
<1>5. Talking(e, shells, files, waiting)
  BY <1>2, <1>3, <1>4 DEF Talking
<1> QED
  BY <1>1, <1>2, <1>3, <1>5, CountKeeps

LEMMA ReadKeeps ==
  ASSUME Inv, read_some_wait
  PROVE  Inv'
<1> DEFINE dev == files[exchange.rx]
           missing == exchange.readlen - exchange.total
           there == waiting[dev]
           got == Min({there, missing})
           e == [exchange EXCEPT !.total = @ + got]
           w == [waiting EXCEPT ![dev] = @ - got]
<1>1. exchange.phase = "read" /\ UNCHANGED <<shells, left>>
  BY DEF read_some_wait
<1>2. /\ Talking(exchange, shells, files, waiting) /\ exchange # Idle
      /\ exchange \in ExchangeType /\ dev \in Devices /\ waiting \in [Devices -> Nat]
  BY <1>1, TalkingIs
<1>3. CASE Ends /\ (there = 0 \/ missing <= 0)
  BY <1>1, <1>3, EndsKeeps
<1>4. CASE missing > 0 /\ there > 0 /\ exchange' = e /\ waiting' = w /\ UNCHANGED files
  <2>1. /\ missing \in Nat /\ there \in Nat /\ exchange.total \in Nat /\ exchange.since \in Nat
        /\ exchange.total + there = exchange.since
    BY <1>1, <1>2, <1>4 DEF ExchangeType, Talking
  <2> HIDE DEF missing, there
  <2>2. got \in Nat /\ got <= there
    <3>1. {there, missing} \in SUBSET Nat /\ {there, missing} # {}
      BY <2>1
    <3>2. Min({there, missing}) \in {there, missing} /\ Min({there, missing}) <= there
      BY <3>1, MinIs
    <3> QED
      BY <2>1, <3>2
  <2> HIDE DEF got, dev
  <2>3. w \in [Devices -> Nat] /\ w[dev] = there - got
    BY <1>2, <2>1, <2>2 DEF there
  <2>4. /\ e \in ExchangeType /\ e.phase = "read" /\ e.own = exchange.own /\ e.tx = exchange.tx
        /\ e.rx = exchange.rx /\ e.total = exchange.total + got /\ e.since = exchange.since
    BY <1>1, <1>2, <2>1, <2>2 DEF ExchangeType
  <2> HIDE DEF e, w
  <2>5. e.total + w[dev] = e.since
    BY <2>1, <2>2, <2>3, <2>4
  <2>6. Talking(e, shells, files, w)
    BY <1>2, <2>4, <2>5 DEF Talking, dev
  <2> QED
    BY <1>1, <1>2, <1>4, <2>3, <2>4, <2>6, CountKeeps
<1> QED
  BY <1>3, <1>4 DEF read_some_wait, TimedOut

LEMMA HangUpKeeps ==
  ASSUME Inv, HangUp
  PROVE  Inv'
<1> DEFINE e == [exchange EXCEPT !.phase = "report", !.since = exchange.total]
           w == [waiting EXCEPT ![files[exchange.rx]] = 0]
<1>1. /\ exchange.phase = "read" /\ waiting' = w /\ exchange' = e
      /\ UNCHANGED <<shells, files, left>>
  BY DEF HangUp
<1>2. /\ Talking(exchange, shells, files, waiting) /\ exchange # Idle
      /\ exchange \in ExchangeType /\ waiting \in [Devices -> Nat]
  BY <1>1, TalkingIs
<1>3. /\ e \in ExchangeType /\ e.phase = "report" /\ e.own = exchange.own /\ e.tx = exchange.tx
      /\ e.rx = exchange.rx /\ e.total = e.since /\ e.total \in Nat
  BY <1>2 DEF ExchangeType
<1>4. w \in [Devices -> Nat]
  BY <1>2
<1> HIDE DEF e, w
<1>5. Talking(e, shells, files, w)
  BY <1>2, <1>3 DEF Talking
<1> QED
  BY <1>1, <1>2, <1>3, <1>4, <1>5, CountKeeps

LEMMA FailKeeps ==
  ASSUME Inv, Fail
  PROVE  Inv'
<1> DEFINE e == [exchange EXCEPT !.phase = "failed", !.total = 0, !.since = 0]
<1>1. /\ exchange.phase \in {"write", "read"} /\ waiting' = waiting /\ exchange' = e
      /\ UNCHANGED <<shells, files, left>>
  BY DEF Fail, IoFails
<1>2. /\ Talking(exchange, shells, files, waiting) /\ exchange # Idle
      /\ exchange \in ExchangeType /\ waiting \in [Devices -> Nat]
  BY <1>1, TalkingIs
<1>3. /\ e \in ExchangeType /\ e.phase = "failed" /\ e.own = exchange.own /\ e.tx = exchange.tx
      /\ e.rx = exchange.rx
  BY <1>2 DEF ExchangeType
<1> HIDE DEF e
<1>4. Talking(e, shells, files, waiting)
  BY <1>2, <1>3 DEF Talking
<1> QED
  BY <1>1, <1>2, <1>3, <1>4, CountKeeps

LEMMA ReportKeeps ==
  ASSUME Inv, Report
  PROVE  Inv'
<1>1. exchange.phase \in {"report", "failed"} /\ Finish /\ UNCHANGED <<shells, left>>
  BY DEF Report
<1>2. exchange # Idle
  BY <1>1, TalkingIs
<1> QED
  BY <1>1, <1>2, FinishKeeps

\* A byte arrives at any time.
LEMMA ArriveKeeps ==
  ASSUME Inv, NEW dev \in Devices, Arrive(dev)
  PROVE  Inv'
<1> DEFINE w == [waiting EXCEPT ![dev] = @ + 1]
           e == [exchange EXCEPT !.since = @ + 1]
<1>1. /\ waiting' = w /\ UNCHANGED <<shells, files, left>>
      /\ exchange' = IF exchange.phase \in {"write", "read"} /\ files[exchange.rx] = dev
                     THEN e ELSE exchange
  BY DEF Arrive
<1>2. waiting \in [Devices -> Nat]
  BY DEF Inv
<1>3. /\ w \in [Devices -> Nat] /\ w[dev] = waiting[dev] + 1
      /\ \A d \in Devices : d # dev => w[d] = waiting[d]
  BY <1>2
<1>4. CASE exchange = Idle
  <2>1. exchange' = exchange
    BY <1>1, <1>4 DEF Idle
  <2> QED
    BY <1>1, <1>3, <1>4, <2>1 DEF Inv
<1>5. CASE exchange # Idle
  <2>1. exchange.phase # "idle"
    BY <1>5 DEF Inv, Talking, ExchangeType
  <2>2. /\ Talking(exchange, shells, files, waiting)
        /\ exchange \in ExchangeType /\ files[exchange.rx] \in Devices
    BY <2>1, TalkingIs
  <2>3. CASE exchange.phase \in {"write", "read"} /\ files[exchange.rx] = dev
    <3>1. /\ e \in ExchangeType /\ e.phase = exchange.phase /\ e.own = exchange.own
          /\ e.tx = exchange.tx /\ e.rx = exchange.rx /\ e.total = exchange.total
          /\ e.since = exchange.since + 1
      BY <2>2 DEF ExchangeType
    <3> HIDE DEF e, w
    <3>2. e.total + w[dev] = e.since
      <4>1. exchange.total \in Nat /\ exchange.total + waiting[dev] = exchange.since /\ waiting[dev] \in Nat
        BY <1>2, <2>2, <2>3 DEF ExchangeType, Talking
      <4> QED
        BY <1>3, <3>1, <4>1
    <3>3. Talking(e, shells, files, w)
      BY <2>2, <2>3, <3>1, <3>2 DEF Talking
    <3> QED
      BY <1>1, <1>3, <1>5, <2>3, <3>1, <3>3, CountKeeps
  <2>4. CASE ~(exchange.phase \in {"write", "read"} /\ files[exchange.rx] = dev)
    <3>1. exchange' = exchange
      BY <1>1, <2>4
    <3>2. exchange.phase \in {"write", "read"} => w[files[exchange.rx]] = waiting[files[exchange.rx]]
      BY <1>3, <2>2, <2>4 DEF ExchangeType
    <3> HIDE DEF w
    <3>3. Talking(exchange, shells, files, w)
      BY <2>2, <3>2 DEF Talking
    <3> QED
      BY <1>1, <1>3, <1>5, <3>1, <3>3, CountKeeps
  <2> QED
    BY <2>3, <2>4
<1> QED
  BY <1>4, <1>5

-----------------------------------------------------------------------------
(* The theorems. *)

LEMMA InitInv == HostmonInit => Inv
<1> SUFFICES ASSUME HostmonInit PROVE Inv
  OBVIOUS
<1>1. Owned(shells, files, left, {})
  BY EmptyOwned DEF HostmonInit
<1>2. waiting \in [Devices -> Nat] /\ exchange = Idle
  BY DEF HostmonInit
<1> QED
  BY <1>1, <1>2 DEF Inv, OwnOf

LEMMA NextInv == Inv /\ [HostmonNext]_hostmon_vars => Inv'
<1> SUFFICES ASSUME Inv, [HostmonNext]_hostmon_vars PROVE Inv'
  OBVIOUS
<1>1. CASE cmd_shell \/ Exit \/ EndOfFile \/ Aforth \/ Monitor \/ Connect
           \/ \E p \in Profiles : Profile(p)
  BY <1>1, CmdShellKeeps, ReturnsKeeps, ModeKeeps, ConnectKeeps
<1>2. CASE AtPrompt /\ \E slots \in {{SlotOf(Shell.profile)}, {"fd_a", "fd_b"}} : Disconnect(slots)
  BY <1>2, DisconnectKeeps
<1>3. CASE \E readlen \in ReadLens : Load(readlen) \/ \E dev \in Devices : Transceive(dev, readlen)
  BY <1>3, LoadKeeps, TransceiveKeeps
<1>4. CASE \E readlen \in ReadLens, d, e \in Devices : cmd_link_test(d, e, readlen)
  BY <1>4, LinkTestKeeps
<1>5. CASE ExchangeStep
  BY <1>5, FlushKeeps, WriteKeeps, ReadKeeps, ReportKeeps DEF ExchangeStep
<1>6. CASE Fail \/ HangUp
  BY <1>6, FailKeeps, HangUpKeeps
<1>7. CASE \E dev \in Devices : Arrive(dev)
  BY <1>7, ArriveKeeps
<1>8. CASE UNCHANGED hostmon_vars
  BY <1>8 DEF hostmon_vars, Inv
<1> QED
  BY <1>1, <1>2, <1>3, <1>4, <1>5, <1>6, <1>7, <1>8 DEF HostmonNext

LEMMA SpecInv == HostmonSpec => []Inv
BY InitInv, NextInv, PTL DEF HostmonSpec

\* A slot never names a closed descriptor or another board's, whatever was
\* connected, disconnected, renamed and left before, at any depth of shells.
THEOREM SlotsConnected == HostmonSpec => []SlotsAreConnections
<1>1. Inv => SlotsAreConnections
  <2> SUFFICES ASSUME Inv PROVE SlotsAreConnections
    OBVIOUS
  <2>1. \A i \in 1..Len(shells) : Connected(shells[i], files)
    BY DEF Inv, Owned
  <2>2. \A i \in 1..Len(shells) : \A slot \in {"fd_a", "fd_b"} :
          shells[i][slot] # None =>
            /\ shells[i][slot] \in DOMAIN files
            /\ files[shells[i][slot]] \in {Port[p] : p \in {q \in Profiles : SlotOf(q) = slot}}
    BY <2>1 DEF Connected, SlotNames, DevicesOf
  <2>3. ASSUME exchange # Idle, exchange.own = {}
        PROVE  files[exchange.tx] \in
                 {Port[p] : p \in {q \in Profiles : SlotOf(q) = SlotOf(Shell.profile)}}
    <3>1. /\ shells # << >> /\ exchange.tx = CurrentFd(Shell) /\ exchange.tx \in DOMAIN files
          /\ shells \in Seq(ShellType) /\ DOMAIN files \subseteq Fds
      BY <2>3 DEF Inv, Talking, Owned, Shell
    <3>2. Connected(Shell, files)
      BY <2>1, <3>1 DEF Shell
    <3>3. SlotOf(Shell.profile) \in SlotNames /\ exchange.tx # None
      BY <3>1, <3>2, SlotOfProfile, NoneIsNoFd DEF Connected, ShellType
    <3> QED
      BY <3>1, <3>2, <3>3 DEF Connected, CurrentFd, DevicesOf
  <2> QED
    BY <2>2, <2>3 DEF SlotsAreConnections
<1> QED
  BY <1>1, SpecInv, PTL

\* Every open descriptor has one owner on all ways out of a command, those where
\* a write or a read fails among them.
THEOREM NoLeak == HostmonSpec => []NoDescriptorLeak
<1>1. Inv => NoDescriptorLeak
  <2> SUFFICES ASSUME Inv PROVE NoDescriptorLeak
    OBVIOUS
  <2> DEFINE own == OwnOf(exchange)
             U == UNION {SlotsOf(shells[i]) : i \in 1..Len(shells)}
  <2>1. /\ \A f : f \in DOMAIN files <=>
             ((\E i \in 1..Len(shells) : f \in SlotsOf(shells[i])) \/ f \in left \/ f \in own)
        /\ \A i, j \in 1..Len(shells) : i # j => SlotsOf(shells[i]) \cap SlotsOf(shells[j]) = {}
    BY DEF Inv, Owned
  <2>2. \A f : f \in U <=> \E i \in 1..Len(shells) : f \in SlotsOf(shells[i])
    OBVIOUS
  <2> HIDE DEF U, own
  <2>3. DOMAIN files = U \cup left \cup own
    BY <2>1, <2>2
  <2>4. own = IF exchange = Idle THEN {} ELSE exchange.own
    BY DEF own, OwnOf
  <2> QED
    BY <2>1, <2>3, <2>4 DEF NoDescriptorLeak, U
<1> QED
  BY <1>1, SpecInv, PTL

\* The answer a command reports is what arrived since its own flush without a gap,
\* however late, early or piecewise the board sends it; a command whose write or
\* read fails reports no part of it.
THEOREM AnswersAreExact == HostmonSpec => []ExchangeExact
<1>1. Inv => ExchangeExact
  BY DEF Inv, Talking, ExchangeExact
<1> QED
  BY <1>1, SpecInv, PTL
=============================================================================
