----------------------------- MODULE BlockStore -----------------------------
(***************************************************************************)
(* What a block device promises its driver: a read delivers what was last  *)
(* written to the block the driver asked for, a write changes that block   *)
(* and no other, and if the simulator is killed every block that was not   *)
(* written since the last flush is still there.  Reading past the end of   *)
(* the medium delivers anything, and a write that the host refuses changes *)
(* nothing.                                                                *)
(***************************************************************************)
EXTENDS HostFile

CONSTANTS
  Slots,    \* the guest's buffers
  Erased    \* the contents of an erased block

VARIABLES
  store,    \* the blocks of the medium
  mem,      \* the guest's buffers
  at,       \* the block the driver asked for
  done,     \* the last command completed since the driver asked for one
  dirty     \* the blocks that changed since the last flush

store_vars == <<store, mem, at, done, dirty>>

Init == done = "none" /\ dirty = {}

\* What the driver does between commands changes no block: it asks for another
\* one, or puts data into its buffers.
Driver ==
  /\ \/ done' = "none" /\ mem' = mem
     \/ done' \in {done, "none"} /\ at' = at
  /\ UNCHANGED <<store, dirty>>

Read(s) ==
  /\ done' = "read"
  /\ at \in Blocks /\ store[at] # Absent => mem'[s] = store[at]
  /\ \A t \in Slots \ {s} : mem'[t] = mem[t]
  /\ UNCHANGED store

Put(data) ==
  /\ done' = "write"
  /\ store' = IF at \in Blocks THEN Extended(store, at, data) ELSE store
  /\ UNCHANGED mem

\* Blocks stay dirty until a flush.
Kept    == dirty' = dirty \cup {b \in Blocks : store'[b] # store[b]}
Flushed == dirty' = {}

Flush == done' \in {done, "none"} /\ dirty' = {} /\ UNCHANGED <<store, mem, at>>

\* The simulator is killed and started again.
Crash ==
  /\ done' = "none"
  /\ dirty' = {}
  /\ \A b \in Blocks \ dirty : store'[b] = store[b]

Next ==
  \/ Driver
  \/ Flush
  \/ Crash
  \/ /\ Kept \/ Flushed
     /\ \/ \E s \in Slots : Read(s) \/ Put(mem[s])
        \/ Put(Erased)

Spec == Init /\ [][Next]_store_vars
=============================================================================
