------------------------------- MODULE MemPool -------------------------------
(***************************************************************************)
(* The packet buffer pool of src/src/memory.rs.                            *)
(*                                                                         *)
(* A pool is a LIFO stack of the numbers of its free entries.  alloc_pkt   *)
(* pops an entry and wraps it in a Packet; dropping the Packet pushes the  *)
(* entry back, after a check that it is not on the stack already, which    *)
(* panics.  The rings take entries from the pool and give them back        *)
(* without a Packet, so this module only keeps the state they share and    *)
(* the operations on it: TxQueue and RxQueue extend it.                    *)
(*                                                                         *)
(* A buffer is a pair <<pool, entry>>; it stands for the entry's virtual   *)
(* and physical address, which are injective functions of the pair.        *)
(***************************************************************************)
EXTENDS Integers, SequencesExt

CONSTANTS
  Pool,        \* the memory pools (Arc<MemPool>) the application created
  NumEntries,  \* entries of each pool (MemPool::num_entries)
  NoPool,      \* the absent pool (None)
  Frame,       \* what a buffer may contain
  MaxHeld      \* bound: packets the application allocates and keeps at once

ASSUME PoolAssumption ==
  /\ Pool # {} /\ NoPool \notin Pool
  /\ NumEntries \in Nat
  /\ Frame # {}
  /\ MaxHeld \in Nat

VARIABLES
  free_stack,  \* free_stack[p]: the free entries of pool p, the top last
  held,        \* the buffers of the Packets that the application owns
  payload,     \* payload[b]: the frame in buffer b
  panicked     \* an assertion of the driver failed

poolVars == <<free_stack, held, payload, panicked>>

Entry    == 0 .. NumEntries - 1
Buffer   == Pool \X Entry
NoBuffer == <<NoPool, 0>>     \* address 0: no buffer

-----------------------------------------------------------------------------
(* Operations on the free stack.                                           *)

\* A buffer is on the free stack of its pool.
IsFree(b) == b[2] \in ToSet(free_stack[b[1]])

\* The buffer that alloc_buf of pool p returns: the top of a non-empty stack.
CanAlloc(p) == free_stack[p] # << >>
Top(p)      == <<p, Last(free_stack[p])>>

\* The stacks after alloc_buf of pool p, and after the entries ids go to pool p.
Popped(p)      == [free_stack EXCEPT ![p] = Front(@)]
Pushed(p, ids) == [free_stack EXCEPT ![p] = @ \o ids]

-----------------------------------------------------------------------------
(* What the application does with packets, on any thread and between any   *)
(* two steps of the driver.                                                *)

\* IgbNetBuf::alloc and the writes through packet_mut.  On an empty pool it
\* returns NoMemory and changes nothing.
AllocPkt(p, f) ==
  /\ ~panicked
  /\ CanAlloc(p)
  /\ Cardinality(held) < MaxHeld
  /\ held' = held \cup {Top(p)}
  /\ payload' = [payload EXCEPT ![Top(p)] = f]
  /\ free_stack' = Popped(p)
  /\ UNCHANGED panicked

\* free_buf: panics if the entry is free already, and pushes it otherwise.
FreeBuf(b) ==
  IF IsFree(b)
    THEN panicked' = TRUE /\ UNCHANGED free_stack
    ELSE free_stack' = Pushed(b[1], <<b[2]>>) /\ UNCHANGED panicked

\* Drop for Packet: the end of the life of a packet that the application owns.
DropPkt(b) ==
  /\ ~panicked
  /\ b \in held
  /\ held' = held \ {b}
  /\ FreeBuf(b)
  /\ UNCHANGED payload

-----------------------------------------------------------------------------
PoolTypeOK ==
  /\ free_stack \in [Pool -> Seq(Entry)]
  /\ held \subseteq Buffer
  /\ payload \in [Buffer -> Frame]
  /\ panicked \in BOOLEAN

\* No entry is lost and none has two owners, if the rings have the buffers of
\* Q: each buffer is on its free stack once, or in a packet of the application,
\* or in Q.
OwnedOnce(Q) ==
  /\ \A p \in Pool : IsInjective(free_stack[p])
  /\ \A b \in Buffer :
       /\ IsFree(b) \/ b \in held \/ b \in Q
       /\ ~(IsFree(b) /\ b \in held)
       /\ ~(IsFree(b) /\ b \in Q)
       /\ ~(b \in held /\ b \in Q)
=============================================================================
