----------------------------- MODULE StoreBuffer -----------------------------
(***************************************************************************)
(* The processor between the driver and the memory that the card sees.     *)
(*                                                                         *)
(* The driver's stores wait in a buffer and reach memory later, while the  *)
(* driver itself sees them at once.  Some processors drain the buffer in   *)
(* program order (x86); others only keep stores to the same place in order *)
(* (the arm64 machine that src/tests/test.rs is written for).  The driver  *)
(* has no barrier anywhere, neither for the descriptors, which it writes   *)
(* with Volatile, nor for the registers, which it writes with              *)
(* write_volatile: those only keep the compiler from moving the accesses.  *)
(***************************************************************************)
EXTENDS Integers, SequencesExt

CONSTANT InOrder   \* the processor drains its stores in program order

OrderAssumption == InOrder \in BOOLEAN

VARIABLES
  mem,      \* what the card sees: a value for each place
  stores    \* the stores that have not reached it, the oldest first

Store(place, value) == [place |-> place, value |-> value]

\* The stores that may reach memory next.
Drainable ==
  {k \in DOMAIN stores :
     IF InOrder THEN k = 1
     ELSE \A j \in 1 .. k - 1 : stores[j].place # stores[k].place}

Drain ==
  \E k \in Drainable :
    /\ mem' = [mem EXCEPT ![stores[k].place] = stores[k].value]
    /\ stores' = RemoveAt(stores, k)

\* What the driver loads: its own last store, if that is still in the buffer.
Load(place) ==
  LET own == {k \in DOMAIN stores : stores[k].place = place}
  IN  IF own = {} THEN mem[place] ELSE stores[Max(own)].value
=============================================================================
