---------------------------- MODULE DescriptorRing ----------------------------
(***************************************************************************)
(* The indices of a descriptor ring, which both kinds of queue use.        *)
(***************************************************************************)
EXTENDS Integers

CONSTANT QS   \* descriptors in the ring

\* start_rx_queue and start_tx_queue refuse a size that is not a power of two.
ASSUME RingAssumption ==
  QS \in Nat \ {0} /\ \E k \in 0 .. QS : QS = 2^k

Ring == 0 .. QS - 1

\* Fault: the mask is missing.
wrap_ring_unmasked(index) == index + 1

\* (index + 1) & (ring_size - 1), for a power of two.
wrap_ring(index) == (index + 1) % QS

\* Steps from index a forward to index b.
Distance(a, b) == IF b >= a THEN b - a ELSE b - a + QS
=============================================================================
