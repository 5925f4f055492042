------------------------------- MODULE Accesses -------------------------------
(***************************************************************************)
(* The models that cut a call into its accesses, side by side.  Loads and  *)
(* stores of memory: send and recycle_tx_buffers (TxOrder), alloc_buf and  *)
(* free_buf (PoolRace), receive_packets (RxOrder).  Reads and writes of    *)
(* registers: Synced, Semaphore and open, of EarlierDesign.  They share no *)
(* state.                                                                  *)
(***************************************************************************)
EXTENDS EarlierDesign, DescriptorRing

CONSTANTS
  InOrder, Frame, NoFrame, TX_CLEAN_BATCH, NumEntries,      \* TxOrder, RxOrder
  Thread, PoolEntries                                       \* PoolRace

VARIABLES
  mem, stores, tx_index, clean_index, TDH, written_back, cached, wire, pending,
  rx_mem, rx_stores, rx_index, bufs_in_use, free, held,
  RDH, rx_written_back, rx_cached, delivered, rx_pending,
  borrow, len, slots, owned, call, pool_pc, seen, panicked

txVars   == <<mem, stores, tx_index, clean_index, TDH, written_back, cached,
              wire, pending>>
rxVars   == <<rx_mem, rx_stores, rx_index, bufs_in_use, free, held,
              RDH, rx_written_back, rx_cached, delivered, rx_pending>>
poolVars == <<borrow, len, slots, owned, call, pool_pc, seen, panicked>>

Tx   == INSTANCE TxOrder
Rx   == INSTANCE RxOrder WITH
          mem <- rx_mem, stores <- rx_stores, cached <- rx_cached,
          written_back <- rx_written_back, pending <- rx_pending
Race == INSTANCE PoolRace WITH NumEntries <- PoolEntries, pc <- pool_pc

\* Every variable of the five models keeps to its type.
AccessesTypeOK ==
  Tx!TypeOK /\ Rx!TypeOK /\ Race!TypeOK /\ TypeOK /\ O!TypeOK

\* The card transmits what was sent, in that order: see TxOrder.
TxIsFifo == Tx!TxIsFifo

\* receive_packets delivers what arrived, in that order: see RxOrder.
RxIsFifo == Rx!RxIsFifo

\* On one thread alloc_buf and free_buf are as atomic as in MemPool: see
\* PoolRace.
ImplementsMemPool == Race!ImplementsMemPool
=============================================================================
