------------------------------- MODULE TxQueue -------------------------------
(***************************************************************************)
(* One transmit queue of src/src/igb.rs, the packets it takes from the     *)
(* application, and the network card that reads its descriptor ring.       *)
(*                                                                         *)
(* The driver and the card share the descriptors and the tail register     *)
(* TDT.  The driver fills the descriptor at tx_index, then moves TDT past  *)
(* it (send); the card fetches the descriptors from TDH up to TDT,         *)
(* transmits their buffers and writes back "descriptor done" (DD).         *)
(* recycle_tx_buffers looks at the DD bit of the last descriptor of a      *)
(* batch of TX_CLEAN_BATCH and gives the buffers of the whole batch back   *)
(* to the pool.  The card runs between any two steps of the driver.        *)
(***************************************************************************)
EXTENDS MemPool, DescriptorRing

CONSTANTS
  TX_CLEAN_BATCH,   \* descriptors that are cleaned at once
  NoFrame           \* nothing was transmitted yet

ASSUME TxAssumption ==
  /\ TX_CLEAN_BATCH \in Nat \ {0}
  /\ NoFrame \notin Frame

VARIABLES
  descriptors,   \* the ring in memory: address and DD bit of each descriptor
  tx_index,      \* driver: where the next packet goes
  clean_index,   \* driver: the oldest descriptor that was not cleaned
  bufs_in_use,   \* driver: the entries of the packets sent, not cleaned
  tx_pool,       \* driver: the pool the cleaned entries go to (queue.pool)
  call,          \* the driver's call in progress
  clean_local,   \* recycle_tx_buffers' local copy of clean_index
  TDT,           \* tail register, written by the driver
  TDH,           \* card: the next descriptor to fetch
  written_back,  \* card: the next descriptor to write back
  cached,        \* card: buffer addresses fetched, not transmitted
  wire           \* the last frame transmitted

driverVars == <<tx_index, clean_index, bufs_in_use, tx_pool, call, clean_local>>
cardVars   == <<TDH, written_back, cached, wire>>
vars       == <<poolVars, driverVars, cardVars, descriptors, TDT>>

-----------------------------------------------------------------------------
(* Index arithmetic.                                                       *)

\* One descriptor stays free, so that equal indices mean an empty ring.
can_send == wrap_ring(tx_index) # clean_index

\* Fault: a negative difference is not corrected.
cleanable_uncorrected(cur, clean) == cur - clean

\* Descriptors from clean up to cur; the difference is corrected when the
\* indices have wrapped.
cleanable(cur, clean) == IF cur - clean < 0 THEN cur - clean + QS ELSE cur - clean

\* Fault: one descriptor too far.
cleanup_to_off_by_one(clean) ==
  LET to == clean + TX_CLEAN_BATCH
  IN  IF to >= QS THEN to - QS ELSE to

\* The last descriptor of the batch that starts at clean.
cleanup_to(clean) ==
  LET to == clean + TX_CLEAN_BATCH - 1
  IN  IF to >= QS THEN to - QS ELSE to

-----------------------------------------------------------------------------
(* After init_tx and start_tx_queue.                                       *)

Init ==
  /\ free_stack = [p \in Pool |-> [k \in 1 .. NumEntries |-> k - 1]]
  /\ held = {}
  /\ payload = [b \in Buffer |-> CHOOSE f \in Frame : TRUE]
  /\ panicked = FALSE
  /\ descriptors = [i \in Ring |-> [addr |-> NoBuffer, dd |-> FALSE]]
  /\ tx_index = 0 /\ clean_index = 0 /\ clean_local = 0
  /\ bufs_in_use = << >>
  /\ tx_pool = NoPool
  /\ call = "idle"
  /\ TDT = 0 /\ TDH = 0 /\ written_back = 0
  /\ cached = [i \in Ring |-> NoBuffer]
  /\ wire = NoFrame

-----------------------------------------------------------------------------
(* The application's use of the pool.                                      *)

Application ==
  /\ \/ \E p \in Pool, f \in Frame : AllocPkt(p, f)
     \/ \E b \in held : DropPkt(b)
  /\ UNCHANGED <<driverVars, cardVars, descriptors, TDT>>

-----------------------------------------------------------------------------
(* send(queue_id, tx_buf).                                                 *)

\* The queue is full: QueueFull is returned and tx_buf, owned by the call, is
\* dropped.
SendQueueFull(b) ==
  /\ call = "idle"
  /\ ~can_send
  /\ DropPkt(b)
  /\ UNCHANGED <<driverVars, cardVars, descriptors, TDT>>

\* Fault: the DD bit that the card left in the descriptor is not cleared.
FillDescriptor_stale_dd(i, b) ==
  descriptors' = [descriptors EXCEPT ![i].addr = b]

\* AdvancedTxDescriptor::send: the address, and the status word overwritten,
\* which clears DD.
FillDescriptor(i, b) ==
  descriptors' = [descriptors EXCEPT ![i] = [addr |-> b, dd |-> FALSE]]

\* Fault: the packet is dropped at the end of send, as every other value is.
SendFill_dropped(b) ==
  /\ call = "idle" /\ ~panicked
  /\ can_send
  /\ DropPkt(b)
  /\ tx_pool' = b[1]
  /\ tx_index' = wrap_ring(tx_index)
  /\ FillDescriptor(tx_index, b)
  /\ bufs_in_use' = Append(bufs_in_use, b[2])
  /\ call' = "send"
  /\ UNCHANGED <<clean_index, clean_local, cardVars, TDT>>

\* send up to the write of TDT: queue.pool becomes the packet's pool whatever
\* it was, and mem::forget keeps the packet's entry from going back to the pool.
SendFill(b) ==
  /\ call = "idle" /\ ~panicked
  /\ b \in held
  /\ can_send
  /\ tx_pool' = b[1]
  /\ tx_index' = wrap_ring(tx_index)
  /\ FillDescriptor(tx_index, b)
  /\ bufs_in_use' = Append(bufs_in_use, b[2])
  /\ held' = held \ {b}
  /\ call' = "send"
  /\ UNCHANGED <<free_stack, payload, panicked, clean_index, clean_local,
                 cardVars, TDT>>

\* Fault: TDT is written with the index of the packet, not the one after it.
SendTail_packet_index ==
  /\ call = "send" /\ ~panicked
  /\ TDT' = (tx_index + QS - 1) % QS
  /\ call' = "idle"
  /\ UNCHANGED <<poolVars, tx_index, clean_index, bufs_in_use, tx_pool,
                 clean_local, cardVars, descriptors>>

\* The write of TDT hands the descriptor to the card.
SendTail ==
  /\ call = "send" /\ ~panicked
  /\ TDT' = tx_index
  /\ call' = "idle"
  /\ UNCHANGED <<poolVars, tx_index, clean_index, bufs_in_use, tx_pool,
                 clean_local, cardVars, descriptors>>

-----------------------------------------------------------------------------
(* recycle_tx_buffers(queue_id): a loop over batches.                      *)

RecycleStart ==
  /\ call = "idle" /\ ~panicked
  /\ clean_local' = clean_index
  /\ call' = "recycle"
  /\ UNCHANGED <<poolVars, tx_index, clean_index, bufs_in_use, tx_pool,
                 cardVars, descriptors, TDT>>

\* Fault: the batch is cleaned when its first descriptor is done.
BatchDone_first(clean) ==
  /\ cleanable(tx_index, clean) >= TX_CLEAN_BATCH
  /\ descriptors[clean].dd

\* A whole batch is outstanding and the card is done with its last descriptor.
BatchDone(clean) ==
  /\ cleanable(tx_index, clean) >= TX_CLEAN_BATCH
  /\ descriptors[cleanup_to(clean)].dd

\* How many entries the batch drains: all of them if there are no more than a
\* batch.
Drained ==
  IF TX_CLEAN_BATCH >= Len(bufs_in_use) THEN Len(bufs_in_use) ELSE TX_CLEAN_BATCH

\* The entries are pushed on the free stack without the check of free_buf.
RecycleBatch ==
  /\ call = "recycle" /\ ~panicked
  /\ BatchDone(clean_local)
  /\ IF tx_pool = NoPool
       THEN UNCHANGED <<free_stack, bufs_in_use>>
       ELSE /\ free_stack' = Pushed(tx_pool, SubSeq(bufs_in_use, 1, Drained))
            /\ bufs_in_use' = SubSeq(bufs_in_use, Drained + 1, Len(bufs_in_use))
  /\ clean_local' = wrap_ring(cleanup_to(clean_local))
  /\ UNCHANGED <<held, payload, panicked, tx_index, clean_index, tx_pool, call,
                 cardVars, descriptors, TDT>>

RecycleDone ==
  /\ call = "recycle" /\ ~panicked
  /\ ~BatchDone(clean_local)
  /\ clean_index' = clean_local
  /\ call' = "idle"
  /\ UNCHANGED <<poolVars, tx_index, bufs_in_use, tx_pool, clean_local,
                 cardVars, descriptors, TDT>>

-----------------------------------------------------------------------------
(* The network card.                                                       *)

\* It fetches a descriptor ahead of transmitting it.
CardFetch ==
  /\ TDH # TDT
  /\ cached' = [cached EXCEPT ![TDH] = descriptors[TDH].addr]
  /\ TDH' = (TDH + 1) % QS
  /\ UNCHANGED <<poolVars, driverVars, descriptors, TDT, written_back, wire>>

\* What the card reads at an address; address 0 holds no packet.
FrameAt(b) == IF b \in Buffer THEN payload[b] ELSE NoFrame

\* It reads the buffer as late as possible: just before it reports the oldest
\* fetched descriptor done.
CardTransmit ==
  /\ written_back # TDH
  /\ wire' = FrameAt(cached[written_back])
  /\ cached' = [cached EXCEPT ![written_back] = NoBuffer]
  /\ descriptors' = [descriptors EXCEPT
                       ![written_back] = [addr |-> NoBuffer, dd |-> TRUE]]
  /\ written_back' = (written_back + 1) % QS
  /\ UNCHANGED <<poolVars, driverVars, TDT, TDH>>

-----------------------------------------------------------------------------
Driver ==
  \/ \E b \in held : SendQueueFull(b) \/ SendFill(b)
  \/ SendTail
  \/ RecycleStart \/ RecycleBatch \/ RecycleDone

Card == CardFetch \/ CardTransmit

Next == Application \/ Driver \/ Card

Spec == Init /\ [][Next]_vars
-----------------------------------------------------------------------------
(* Properties.                                                             *)

\* The descriptors that send filled and the card has not written back.
InFlight(i) == Distance(written_back, i) < Distance(written_back, tx_index)

\* The buffer of a descriptor in flight: the card may have fetched it.
CardBuffer(i) == IF cached[i] # NoBuffer THEN cached[i] ELSE descriptors[i].addr

\* The buffers of the packets sent and not cleaned.
QueueBuffers == {<<tx_pool, n>> : n \in ToSet(bufs_in_use)}

\* Every variable keeps to its type: in particular the indices and registers
\* stay inside the ring.
TypeOK ==
  /\ PoolTypeOK
  /\ descriptors \in [Ring -> [addr : Buffer \cup {NoBuffer}, dd : BOOLEAN]]
  /\ {tx_index, clean_index, clean_local, TDT, TDH, written_back} \subseteq Ring
  /\ bufs_in_use \in Seq(Entry)
  /\ tx_pool \in Pool \cup {NoPool}
  /\ call \in {"idle", "send", "recycle"}
  /\ cached \in [Ring -> Buffer \cup {NoBuffer}]
  /\ wire \in Frame \cup {NoFrame}

\* The double-free check of free_buf never fires: nobody drops a packet whose
\* entry is on the free stack already.
NoPanic == ~panicked

\* The card never reads a buffer that went back to the pool or that the
\* application may write to: send gives the buffer away when it fills the
\* descriptor, and recycle_tx_buffers frees it after the card reported it done.
DmaSafe ==
  \A i \in Ring : InFlight(i) =>
    /\ CardBuffer(i) \in Buffer
    /\ CardBuffer(i) \notin held
    /\ ~IsFree(CardBuffer(i))

\* No entry is lost and none has two owners: each one is on its free stack
\* once, or in a packet of the application, or in bufs_in_use once.
OneOwner == OwnedOnce(QueueBuffers) /\ IsInjective(bufs_in_use)

\* "Distince memory pools for a single tx queue are not supported yet": the
\* packets that wait in the ring come from queue.pool, the pool to which
\* recycle_tx_buffers will return them.
PacketsOfQueuePool ==
  \A i \in Ring : InFlight(i) => CardBuffer(i)[1] = tx_pool

\* The frames sent and not transmitted, the oldest first.
PendingFrames ==
  [k \in 1 .. Distance(written_back, tx_index) |->
     FrameAt(CardBuffer((written_back + k - 1) % QS))]

Fifo == INSTANCE FrameFifo WITH
          Capacity <- QS - 1, queue <- PendingFrames, out <- wire

-----------------------------------------------------------------------------
(* The inductive invariant.                                                *)

\* Where the oldest descriptor that was not cleaned is: recycle_tx_buffers
\* counts in its local copy and stores it when it returns.
CleanIndex == IF call = "recycle" THEN clean_local ELSE clean_index

\* The place of descriptor i in the ring, counted from there.
Offset(i) == Distance(CleanIndex, i)

\* The card follows the driver around the ring and the driver never catches up
\* with it: cleaned, transmitted, fetched, handed over, filled.  bufs_in_use
\* has one entry for each descriptor that was filled and not cleaned.
RingInOrder ==
  /\ Offset(written_back) <= Offset(TDH)
  /\ Offset(TDH) <= Offset(TDT)
  /\ Offset(TDT) <= Offset(tx_index)
  /\ TDT = tx_index \/ (call = "send" /\ tx_index = wrap_ring(TDT))
  /\ Len(bufs_in_use) = Offset(tx_index)
  /\ bufs_in_use # << >> => tx_pool \in Pool

\* A descriptor in flight is not marked done, and its address is that of the
\* entry at the same place in bufs_in_use; the card keeps no address else.
SlotsMatch ==
  \A i \in Ring :
    /\ (Offset(written_back) <= Offset(i) /\ Offset(i) < Offset(tx_index)) =>
         /\ ~descriptors[i].dd
         /\ CardBuffer(i) = <<tx_pool, bufs_in_use[Offset(i) + 1]>>
    /\ cached[i] # NoBuffer =>
         Offset(written_back) <= Offset(i) /\ Offset(i) < Offset(TDH)

Inv == TypeOK /\ NoPanic /\ OneOwner /\ RingInOrder /\ SlotsMatch

-----------------------------------------------------------------------------
(* Liveness.  A call of the driver runs to its end, the card works off its *)
(* ring, and the application polls recycle_tx_buffers.                     *)

Fairness ==
  /\ WF_vars(SendTail)
  /\ WF_vars(RecycleStart) /\ WF_vars(RecycleBatch) /\ WF_vars(RecycleDone)
  /\ WF_vars(CardFetch) /\ WF_vars(CardTransmit)

FairSpec == Spec /\ Fairness

\* QueueFull, "try again later": a full queue accepts packets again.
FullQueueRecovers == (~can_send) ~> can_send

\* Every frame that was sent is transmitted.
TxIsFairFifo == Fifo!FairSpec
=============================================================================
