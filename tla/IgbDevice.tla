------------------------------ MODULE IgbDevice ------------------------------
(***************************************************************************)
(* A device with several receive and transmit queues over one pool.        *)
(*                                                                         *)
(* RxQueue and TxQueue have one queue each, step by step.  Here the queues *)
(* meet: an entry goes from the pool through a receive ring, a packet of   *)
(* the application and a transmit ring back to the pool.  The methods take *)
(* &mut self, so that calls follow each other and each is one action; the  *)
(* card and the application's packets move in between.  A descriptor's     *)
(* address and DD bit are not kept: RxQueue and TxQueue show that they     *)
(* follow from bufs_in_use and the card's index.                           *)
(***************************************************************************)
EXTENDS MemPool, DescriptorRing

CONSTANTS
  P,                           \* the pool given to init, also that of all packets
  num_rx_queues, num_tx_queues,
  TX_CLEAN_BATCH,              \* descriptors that are cleaned at once
  MaxNums                      \* bound: the largest packet_nums

ASSUME DeviceAssumption ==
  /\ Pool = {P}
  /\ {num_rx_queues, num_tx_queues, MaxNums} \subseteq Nat
  /\ num_rx_queues * QS <= NumEntries
  /\ TX_CLEAN_BATCH \in 1 .. QS - 1

VARIABLES
  rx,   \* the receive queues: rx_index, bufs_in_use, RDT and the card's index
  tx    \* the transmit queues: clean_index, tx_index (also TDT), bufs_in_use
        \* and the card's index

vars == <<poolVars, rx, tx>>

RxId == 0 .. num_rx_queues - 1
TxId == 0 .. num_tx_queues - 1

\* A queue_id that send may be called with: one of them is not valid.
QueueId == 0 .. num_tx_queues

\* After init: the receive queues took their buffers one queue after the
\* other from the top of the stack.
Init ==
  /\ free_stack = [p \in Pool |-> [k \in 1 .. NumEntries - num_rx_queues * QS |-> k - 1]]
  /\ held = {}
  /\ payload = [b \in Buffer |-> CHOOSE f \in Frame : TRUE]
  /\ panicked = FALSE
  /\ rx = [q \in RxId |->
             [rx_index |-> 0, RDT |-> QS - 1, RDH |-> 0,
              bufs_in_use |-> [i \in Ring |-> NumEntries - 1 - (q * QS + i)]]]
  /\ tx = [q \in TxId |->
             [clean_index |-> 0, tx_index |-> 0, TDH |-> 0, bufs_in_use |-> << >>]]

-----------------------------------------------------------------------------
(* Receiving.                                                              *)

\* The card has written the descriptor.
Done(queue, i) == Distance(queue.rx_index, i) < Distance(queue.rx_index, queue.RDH)

can_recv(queue) == queue.RDH # queue.rx_index

\* alloc_buf.
FreshEntry(stack) == [entry |-> Last(stack), rest |-> Front(stack)]

\* Fault: the tail is the next descriptor to look at.
Tail_too_far(s) == wrap_ring(s.last)

\* The tail that a call commits: the last descriptor it rearmed.
TailOf(s) == s.last

\* One iteration of receive_packets' loop in the state s of the call: a filled
\* buffer is replaced by a fresh one and goes to the callback, which keeps the
\* packet or drops it.  Without a filled buffer or a fresh one the loop ends.
Iteration(s, keep) ==
  IF s.ended \/ s.panic \/ ~Done(s.queue, s.index) \/ s.stack = << >>
    THEN [s EXCEPT !.ended = TRUE]
    ELSE LET fresh  == FreshEntry(s.stack)
             filled == s.queue.bufs_in_use[s.index]
         IN  [s EXCEPT !.stack = IF keep THEN fresh.rest ELSE Append(fresh.rest, filled),
                       !.given = IF keep THEN @ \cup {<<P, filled>>} ELSE @,
                       !.panic = ~keep /\ filled \in ToSet(fresh.rest),
                       !.queue.bufs_in_use[s.index] = fresh.entry,
                       !.last  = s.index,
                       !.index = wrap_ring(s.index)]

\* The state of a call on queue q when its loop starts, and after the last of
\* packet_nums iterations.
LoopStart(q) ==
  [queue |-> rx[q], index |-> rx[q].rx_index, last |-> rx[q].rx_index,
   stack |-> free_stack[P], given |-> {}, ended |-> FALSE, panic |-> FALSE]

LoopEnd(q, packet_nums, keep) ==
  LET after[k \in 0 .. packet_nums] ==
        IF k = 0 THEN LoopStart(q) ELSE Iteration(after[k - 1], keep)
  IN  after[packet_nums]

\* receive_packets(q, packet_nums, f).  NotReady changes nothing.
receive_packets(q, packet_nums, keep) ==
  LET s == LoopEnd(q, packet_nums, keep)
  IN  /\ ~panicked
      /\ can_recv(rx[q])
      /\ s.index # s.last
      /\ rx' = [rx EXCEPT ![q] = [s.queue EXCEPT !.rx_index = s.index, !.RDT = TailOf(s)]]
      /\ free_stack' = [free_stack EXCEPT ![P] = s.stack]
      /\ held' = held \cup s.given
      /\ panicked' = s.panic
      /\ UNCHANGED <<payload, tx>>

\* The card has a descriptor left and fills its buffer.
CardReceive(q) ==
  /\ rx[q].RDH # rx[q].RDT
  /\ rx' = [rx EXCEPT ![q].RDH = wrap_ring(@)]
  /\ UNCHANGED <<poolVars, tx>>

-----------------------------------------------------------------------------
(* Sending.                                                                *)

can_send(queue) == wrap_ring(queue.tx_index) # queue.clean_index

\* Fault: the packet is dropped and not forgotten.
AfterSend_dropped(b) == /\ held' = held \ {b}
                        /\ FreeBuf(b)

\* mem::forget: the entry stays taken.
AfterSend(b) == /\ held' = held \ {b}
                /\ UNCHANGED <<free_stack, panicked>>

\* send(q, packet) takes the packet: if there is no such queue or it is full,
\* the packet is dropped with the error.
send(q, b) ==
  /\ ~panicked
  /\ b \in held
  /\ IF q \in TxId /\ can_send(tx[q])
       THEN /\ tx' = [tx EXCEPT ![q].tx_index = wrap_ring(@),
                                ![q].bufs_in_use = Append(@, b[2])]
            /\ AfterSend(b)
            /\ UNCHANGED payload
       ELSE DropPkt(b) /\ UNCHANGED tx
  /\ UNCHANGED rx

CardTransmit(q) ==
  /\ tx[q].TDH # tx[q].tx_index
  /\ tx' = [tx EXCEPT ![q].TDH = wrap_ring(@)]
  /\ UNCHANGED <<poolVars, rx>>

\* The batches that recycle_tx_buffers cleans: those whose last descriptor the
\* card is done with.
Batches(queue) == Distance(queue.clean_index, queue.TDH) \div TX_CLEAN_BATCH

recycle_tx_buffers(q) ==
  LET queue   == tx[q]
      cleaned == Batches(queue) * TX_CLEAN_BATCH
  IN  /\ ~panicked
      /\ cleaned > 0
      /\ free_stack' = Pushed(P, SubSeq(queue.bufs_in_use, 1, cleaned))
      /\ tx' = [tx EXCEPT ![q].clean_index = (@ + cleaned) % QS,
                          ![q].bufs_in_use = SubSeq(@, cleaned + 1, Len(@))]
      /\ UNCHANGED <<held, payload, panicked, rx>>

-----------------------------------------------------------------------------
Allocate == (\E f \in Frame : AllocPkt(P, f)) /\ UNCHANGED <<rx, tx>>
Free(b)  == DropPkt(b) /\ UNCHANGED <<rx, tx>>

Next ==
  \/ \E q \in RxId :
       \/ CardReceive(q)
       \/ \E n \in 1 .. MaxNums, keep \in BOOLEAN : receive_packets(q, n, keep)
  \/ \E q \in TxId : CardTransmit(q) \/ recycle_tx_buffers(q)
  \/ \E b \in held : Free(b) \/ \E q \in QueueId : send(q, b)
  \/ Allocate

Spec == Init /\ [][Next]_vars

\* The card transmits; the driver's methods are polled, receive_packets again
\* and again at times when there is memory (strong fairness); and the
\* application sends or drops what it received.  It may keep receiving and
\* sending in any mixture.
Fairness ==
  /\ \A q \in TxId : WF_vars(CardTransmit(q)) /\ WF_vars(recycle_tx_buffers(q))
  /\ \A q \in RxId : SF_vars(\E n \in 1 .. MaxNums, keep \in BOOLEAN :
                               receive_packets(q, n, keep))
  /\ \A b \in Buffer : WF_vars(Free(b) \/ \E q \in QueueId : send(q, b))

FairSpec == Spec /\ Fairness

-----------------------------------------------------------------------------
(* Properties.                                                             *)

\* What the rings hold: the entry of each place in a receive ring, and of each
\* descriptor between clean_index and tx_index in a transmit ring.
RxPlaces == {<<"rx", q, i>> : q \in RxId, i \in Ring}
TxPlaces == UNION {{<<"tx", q, k>> : k \in DOMAIN tx[q].bufs_in_use} : q \in TxId}
EntryAt(place) == IF place[1] = "rx" THEN rx[place[2]].bufs_in_use[place[3]]
                                     ELSE tx[place[2]].bufs_in_use[place[3]]

\* Every variable keeps to its type.
TypeOK ==
  /\ PoolTypeOK
  /\ rx \in [RxId -> [rx_index : Ring, RDT : Ring, RDH : Ring,
                      bufs_in_use : [Ring -> Entry]]]
  /\ \A q \in TxId :
       /\ {tx[q].clean_index, tx[q].tx_index, tx[q].TDH} \subseteq Ring
       /\ tx[q].bufs_in_use \in Seq(Entry)

\* No entry is lost and none has two owners, across all queues: not two places
\* of one ring, not a receive and a transmit ring, not a ring and the pool or
\* a packet.  So no drop ever panics, whichever queue an entry came through.
OneOwner ==
  /\ ~panicked
  /\ OwnedOnce({<<P, EntryAt(place)>> : place \in RxPlaces \cup TxPlaces})
  /\ \A x, y \in RxPlaces \cup TxPlaces : EntryAt(x) = EntryAt(y) => x = y

\* A receive queue whose card has run out of descriptors gets new ones, so that
\* no queue starves, although all buffers may be in the other queues or wait
\* behind the clean batch of a transmit queue.
RingsAreRefilled ==
  \A q \in RxId : (rx[q].RDH = rx[q].RDT) ~> (rx[q].RDH # rx[q].RDT)
=============================================================================
