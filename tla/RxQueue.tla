------------------------------- MODULE RxQueue -------------------------------
(***************************************************************************)
(* One receive queue of src/src/igb.rs, the packets it hands to the        *)
(* application, and the network card that fills its buffers.               *)
(*                                                                         *)
(* Every descriptor holds a buffer of the pool.  The card owns the         *)
(* descriptors from written_back up to the tail register RDT: it fetches   *)
(* their addresses, writes the frames that arrive into the buffers and     *)
(* overwrites the descriptors with their status.  receive_packets takes    *)
(* the buffers of done descriptors out of the ring, gives them to the      *)
(* callback, rearms each descriptor with a fresh buffer, and moves RDT     *)
(* once at the end.  The card and the application run between any two      *)
(* steps of receive_packets.                                               *)
(***************************************************************************)
EXTENDS MemPool, DescriptorRing

CONSTANTS
  RxPool,    \* the pool given to init (queue.pool)
  MaxNums,   \* bound: the largest packet_nums the application asks for
  EOP,       \* the values of the end-of-packet bit: {TRUE} if every frame
             \* fits into one buffer
  NoFrame    \* nothing was delivered yet

\* start_rx_queue fails with NoMemory when the pool has fewer entries than the
\* ring.
ASSUME RxAssumption ==
  /\ QS <= NumEntries
  /\ RxPool \in Pool
  /\ MaxNums \in Nat
  /\ EOP \subseteq BOOLEAN
  /\ NoFrame \notin Frame

VARIABLES
  descriptors,   \* the ring in memory: address, DD and EOP of each descriptor
  rx_index,      \* driver: the next descriptor to look at (queue.rx_index)
  bufs_in_use,   \* driver: the pool entry of each descriptor
  call,          \* the driver's call in progress
  rx_local,      \* receive_packets' local rx_index
  last_rx_index, \* receive_packets' last_rx_index
  remaining,     \* iterations that its loop has left
  RDT,           \* tail register, written by the driver
  RDH,           \* card: the next descriptor to fetch
  written_back,  \* card: the next descriptor to write back
  cached,        \* card: buffer addresses fetched, not filled
  delivered      \* the last frame given to the callback

driverVars ==
  <<rx_index, bufs_in_use, call, rx_local, last_rx_index, remaining, delivered>>
cardVars   == <<RDH, written_back, cached>>
vars       == <<poolVars, driverVars, cardVars, descriptors, RDT>>

-----------------------------------------------------------------------------
\* set_packet_address and reset_status: the descriptor is the card's to use.
Armed(b) == [addr |-> b, dd |-> FALSE, eop |-> FALSE]

\* Descriptor done.
can_recv == descriptors[rx_index].dd

\* After init_rx and start_rx_queue: the loop popped an entry for every
\* descriptor, and the ring starts out full.
Init ==
  /\ free_stack = [p \in Pool |->
       IF p = RxPool THEN [k \in 1 .. NumEntries - QS |-> k - 1]
                     ELSE [k \in 1 .. NumEntries |-> k - 1]]
  /\ held = {}
  /\ payload = [b \in Buffer |-> CHOOSE f \in Frame : TRUE]
  /\ panicked = FALSE
  /\ bufs_in_use = [i \in Ring |-> NumEntries - 1 - i]
  /\ descriptors = [i \in Ring |-> Armed(<<RxPool, bufs_in_use[i]>>)]
  /\ rx_index = 0 /\ rx_local = 0 /\ last_rx_index = 0 /\ remaining = 0
  /\ call = "idle"
  /\ RDT = QS - 1 /\ RDH = 0 /\ written_back = 0
  /\ cached = [i \in Ring |-> NoBuffer]
  /\ delivered = NoFrame

-----------------------------------------------------------------------------
(* The application's use of the pool, also inside the callback.            *)

Allocate ==
  /\ \E p \in Pool, f \in Frame : AllocPkt(p, f)
  /\ UNCHANGED <<driverVars, cardVars, descriptors, RDT>>

Free(b) ==
  /\ DropPkt(b)
  /\ UNCHANGED <<driverVars, cardVars, descriptors, RDT>>

Application == Allocate \/ \E b \in held : Free(b)

-----------------------------------------------------------------------------
(* receive_packets(queue_id, packet_nums, f).  It returns NotReady and     *)
(* changes nothing when the descriptor at rx_index is not done.            *)

ReceiveStart(packet_nums) ==
  /\ call = "idle" /\ ~panicked
  /\ can_recv
  /\ rx_local' = rx_index
  /\ last_rx_index' = rx_index
  /\ remaining' = packet_nums
  /\ call' = "receive"
  /\ UNCHANGED <<poolVars, rx_index, bufs_in_use, delivered, cardVars,
                 descriptors, RDT>>

\* The loop reads the descriptor and finds it done.
Iterating ==
  /\ call = "receive" /\ ~panicked
  /\ remaining > 0
  /\ descriptors[rx_local].dd

\* "Increase buffer size or decrease MTU".
EopPanic ==
  /\ Iterating
  /\ ~descriptors[rx_local].eop
  /\ panicked' = TRUE
  /\ UNCHANGED <<free_stack, held, payload, driverVars, cardVars, descriptors,
                 RDT>>

\* Fault: the filled entry stays in bufs_in_use, the fresh one is nowhere.
Take_unreplaced ==
  /\ Iterating
  /\ descriptors[rx_local].eop
  /\ CanAlloc(RxPool)
  /\ free_stack' = Popped(RxPool)
  /\ held' = held \cup {<<RxPool, bufs_in_use[rx_local]>>}
  /\ delivered' = payload[<<RxPool, bufs_in_use[rx_local]>>]
  /\ call' = "callback"
  /\ UNCHANGED <<payload, panicked, bufs_in_use, rx_index, rx_local,
                 last_rx_index, remaining, cardVars, descriptors, RDT>>

\* Fault: the packet is a copy of the pool's top, which is not popped.
Take_unpopped ==
  /\ Iterating
  /\ descriptors[rx_local].eop
  /\ CanAlloc(RxPool)
  /\ bufs_in_use' = [bufs_in_use EXCEPT ![rx_local] = Top(RxPool)[2]]
  /\ held' = held \cup {<<RxPool, bufs_in_use[rx_local]>>}
  /\ delivered' = payload[<<RxPool, bufs_in_use[rx_local]>>]
  /\ call' = "callback"
  /\ UNCHANGED <<free_stack, payload, panicked, rx_index, rx_local,
                 last_rx_index, remaining, cardVars, descriptors, RDT>>

\* A fresh entry replaces the filled one, which becomes a packet and goes to
\* the callback.
Take ==
  /\ Iterating
  /\ descriptors[rx_local].eop
  /\ CanAlloc(RxPool)
  /\ free_stack' = Popped(RxPool)
  /\ bufs_in_use' = [bufs_in_use EXCEPT ![rx_local] = Top(RxPool)[2]]
  /\ held' = held \cup {<<RxPool, bufs_in_use[rx_local]>>}
  /\ delivered' = payload[<<RxPool, bufs_in_use[rx_local]>>]
  /\ call' = "callback"
  /\ UNCHANGED <<payload, panicked, rx_index, rx_local, last_rx_index,
                 remaining, cardVars, descriptors, RDT>>

\* Fault: reset_status is not called.
Rearmed_not_reset(i) == [descriptors EXCEPT ![i].addr = <<RxPool, bufs_in_use[i]>>]

\* Fault: set_packet_address is not called; the address is what the card left.
Rearmed_no_address(i) == [descriptors EXCEPT ![i] = Armed(@.addr)]

\* The ring with descriptor i rearmed.
Rearmed(i) == [descriptors EXCEPT ![i] = Armed(<<RxPool, bufs_in_use[i]>>)]

\* Fault: last_rx_index is assigned after rx_index moved on.
Rearm_swapped ==
  /\ call = "callback" /\ ~panicked
  /\ descriptors' = Rearmed(rx_local)
  /\ last_rx_index' = wrap_ring(rx_local)
  /\ rx_local' = wrap_ring(rx_local)
  /\ remaining' = remaining - 1
  /\ call' = "receive"
  /\ UNCHANGED <<poolVars, rx_index, bufs_in_use, delivered, cardVars, RDT>>

\* After the callback: the descriptor gets the fresh buffer.
Rearm ==
  /\ call = "callback" /\ ~panicked
  /\ descriptors' = Rearmed(rx_local)
  /\ last_rx_index' = rx_local
  /\ rx_local' = wrap_ring(rx_local)
  /\ remaining' = remaining - 1
  /\ call' = "receive"
  /\ UNCHANGED <<poolVars, rx_index, bufs_in_use, delivered, cardVars, RDT>>

\* The loop ends: packet_nums packets were taken, the descriptor is not done,
\* or the pool is empty (NoMemory, which is only logged).
LoopEnds ==
  \/ remaining = 0
  \/ ~descriptors[rx_local].dd
  \/ descriptors[rx_local].eop /\ ~CanAlloc(RxPool)

\* Fault: RDT is moved one descriptor too far.
NewTail_too_far == rx_local

\* The descriptor that was rearmed last, which the card does not get yet.
NewTail == last_rx_index

\* RDT moves, once for the whole call, if any packet was taken.
ReceiveEnd ==
  /\ call = "receive" /\ ~panicked
  /\ LoopEnds
  /\ IF rx_local # last_rx_index
       THEN RDT' = NewTail /\ rx_index' = rx_local
       ELSE UNCHANGED <<RDT, rx_index>>
  /\ call' = "idle"
  /\ UNCHANGED <<poolVars, bufs_in_use, rx_local, last_rx_index, remaining,
                 delivered, cardVars, descriptors>>

-----------------------------------------------------------------------------
(* The network card.                                                       *)

\* It fetches a descriptor ahead of the frame that will fill its buffer.
CardFetch ==
  /\ RDH # RDT
  /\ cached' = [cached EXCEPT ![RDH] = descriptors[RDH].addr]
  /\ RDH' = (RDH + 1) % QS
  /\ UNCHANGED <<poolVars, driverVars, descriptors, RDT, written_back>>

\* A frame f arrives.  The card overwrites the address in the descriptor with
\* the result of the filters, and sets DD.
CardReceive(f, eop) ==
  LET b == cached[written_back] IN
  /\ written_back # RDH
  /\ payload' = IF b \in Buffer THEN [payload EXCEPT ![b] = f] ELSE payload
  /\ cached' = [cached EXCEPT ![written_back] = NoBuffer]
  /\ descriptors' = [descriptors EXCEPT
                       ![written_back] = [addr |-> NoBuffer, dd |-> TRUE, eop |-> eop]]
  /\ written_back' = (written_back + 1) % QS
  /\ UNCHANGED <<free_stack, held, panicked, driverVars, RDT, RDH>>

-----------------------------------------------------------------------------
Driver ==
  \/ \E n \in 0 .. MaxNums : ReceiveStart(n)
  \/ EopPanic \/ Take \/ Rearm \/ ReceiveEnd

Card == CardFetch \/ \E f \in Frame, eop \in EOP : CardReceive(f, eop)

Next == Application \/ Driver \/ Card

Spec == Init /\ [][Next]_vars
-----------------------------------------------------------------------------
(* Properties.                                                             *)

\* The descriptors that the card owns: not written back and before RDT.
OwnedByCard(i) == Distance(written_back, i) < Distance(written_back, RDT)

\* The buffer of a descriptor that the card owns: it may have fetched it.
CardBuffer(i) == IF cached[i] # NoBuffer THEN cached[i] ELSE descriptors[i].addr

\* The buffers in the ring.
RingBuffers == {<<RxPool, bufs_in_use[i]>> : i \in Ring}

\* The first descriptor whose frame was not given to the callback.
NextToDeliver ==
  CASE call = "idle"     -> rx_index
    [] call = "receive"  -> rx_local
    [] call = "callback" -> wrap_ring(rx_local)

\* Every variable keeps to its type: in particular the indices and registers
\* stay inside the ring.
TypeOK ==
  /\ PoolTypeOK
  /\ descriptors \in
       [Ring -> [addr : Buffer \cup {NoBuffer}, dd : BOOLEAN, eop : BOOLEAN]]
  /\ {rx_index, rx_local, last_rx_index, RDT, RDH, written_back} \subseteq Ring
  /\ bufs_in_use \in [Ring -> Entry]
  /\ remaining \in 0 .. MaxNums
  /\ call \in {"idle", "receive", "callback"}
  /\ call = "callback" => remaining > 0
  /\ cached \in [Ring -> Buffer \cup {NoBuffer}]
  /\ delivered \in Frame \cup {NoFrame}

\* The double-free check of free_buf never fires: the only panic is that of
\* receive_packets on a frame that does not fit into one buffer.
OnlyLongFramePanics ==
  panicked =>
    /\ call = "receive"
    /\ descriptors[rx_local].dd /\ ~descriptors[rx_local].eop

\* The card writes only to buffers that are in the ring, and for each
\* descriptor to the buffer that receive_packets will take from it.
DmaSafe ==
  \A i \in Ring : OwnedByCard(i) => CardBuffer(i) = <<RxPool, bufs_in_use[i]>>

\* No entry is lost and none has two owners: each one is on its free stack
\* once, or in a packet of the application, or in the ring once.
OneOwner == OwnedOnce(RingBuffers) /\ IsInjective(bufs_in_use)

\* receive_packets' index while it runs, and its first descriptor otherwise.
LocalIndex == IF call = "idle" THEN rx_index ELSE rx_local

\* How far a descriptor is from rx_index.
Offset(i) == Distance(rx_index, i)

\* The descriptor has a frame that receive_packets did not take yet, or whose
\* descriptor it did not rearm yet.
Waiting(i) ==
  Offset(LocalIndex) <= Offset(i) /\ Offset(i) < Offset(written_back)

\* RDT is the descriptor before rx_index, and the indices follow each other:
\* rearmed, received, fetched, up to RDT.  So the tail that receive_packets
\* writes never passes a descriptor that is not rearmed.
RingInOrder ==
  /\ wrap_ring(RDT) = rx_index
  /\ Offset(LocalIndex) <= Offset(written_back)
  /\ Offset(written_back) <= Offset(RDH)
  /\ call = "callback" => Offset(rx_local) < Offset(written_back)
  /\ call # "idle" => IF rx_local = rx_index
                         THEN last_rx_index = rx_index
                         ELSE wrap_ring(last_rx_index) = rx_local

\* The descriptors marked done are those that wait for receive_packets; every
\* other one has the address of its own entry, and so has the card's cache.
SlotsMatch ==
  \A i \in Ring :
    /\ descriptors[i].dd <=> Waiting(i)
    /\ ~Waiting(i) => descriptors[i].addr = <<RxPool, bufs_in_use[i]>>
    /\ cached[i] # NoBuffer =>
         /\ Offset(written_back) <= Offset(i) /\ Offset(i) < Offset(RDH)
         /\ cached[i] = <<RxPool, bufs_in_use[i]>>

Inv == TypeOK /\ OneOwner /\ RingInOrder /\ SlotsMatch /\ OnlyLongFramePanics

\* The frames received and not given to the callback, the oldest first.
PendingFrames ==
  [k \in 1 .. Distance(NextToDeliver, written_back) |->
     payload[<<RxPool, bufs_in_use[(NextToDeliver + k - 1) % QS]>>]]

Fifo == INSTANCE FrameFifo WITH
          Capacity <- QS - 1, queue <- PendingFrames, out <- delivered

-----------------------------------------------------------------------------
(* Liveness.  receive_packets runs to its end, and the application keeps   *)
(* polling it, asks for at least one packet again and again (strong        *)
(* fairness: it may ask for none in between), and keeps no packet forever. *)

Fairness ==
  /\ SF_vars(\E n \in 1 .. MaxNums : ReceiveStart(n))
  /\ WF_vars(Take) /\ WF_vars(Rearm) /\ WF_vars(ReceiveEnd)
  /\ WF_vars(CardFetch)
  /\ \A b \in Buffer : WF_vars(Free(b))

FairSpec == Spec /\ Fairness

\* Every frame that arrived is given to the callback, even if receive_packets
\* has to give up for want of memory in between.
RxIsFairFifo == Fifo!FairSpec
=============================================================================
