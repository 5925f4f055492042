------------------------------- MODULE TxOrder -------------------------------
(***************************************************************************)
(* send and recycle_tx_buffers of src/src/igb.rs, store by store, on a     *)
(* processor whose stores reach the card late and perhaps out of order.    *)
(*                                                                         *)
(* TxQueue lets every store take effect at once.  Here send only puts its  *)
(* stores in the buffer: the packet's bytes, the five fields of the        *)
(* descriptor, and TDT.  A descriptor is complete when the card sees all   *)
(* of them; the card overwrites the descriptor when it reports it done, so *)
(* that nothing of an earlier lap can complete it.  Descriptor i carries   *)
(* buffer i: the pool plays no part here.                                  *)
(***************************************************************************)
EXTENDS StoreBuffer, DescriptorRing

CONSTANTS
  Frame,            \* the frames that are sent
  NoFrame,          \* what the card transmits from an incomplete descriptor
  TX_CLEAN_BATCH    \* descriptors that are cleaned at once

TxOrderAssumption ==
  NoFrame \notin Frame /\ TX_CLEAN_BATCH \in 1 .. QS - 1

VARIABLES
  tx_index, clean_index,   \* driver: see TxQueue
  TDH, written_back,       \* card: see TxQueue
  cached,                  \* card: the fetched descriptor was complete
  wire,                    \* the last frame transmitted
  pending                  \* history: the frames sent and not transmitted

driverVars == <<tx_index, clean_index>>
cardVars   == <<TDH, written_back, cached, wire>>
vars       == <<mem, stores, driverVars, cardVars, pending>>

\* The fields of a descriptor but the status, and all that the driver and the
\* card share.
Field == {"addr", "data_len", "dtyp", "dcmd"}
Place == (Ring \X (Field \cup {"sta", "payload"})) \cup {<<"TDT">>}

\* After init_tx and start_tx_queue.
Init ==
  /\ mem = [p \in Place |-> CASE p = <<"TDT">> -> 0
                              [] OTHER -> IF p[2] = "payload" THEN NoFrame ELSE "none"]
  /\ stores = << >>
  /\ tx_index = 0 /\ clean_index = 0
  /\ TDH = 0 /\ written_back = 0
  /\ cached = [i \in Ring |-> TRUE]
  /\ wire = NoFrame
  /\ pending = << >>

-----------------------------------------------------------------------------
(* The driver.                                                             *)

\* As in TxQueue.
can_send == wrap_ring(tx_index) # clean_index

\* AdvancedTxDescriptor::send.  The store of the payload length clears DD.
DescriptorStores(i) ==
  <<Store(<<i, "addr">>, "set"), Store(<<i, "data_len">>, "set"),
    Store(<<i, "dtyp">>, "set"), Store(<<i, "sta">>, "busy"),
    Store(<<i, "dcmd">>, "set")>>

\* Fault: TDT is written before the descriptor.
SendStores_tail_first(f) ==
  <<Store(<<tx_index, "payload">>, f), Store(<<"TDT">>, wrap_ring(tx_index))>>
  \o DescriptorStores(tx_index)

\* All stores of a packet: the application's through packet_mut, then send's.
SendStores(f) ==
  <<Store(<<tx_index, "payload">>, f)>>
  \o DescriptorStores(tx_index)
  \o <<Store(<<"TDT">>, wrap_ring(tx_index))>>

Send(f) ==
  /\ can_send
  /\ stores' = stores \o SendStores(f)
  /\ tx_index' = wrap_ring(tx_index)
  /\ pending' = Append(pending, f)
  /\ UNCHANGED <<mem, clean_index, cardVars>>

\* QueueFull: nothing is stored.
SendQueueFull ==
  /\ ~can_send
  /\ UNCHANGED vars

\* The last descriptor of the batch.
cleanup_to == (clean_index + TX_CLEAN_BATCH - 1) % QS

Outstanding == Distance(clean_index, tx_index)

\* recycle_tx_buffers, for one batch.
Recycle ==
  /\ Outstanding >= TX_CLEAN_BATCH
  /\ Load(<<cleanup_to, "sta">>) = "done"
  /\ clean_index' = wrap_ring(cleanup_to)
  /\ UNCHANGED <<mem, stores, tx_index, cardVars, pending>>

-----------------------------------------------------------------------------
(* The card.                                                               *)

CardFetch ==
  /\ TDH # mem[<<"TDT">>]
  /\ cached' = [cached EXCEPT ![TDH] = \A x \in Field : mem[<<TDH, x>>] = "set"]
  /\ TDH' = (TDH + 1) % QS
  /\ UNCHANGED <<mem, stores, driverVars, written_back, wire, pending>>

\* It reads the buffer and overwrites the descriptor.
CardTransmit ==
  LET i == written_back IN
  /\ i # TDH
  /\ wire' = IF cached[i] THEN mem[<<i, "payload">>] ELSE NoFrame
  /\ mem' = [p \in Place |-> CASE p = <<i, "sta">> -> "done"
                               [] p \in {i} \X Field -> "none"
                               [] OTHER -> mem[p]]
  /\ written_back' = (i + 1) % QS
  /\ pending' = SubSeq(pending, 2, Len(pending))
  /\ UNCHANGED <<stores, driverVars, TDH, cached>>

-----------------------------------------------------------------------------
StoreArrives == Drain /\ UNCHANGED <<driverVars, cardVars, pending>>

Next ==
  \/ \E f \in Frame : Send(f)
  \/ SendQueueFull
  \/ Recycle
  \/ StoreArrives
  \/ CardFetch \/ CardTransmit

Spec == Init /\ [][Next]_vars

-----------------------------------------------------------------------------
(* Properties.                                                             *)

\* Every variable keeps to its type: in particular the card never runs ahead
\* of the packets that were sent.
TypeOK ==
  /\ DOMAIN mem = Place
  /\ \A k \in DOMAIN stores : stores[k].place \in Place
  /\ {tx_index, clean_index, TDH, written_back, mem[<<"TDT">>]} \subseteq Ring
  /\ cached \in [Ring -> BOOLEAN]
  /\ wire \in Frame \cup {NoFrame}
  /\ pending \in Seq(Frame) /\ Len(pending) = Distance(written_back, tx_index)

Fifo == INSTANCE FrameFifo WITH
          Capacity <- QS - 1, queue <- pending, out <- wire

\* "Sends a TxBuffer to the network": the card transmits the frames that were
\* sent, as they were sent and in that order, however late the stores of the
\* packet, of its descriptor and of TDT reach it.
TxIsFifo == Fifo!Spec
=============================================================================
