------------------------------- MODULE RxOrder -------------------------------
(***************************************************************************)
(* receive_packets of src/src/igb.rs, store by store, on a processor whose *)
(* stores reach the card late and perhaps out of order.                    *)
(*                                                                         *)
(* Three kinds of stores race: the address and the status of a descriptor  *)
(* that is rearmed, RDT, which gives descriptors to the card, and what the *)
(* application writes to a packet before it drops it, since the entry may  *)
(* become the next receive buffer.  Loads are taken to be in order.        *)
(***************************************************************************)
EXTENDS StoreBuffer, DescriptorRing

CONSTANTS
  NumEntries,   \* entries of the pool
  Frame,        \* the frames that arrive
  NoFrame       \* any other contents of a buffer

RxOrderAssumption ==
  NumEntries \in Nat /\ NumEntries > QS /\ NoFrame \notin Frame

VARIABLES
  rx_index,            \* driver: see RxQueue
  bufs_in_use,         \* driver: the entry of each descriptor
  free, held,          \* entries in the pool, entries in packets
  RDH, written_back,   \* card: see RxQueue
  cached,              \* card: the address fetched from each descriptor
  delivered,           \* the last frame given to the callback
  pending              \* history: the frames received and not delivered

driverVars == <<rx_index, bufs_in_use, free, held, delivered>>
cardVars   == <<RDH, written_back, cached>>
vars       == <<mem, stores, driverVars, cardVars, pending>>

Entry   == 0 .. NumEntries - 1
NoEntry == NumEntries

\* All that the driver and the card share.
Place == (Ring \X {"addr", "sta"}) \cup (Entry \X {"payload"}) \cup {<<"RDT">>}

\* After start_rx_queue, when its stores have arrived: wait_set_reg32 has
\* polled the card since.
Init ==
  /\ mem = [p \in Place |-> CASE p = <<"RDT">> -> QS - 1
                              [] p \in Ring \X {"addr"} -> p[1]
                              [] p \in Ring \X {"sta"} -> "clear"
                              [] OTHER -> NoFrame]
  /\ stores = << >>
  /\ rx_index = 0 /\ bufs_in_use = [i \in Ring |-> i]
  /\ free = QS .. NumEntries - 1 /\ held = {}
  /\ RDH = 0 /\ written_back = 0
  /\ cached = [i \in Ring |-> NoEntry]
  /\ delivered = NoFrame
  /\ pending = << >>

-----------------------------------------------------------------------------
(* The driver and the application.                                         *)

\* Fault: reset_status is not called.
RearmStores_not_reset(i, b) ==
  <<Store(<<i, "addr">>, b), Store(<<"RDT">>, i)>>

\* set_packet_address, reset_status, and RDT at the end of the call.
RearmStores(i, b) ==
  <<Store(<<i, "addr">>, b), Store(<<i, "sta">>, "clear"), Store(<<"RDT">>, i)>>

\* receive_packets for one packet: a fresh entry b replaces the filled one,
\* which goes to the callback.
Receive(b) ==
  /\ Load(<<rx_index, "sta">>) = "done"
  /\ delivered' = Load(<<bufs_in_use[rx_index], "payload">>)
  /\ held' = held \cup {bufs_in_use[rx_index]}
  /\ free' = free \ {b}
  /\ bufs_in_use' = [bufs_in_use EXCEPT ![rx_index] = b]
  /\ stores' = stores \o RearmStores(rx_index, b)
  /\ rx_index' = wrap_ring(rx_index)
  /\ pending' = SubSeq(pending, 2, Len(pending))
  /\ UNCHANGED <<mem, cardVars>>

\* The application writes to its packet and drops it.
WriteAndDrop(b) ==
  /\ stores' = Append(stores, Store(<<b, "payload">>, NoFrame))
  /\ held' = held \ {b}
  /\ free' = free \cup {b}
  /\ UNCHANGED <<mem, rx_index, bufs_in_use, delivered, cardVars, pending>>

-----------------------------------------------------------------------------
(* The card.                                                               *)

CardFetch ==
  /\ RDH # mem[<<"RDT">>]
  /\ cached' = [cached EXCEPT ![RDH] = mem[<<RDH, "addr">>]]
  /\ RDH' = (RDH + 1) % QS
  /\ UNCHANGED <<mem, stores, driverVars, written_back, pending>>

\* A frame f arrives: the card writes the buffer, then the descriptor, whose
\* address it overwrites.
CardReceive(f) ==
  LET i == written_back IN
  /\ i # RDH
  /\ mem' = [p \in Place |-> CASE p = <<cached[i], "payload">> -> f
                               [] p = <<i, "sta">> -> "done"
                               [] p = <<i, "addr">> -> NoEntry
                               [] OTHER -> mem[p]]
  /\ written_back' = (i + 1) % QS
  /\ pending' = Append(pending, f)
  /\ UNCHANGED <<stores, driverVars, RDH, cached>>

-----------------------------------------------------------------------------
StoreArrives == Drain /\ UNCHANGED <<driverVars, cardVars, pending>>

Next ==
  \/ \E b \in free : Receive(b)
  \/ \E b \in held : WriteAndDrop(b)
  \/ StoreArrives
  \/ CardFetch \/ \E f \in Frame : CardReceive(f)

Spec == Init /\ [][Next]_vars

-----------------------------------------------------------------------------
(* Properties.                                                             *)

\* Every variable keeps to its type: in particular the frames that wait are
\* those between the driver's index and the card's.
TypeOK ==
  /\ DOMAIN mem = Place
  /\ \A k \in DOMAIN stores : stores[k].place \in Place
  /\ {rx_index, RDH, written_back, mem[<<"RDT">>]} \subseteq Ring
  /\ bufs_in_use \in [Ring -> Entry] /\ IsInjective(bufs_in_use)
  /\ free \subseteq Entry /\ held \subseteq Entry
  /\ cached \in [Ring -> Entry \cup {NoEntry}]
  /\ delivered \in Frame \cup {NoFrame}
  /\ pending \in Seq(Frame) /\ Len(pending) = Distance(rx_index, written_back)

Fifo == INSTANCE FrameFifo WITH
          Capacity <- QS - 1, queue <- pending, out <- delivered

\* "Receives packet_nums RxBuffer from network": the callback sees the frames
\* that arrived, in that order, and no late store of a former owner of the
\* buffer or of a former lap of the ring changes them.
RxIsFifo == Fifo!Spec
=============================================================================
