----------------------------- MODULE Descriptors -----------------------------
(***************************************************************************)
(* The two descriptor formats of src/src/descriptor.rs, bit by bit.        *)
(*                                                                         *)
(* The queue models have a descriptor as a record of its fields.  Here one *)
(* receive and one transmit descriptor are words: a word is the set of its *)
(* bits that are 1.  The driver writes them in one format (read), the card *)
(* overwrites them in another (write back), and the driver reads fields    *)
(* out of that; nothing in the memory tells the formats apart.             *)
(***************************************************************************)
EXTENDS Integers

CONSTANTS
  Address,     \* physical addresses of buffers, as words
  Length       \* lengths of frames to send (usize), as words

DescriptorsAssumption ==
  /\ \A a \in Address : a # {} /\ a \subseteq 0 .. 63
  /\ \A len \in Length : len \subseteq 0 .. 63

VARIABLES
  rx,          \* the two quad words: packet_buffer_address, header_buffer_address
  rx_address,  \* history: the buffer that the driver gave to the card
  rx_fetched,  \* the address that the card last fetched, if any (a set)
  rx_written,  \* history: what the card reported, if anything (a set)
  tx,          \* the fields of the transmit descriptor
  tx_given,    \* history: the packet that was given to send
  tx_state     \* history: "idle", "given", "done"

rxVars == <<rx, rx_address, rx_fetched, rx_written>>
txVars == <<tx, tx_given, tx_state>>

\* A shift to the left, the casts to u8, u16 and u32, and get_bits(from..to).
Shifted(w, by) == {b + by : b \in w}
As(width, w) == w \cap (0 .. width - 1)
get_bits(w, from, to) == {b - from : b \in w \cap (from .. to - 1)}

\* Both descriptors after init.
Init ==
  /\ rx = [lo |-> {}, hi |-> {}]
  /\ rx_address = {} /\ rx_fetched = {} /\ rx_written = {}
  /\ tx = [addr |-> {}, data_len |-> {}, dtyp |-> {}, dcmd |-> {}, sta |-> {}]
  /\ tx_given = [addr |-> {}, len |-> {}] /\ tx_state = "idle"

-----------------------------------------------------------------------------
(* The receive descriptor: the driver.                                     *)

RX_STATUS_DD == {0}
RX_STATUS_EOP == {1}

\* get_ext_status and the tests on it.
get_ext_status == get_bits(rx.hi, 0, 19)
descriptor_done == get_ext_status \cap RX_STATUS_DD # {}
end_of_packet == get_ext_status \cap RX_STATUS_EOP # {}

\* The other readers; length is get_pkt_len, and get_fdf_id is get_rss_hash.
get_rss_type == get_bits(rx.lo, 0, 3)
get_packet_type == get_bits(rx.lo, 4, 16)
get_rsccnt == get_bits(rx.lo, 17, 20)
get_hdr_len == get_bits(rx.lo, 21, 30)
get_rss_hash == get_bits(rx.lo, 32, 63)
get_ext_error == get_bits(rx.hi, 20, 31)
get_pkt_len == get_bits(rx.hi, 32, 47)
get_vlan_tag == get_bits(rx.hi, 48, 63)

\* Fault: reset_status leaves the word alone.
reset_status_kept(d) == d

\* set_packet_address and reset_status.
set_packet_address(d, a) == [d EXCEPT !.lo = a]
reset_status(d) == [d EXCEPT !.hi = {}]

\* start_rx_queue, and receive_packets for a descriptor that is done.
Arm(a) ==
  /\ rx_address = {} \/ descriptor_done
  /\ rx' = reset_status(set_packet_address(rx, a))
  /\ rx_address' = a
  /\ rx_written' = {}
  /\ UNCHANGED rx_fetched

-----------------------------------------------------------------------------
(* The receive descriptor: the card.                                       *)

\* A descriptor that the card has filled is not fetched again before its tail
\* has passed, which RxQueue models.
CardFetch ==
  /\ rx_written = {}
  /\ rx_fetched' = {rx.lo}
  /\ UNCHANGED <<rx, rx_address, rx_written>>

\* The fields of a descriptor that was written back, as the masks of
\* constants.rs have them: word, first and last bit.
Field ==
  [rss_type   |-> <<"lo", 0, 3>>,   packet_type |-> <<"lo", 4, 15>>,
   rsccnt     |-> <<"lo", 17, 20>>, hdr_len     |-> <<"lo", 21, 30>>,
   rss_hash   |-> <<"lo", 32, 63>>, ext_status  |-> <<"hi", 0, 19>>,
   ext_error  |-> <<"hi", 20, 31>>, pkt_len     |-> <<"hi", 32, 47>>,
   vlan_tag   |-> <<"hi", 48, 63>>]

\* What is reported in a field that has every bit, and its most significant bit.
Top(f) == Field[f][3] - Field[f][2]
Ones(f) == 0 .. Top(f)

\* What the card may report: the status of a descriptor that is done, and of the
\* other fields one, all but one, none or all with all their bits.
Report ==
  LET Other == DOMAIN Field \ {"ext_status"}
      Full  == UNION {{{}, {f}, Other \ {f}, Other} : f \in Other}
  IN  {[f \in DOMAIN Field |-> IF f = "ext_status" THEN status
                              ELSE IF f \in full THEN Ones(f) ELSE {}] :
         full \in Full,
         status \in {RX_STATUS_DD, RX_STATUS_DD \cup RX_STATUS_EOP, Ones("ext_status")}}

\* The bits between the fields: one more of the packet type on some chips
\* (16), and that the header was split (31).
Gaps == {16, 31}

\* Write back: the fields at their places, and anything in between.
WriteBack(report, gaps) ==
  LET at(word) == UNION {Shifted(report[f], Field[f][2]) :
                           f \in {g \in DOMAIN Field : Field[g][1] = word}}
  IN  [lo |-> at("lo") \cup gaps, hi |-> at("hi")]

CardReceive(report, gaps) ==
  /\ rx_address # {} /\ rx_written = {}
  /\ rx_fetched = {rx_address}
  /\ rx' = WriteBack(report, gaps)
  /\ rx_written' = {report}
  /\ UNCHANGED <<rx_address, rx_fetched>>

-----------------------------------------------------------------------------
(* The transmit descriptor.                                                *)

TX_CMD_EOP == {0}
TX_CMD_IFCS == {1}
TX_CMD_RS == {3}
TX_CMD_DEXT == {5}
TX_DTYP_ADV == {4, 5}
TX_STATUS_DD == {0}

TX_PAYLEN_SHIFT == 46 - 32

\* Fault: the length is added to the status word of the lap before.
StatusWord_kept(len) == tx.sta \cup Shifted(len, TX_PAYLEN_SHIFT)

\* The status word that send writes: the payload length, and no DD.
StatusWord(len) == Shifted(len, TX_PAYLEN_SHIFT)

\* AdvancedTxDescriptor::send, called with packet.len() as u16.
Send(a, len) ==
  LET len16 == As(16, len)
  IN  /\ tx_state # "given"
      /\ tx' = [addr     |-> a,
                data_len |-> len16,
                dtyp     |-> TX_DTYP_ADV,
                sta      |-> StatusWord(len16),
                dcmd     |-> TX_CMD_DEXT \cup TX_CMD_RS \cup TX_CMD_IFCS \cup TX_CMD_EOP]
      /\ tx_given' = [addr |-> a, len |-> len]
      /\ tx_state' = "given"

\* The card has transmitted: the descriptor is its status, and the rest of it
\* holds anything.
CardTransmit(junk) ==
  /\ tx_state = "given"
  /\ tx' = [addr |-> junk, data_len |-> As(16, junk), dtyp |-> As(8, junk),
            dcmd |-> As(8, junk), sta |-> TX_STATUS_DD \cup (As(32, junk) \ (0 .. 3))]
  /\ tx_state' = "done"
  /\ UNCHANGED tx_given

\* What recycle_tx_buffers and wait_for_packet_tx test.
tx_done == As(8, tx.sta) \cap TX_STATUS_DD # {}

-----------------------------------------------------------------------------
RxStep ==
  \/ \E a \in Address : Arm(a)
  \/ CardFetch
  \/ \E report \in Report, gaps \in {{}, Gaps} : CardReceive(report, gaps)

TxStep ==
  \/ \E a \in Address, len \in Length : Send(a, len)
  \/ \E junk \in {{}, 0 .. 63} : CardTransmit(junk)

Next ==
  \/ RxStep /\ UNCHANGED txVars
  \/ TxStep /\ UNCHANGED rxVars

Spec == Init /\ [][Next]_<<rxVars, txVars>>

-----------------------------------------------------------------------------
(* Properties.                                                             *)

\* Every field keeps to its width.
TypeOK ==
  /\ rx.lo \subseteq 0 .. 63 /\ rx.hi \subseteq 0 .. 63
  /\ rx_written \subseteq Report
  /\ tx.addr \subseteq 0 .. 63 /\ tx.data_len \subseteq 0 .. 15
  /\ tx.dtyp \subseteq 0 .. 7 /\ tx.dcmd \subseteq 0 .. 7 /\ tx.sta \subseteq 0 .. 31
  /\ tx_state \in {"idle", "given", "done"}

\* What the readers return, field by field.
Read ==
  [rss_type |-> get_rss_type, packet_type |-> get_packet_type, rsccnt |-> get_rsccnt,
   hdr_len |-> get_hdr_len, rss_hash |-> get_rss_hash, ext_status |-> get_ext_status,
   ext_error |-> get_ext_error, pkt_len |-> get_pkt_len, vlan_tag |-> get_vlan_tag]

\* The driver sees a descriptor as done exactly if the card reported a frame
\* in it since it was armed.  Every reader then returns the field that it is
\* named for and no bit of a neighbour, whatever was in the two words before
\* and is next to the field: all of it but for its top bit, so that lengths
\* below 32768 are read as they are.
ReportIsRead ==
  /\ descriptor_done = (rx_written # {})
  /\ \A report \in rx_written :
       /\ end_of_packet = (RX_STATUS_EOP \subseteq report.ext_status)
       /\ \A f \in DOMAIN Field :
            /\ Read[f] \subseteq report[f]
            /\ report[f] \ Read[f] \subseteq {Top(f)}

\* The card finds in a transmit descriptor the packet that send was called
\* with, in both of the fields that carry its length, and no status or option
\* bits; the driver sees it as done when the card is, and not earlier.
PacketIsDescribed ==
  /\ tx_done = (tx_state = "done")
  /\ tx_state = "given" =>
       /\ tx.addr = tx_given.addr
       /\ tx.data_len = tx_given.len
       /\ get_bits(tx.sta, 14, 32) = tx_given.len
       /\ get_bits(tx.sta, 0, 14) = {}

-----------------------------------------------------------------------------
(* What a comment states and the code does not do: no configuration checks *)
(* it; see the README.                                                     *)

\* "the 16 bits of the VLAN tag are posted here" (descriptor.rs:147), and what
\* the comments on the other readers say: a field is read with all its bits.
FieldsAreRead == \A report \in rx_written : Read = report

\* "initialize to 0xff to prevent rogue memory accesses on premature dma
\* activation" (igb.rs:698): what the card fetches is the address of a buffer
\* or no address at all.
PrematureDmaIsHarmless == rx_fetched \subseteq Address \cup {0 .. 63}
=============================================================================
