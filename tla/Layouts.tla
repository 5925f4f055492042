------------------------------- MODULE Layouts --------------------------------
(***************************************************************************)
(* Two models of where data is laid out, side by side: in the card's       *)
(* registers (Registers) and in the entries of a pool (PacketLife).  They  *)
(* share no state.                                                         *)
(***************************************************************************)
EXTENDS Registers

CONSTANTS
  HUGE_PAGE_SIZE, PACKET_HEADROOM, DefaultSize, CardBufferSize, NumEntries,
  EntrySizes, Length, MaxPackets, Data, NoData, Receives, ConstructMax,
  Usize

VARIABLES
  entry_size, free_stack, packets, detached, memory, written, touched, result

packetVars == <<entry_size, free_stack, packets, detached, memory, written,
                touched, result>>

P == INSTANCE PacketLife

\* No access through a packet leaves its entry: see PacketLife.
AccessInEntry == P!AccessInEntry

\* What was written through a packet is read through it: see PacketLife.
PacketReadsBack == P!ReadsBack
=============================================================================
