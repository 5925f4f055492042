------------------------------ MODULE PacketLife ------------------------------
(***************************************************************************)
(* The life of packets: MemPool::allocate, alloc_pkt and Packet of         *)
(* src/src/memory.rs, IgbNetBuf of src/src/igb.rs.                         *)
(*                                                                         *)
(* A packet is a handle: an entry of the pool, the offset of its first     *)
(* byte in the entry, and its length.  alloc_pkt leaves PACKET_HEADROOM    *)
(* bytes before the packet, and so does construct, which makes a packet of *)
(* an entry that was taken out of another one (pool_entry, then            *)
(* mem::forget); a received packet starts at the first byte of its entry,  *)
(* and if it is taken apart construct makes one of it that starts and ends *)
(* PACKET_HEADROOM bytes later.                                            *)
(* All of it is pointer arithmetic without a check, so this module keeps   *)
(* the byte ranges.                                                        *)
(***************************************************************************)
EXTENDS Integers, FiniteSetsExt, SequencesExt

CONSTANTS
  HUGE_PAGE_SIZE,    \* MemPool::allocate: entries divide it
  PACKET_HEADROOM,   \* bytes in front of a packet
  DefaultSize,       \* entry_size for the size 0
  CardBufferSize,    \* the most that the card writes to one buffer; the
                     \* driver does not program it (SRRCTL)
  NumEntries,        \* entries of the pool
  EntrySizes,        \* the sizes that the application may ask allocate for
  Length,            \* lengths of packets: those asked for, those received
  MaxPackets,        \* bound: packets at once
  Data,              \* what a packet may contain
  NoData,            \* anything else
  Receives,          \* whether packets are received from the network
  ConstructMax,      \* the application constructs packets again of received
                     \* ones up to this length: construct does not check it
  Usize              \* 2^w for the width w of usize

PacketAssumption ==
  /\ {HUGE_PAGE_SIZE, PACKET_HEADROOM, DefaultSize, NumEntries, Usize} \subseteq Nat \ {0}
  /\ ConstructMax \in Nat
  /\ EntrySizes \subseteq Nat /\ Length \subseteq Nat
  /\ NoData \notin Data
  /\ Receives \in BOOLEAN

VARIABLES
  entry_size,   \* of the pool; 0 before it is allocated
  free_stack,   \* the free entries
  packets,      \* the live packets: packets[h] for a handle h
  detached,     \* the packets that the application took apart: it keeps
                \* their entry and length
  memory,       \* memory[e]: the data in entry e and the offset it starts at
  written,      \* history: the data last written through the packet of e
  touched,      \* the bytes of an entry that were last written, from, to
  result        \* what the last call returned: "ok", "error" or "panic"

contents == <<memory, written, touched>>
vars     == <<entry_size, free_stack, packets, detached, contents, result>>

Entry  == 0 .. NumEntries - 1
Handle == 1 .. MaxPackets

\* netbuf: an IgbNetBuf, and not a bare Packet.
Packet ==
  [entry : Entry, offset : {0, PACKET_HEADROOM}, len : Length, netbuf : BOOLEAN]

Live == DOMAIN packets

\* The program goes on after a call unless it panicked.
Running == entry_size # 0 /\ result # "panic"

\* What is read at a packet.
DataOf(p) ==
  IF memory[p.entry].offset = p.offset THEN memory[p.entry].data ELSE NoData

Init ==
  /\ entry_size = 0
  /\ free_stack = << >>
  /\ packets = << >>
  /\ detached = {}
  /\ memory = [e \in Entry |-> [data |-> NoData, offset |-> 0]]
  /\ written = [e \in Entry |-> NoData]
  /\ touched = [from |-> 0, to |-> 0]
  /\ result = "ok"

-----------------------------------------------------------------------------
(* MemPool::allocate(entries, size).                                       *)

Divides(size) == HUGE_PAGE_SIZE % size = 0

\* An error if the size does not divide that of a page, which is
\* PageNotAligned; otherwise every entry is free.
Allocate(size) ==
  LET s == IF size = 0 THEN DefaultSize ELSE size IN
  /\ entry_size = 0
  /\ IF Divides(s)
       THEN /\ entry_size' = s
            /\ free_stack' = [k \in 1 .. NumEntries |-> k - 1]
            /\ result' = "ok"
       ELSE /\ result' = "error"
            /\ UNCHANGED <<entry_size, free_stack>>
  /\ UNCHANGED <<packets, detached, contents>>

-----------------------------------------------------------------------------
(* Making packets.                                                         *)

\* The live packets with p added, under the first handle that is not in use.
CanAdd == Live # Handle
Added(p) ==
  LET h == Min(Handle \ Live)
  IN  [k \in Live \cup {h} |-> IF k = h THEN p ELSE packets[k]]

\* The bytes of packet p become d; last is what was written through p.
Stored(p, d, last) ==
  /\ memory' = [memory EXCEPT ![p.entry] = [data |-> d, offset |-> p.offset]]
  /\ written' = [written EXCEPT ![p.entry] = last]
  /\ touched' = [from |-> p.offset, to |-> p.offset + p.len]

\* entry_size - PACKET_HEADROOM wraps around in a release build.
MaxSize == (entry_size - PACKET_HEADROOM) % Usize

\* Fault: the headroom is not taken off.
Fits_whole_entry(size) == size <= entry_size

\* The test of alloc_pkt.
Fits(size) == size <= MaxSize

\* The addresses that alloc_pkt and construct compute for entry e.
NewPacket(e, size, netbuf) ==
  [entry |-> e, offset |-> PACKET_HEADROOM, len |-> size, netbuf |-> netbuf]

\* Vec::pop.
Top    == Last(free_stack)
Popped == Front(free_stack)

\* alloc_pkt, or IgbNetBuf::alloc: None or NoMemory if the packet is too large
\* or no entry is free.  The application fills the packet.
AllocPkt(size, netbuf, d) ==
  /\ Running /\ CanAdd
  /\ IF Fits(size) /\ free_stack # << >>
       THEN /\ packets' = Added(NewPacket(Top, size, netbuf))
            /\ Stored(NewPacket(Top, size, netbuf), d, d)
            /\ free_stack' = Popped
            /\ result' = "ok"
       ELSE /\ result' = "error"
            /\ UNCHANGED <<packets, free_stack, contents>>
  /\ UNCHANGED <<entry_size, detached>>

\* Fault: the bytes are not copied.
CloneData_uncopied(p) == NoData

\* clone_from_slice.
CloneData(p) == DataOf(p)

\* A fresh entry.
CloneEntry(p) == Top

\* Packet::clone: alloc_pkt with the same length, and a copy of the bytes; it
\* panics, "no buffer available", if alloc_pkt returns None.
Clone(h) ==
  LET p == packets[h] IN
  /\ Running /\ CanAdd
  /\ ~p.netbuf
  /\ IF Fits(p.len) /\ free_stack # << >>
       THEN /\ packets' = Added(NewPacket(CloneEntry(p), p.len, FALSE))
            /\ Stored(NewPacket(CloneEntry(p), p.len, FALSE), CloneData(p),
                      written[p.entry])
            /\ free_stack' = Popped
            /\ result' = "ok"
       ELSE /\ result' = "panic"
            /\ UNCHANGED <<packets, free_stack, contents>>
  /\ UNCHANGED <<entry_size, detached>>

\* receive_packets, for one packet: the card wrote d to an entry, which becomes
\* a packet without headroom.  The ring's entries are nobody else's: here the
\* card takes one off the free stack.
Receive(len, d) ==
  LET p == [entry |-> Top, offset |-> 0, len |-> len, netbuf |-> TRUE] IN
  /\ Running /\ Receives /\ CanAdd
  /\ len <= CardBufferSize
  /\ free_stack # << >>
  /\ packets' = Added(p)
  /\ Stored(p, d, d)
  /\ free_stack' = Popped
  /\ result' = "ok"
  /\ UNCHANGED <<entry_size, detached>>

-----------------------------------------------------------------------------
(* Using packets.                                                          *)

\* as_mut_bytes, deref_mut, packet_mut.
Write(h, d) ==
  /\ Running
  /\ Stored(packets[h], d, d)
  /\ result' = "ok"
  /\ UNCHANGED <<entry_size, free_stack, packets, detached>>

\* headroom_mut(len), and a write to all of it: the bytes before the packet.
WriteHeadroom(h, len) ==
  LET p == packets[h] IN
  /\ Running
  /\ ~p.netbuf
  /\ IF len <= PACKET_HEADROOM
       THEN /\ touched' = [from |-> p.offset - len, to |-> p.offset]
            /\ result' = "ok"
       ELSE result' = "panic" /\ UNCHANGED touched
  /\ UNCHANGED <<entry_size, free_stack, packets, detached, memory, written>>

\* The live packets without h.
Removed(h) == [k \in Live \ {h} |-> packets[k]]

\* Drop for Packet, with the check of free_buf.
Drop(h) ==
  LET e == packets[h].entry IN
  /\ Running
  /\ IF e \in ToSet(free_stack)
       THEN result' = "panic" /\ UNCHANGED <<packets, free_stack>>
       ELSE /\ packets' = Removed(h)
            /\ free_stack' = Append(free_stack, e)
            /\ result' = "ok"
  /\ UNCHANGED <<entry_size, detached, contents>>

\* pool_entry and packet_len, then mem::forget: the application keeps the
\* numbers instead of the packet.
Detach(h) ==
  LET p == packets[h] IN
  /\ Running
  /\ p.netbuf
  /\ packets' = Removed(h)
  /\ detached' = detached \cup {p}
  /\ result' = "ok"
  /\ UNCHANGED <<entry_size, free_stack, contents>>

\* IgbNetBuf::construct(pool_entry, pool, len): the way back.  It does not ask
\* who has the entry; the application uses what it detached, once.  The bytes
\* stay where they are: of a received packet nothing was written through the new
\* one, which starts elsewhere.
Construct(p) ==
  /\ Running /\ CanAdd
  /\ p.offset = PACKET_HEADROOM \/ p.len <= ConstructMax
  /\ packets' = Added(NewPacket(p.entry, p.len, TRUE))
  /\ written' = [written EXCEPT ![p.entry] =
                   IF p.offset = PACKET_HEADROOM THEN @ ELSE NoData]
  /\ detached' = detached \ {p}
  /\ result' = "ok"
  /\ UNCHANGED <<entry_size, free_stack, memory, touched>>

-----------------------------------------------------------------------------
Next ==
  \/ \E size \in EntrySizes : Allocate(size)
  \/ \E len \in Length, netbuf \in BOOLEAN, d \in Data : AllocPkt(len, netbuf, d)
  \/ \E len \in Length, d \in Data : Receive(len, d)
  \/ \E p \in detached : Construct(p)
  \/ \E h \in Live :
       \/ Clone(h) \/ Drop(h) \/ Detach(h)
       \/ \E d \in Data : Write(h, d)
       \/ \E len \in {PACKET_HEADROOM, PACKET_HEADROOM + 1} : WriteHeadroom(h, len)

Spec == Init /\ [][Next]_vars

-----------------------------------------------------------------------------
(* Properties.                                                             *)

\* Every variable keeps to its type: in particular the size of entries divides
\* that of a page, so that no entry straddles two pages, whose physical
\* addresses need not follow each other.
TypeOK ==
  /\ entry_size = 0 \/ HUGE_PAGE_SIZE % entry_size = 0
  /\ free_stack \in Seq(Entry)
  /\ Live \subseteq Handle /\ \A h \in Live : packets[h] \in Packet
  /\ detached \subseteq Packet
  /\ memory \in [Entry -> [data : Data \cup {NoData}, offset : {0, PACKET_HEADROOM}]]
  /\ written \in [Entry -> Data \cup {NoData}]
  /\ result \in {"ok", "error", "panic"}

\* No write through a packet or its headroom, and none of the card, leaves the
\* entry: the next entry belongs to somebody else.
AccessInEntry == 0 <= touched.from /\ touched.to <= entry_size

\* What was written through a packet is read through it, until it is written
\* again: a clone has its own copy, and a packet of alloc_pkt that is put
\* together again has the bytes of the one that was taken apart.  One that was
\* received has not, see ConstructGivesBack.
ReadsBack == \A h \in Live : DataOf(packets[h]) = written[packets[h].entry]

-----------------------------------------------------------------------------
(* What a comment states and the code does not do: no configuration checks *)
(* it; see the README for the constants that show it.                      *)

\* "Returns None if the requested packet size exceeds the maximum size for that
\* pool": a packet that was made ends inside its entry.
TooLargeIsRefused ==
  \A h \in Live : packets[h].offset + packets[h].len <= entry_size

\* "Construct a [`IgbNetBuf`] from specified pool entry and pool" (igb.rs:113):
\* it has the bytes of the packet that was taken apart.
ConstructGivesBack ==
  \A p \in detached : DataOf(NewPacket(p.entry, p.len, TRUE)) = written[p.entry]

\* "Panics if size is not a divisor of the page size."
AllocatePanics == entry_size = 0 => result # "error"
=============================================================================
