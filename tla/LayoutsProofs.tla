---------------------------- MODULE LayoutsProofs ----------------------------
(***************************************************************************)
(* Theorems about the models of Layouts.  PacketLife: packets never reach  *)
(* out of their entries and keep the bytes that were written through them. *)
(* Registers: no register that is used lies on another, so that each holds *)
(* what the driver made of it, a mapping stays as it was made, and what    *)
(* was disabled stays masked.                                              *)
(***************************************************************************)
EXTENDS Layouts, WellFoundedInduction, SequenceTheorems, TLAPS

\* What the pool needs, and nothing checks: alloc_pkt subtracts the headroom from
\* the size of the entries, construct puts the headroom before a received packet
\* of any length, and the card is never told the size of the buffers.
RoomInEntries ==
  /\ P!PacketAssumption /\ CardBufferSize \in Nat
  /\ \A s \in EntrySizes \cup {DefaultSize} : s # 0 /\ P!Divides(s) =>
       /\ PACKET_HEADROOM + ConstructMax <= s /\ s < Usize
       /\ Receives => CardBufferSize <= s

-----------------------------------------------------------------------------
(* PacketLife: the inductive invariant.                                    *)

\* The variables but result.
Types ==
  /\ entry_size \in Nat /\ (entry_size = 0 \/ HUGE_PAGE_SIZE % entry_size = 0)
  /\ free_stack \in Seq(P!Entry)
  /\ P!Live \subseteq P!Handle /\ \A h \in P!Live : packets[h] \in P!Packet
  /\ detached \subseteq P!Packet
  /\ memory \in [P!Entry -> [data : Data \cup {NoData}, offset : {0, PACKET_HEADROOM}]]
  /\ written \in [P!Entry -> Data \cup {NoData}]

\* Packets end inside their entries and have a headroom unless the card filled
\* them; there are none before there is a pool.
Inside(p) == p.offset + p.len <= entry_size
Sized ==
  /\ entry_size # 0 => /\ PACKET_HEADROOM <= entry_size /\ entry_size < Usize
                       /\ PACKET_HEADROOM + ConstructMax <= entry_size
                       /\ Receives => CardBufferSize <= entry_size
  /\ \A h \in P!Live : /\ Inside(packets[h])
                       /\ packets[h].netbuf \/ packets[h].offset = PACKET_HEADROOM
  /\ \A p \in detached : Inside(p)
  /\ entry_size = 0 => P!Live = {} /\ detached = {} /\ touched = [from |-> 0, to |-> 0]

\* An entry is free, or of one packet, or of one that was taken apart.
Apart ==
  /\ P!IsInjective(free_stack)
  /\ \A h \in P!Live : packets[h].entry \notin P!ToSet(free_stack)
  /\ \A p \in detached : p.entry \notin P!ToSet(free_stack)
  /\ \A h, k \in P!Live : packets[h].entry = packets[k].entry => h = k
  /\ \A h \in P!Live, p \in detached : packets[h].entry # p.entry
  /\ \A p, q \in detached : p.entry = q.entry => p = q

\* The entry of a packet has what was last written through it, where the packet
\* starts, or nothing was, because construct moved it.
Known(p) ==
  \/ memory[p.entry] = [data |-> written[p.entry], offset |-> p.offset]
  \/ /\ p.offset = PACKET_HEADROOM /\ memory[p.entry].offset # p.offset
     /\ written[p.entry] = NoData
AllKnown == (\A h \in P!Live : Known(packets[h])) /\ \A p \in detached : Known(p)

PacketInv == Types /\ Sized /\ Apart /\ AllKnown /\ AccessInEntry

-----------------------------------------------------------------------------
(* PacketLife: handles and stacks.                                         *)

\* A set of numbers has a least one.
LEMMA LeastOf ==
  ASSUME NEW T \in SUBSET Nat, T # {}
  PROVE  P!Min(T) \in T
<1>1. PICK m \in T : \A k \in T : <<k, m>> \notin OpToRel(<, Nat)
  BY NatLessThanWellFounded, WFMin
<1>2. \A k \in T : m <= k
  <2>1. ASSUME NEW k \in T PROVE m <= k
    <3>1. ~(k < m) /\ k \in Nat /\ m \in Nat
      BY <1>1 DEF OpToRel
    <3> QED
      BY <3>1
  <2> QED
    BY <2>1
<1> QED
  BY <1>2 DEF P!Min

\* Added takes a handle that is not in use, and leaves the others alone.
LEMMA AddedOne ==
  ASSUME P!Live \subseteq P!Handle, P!CanAdd, NEW p, packets' = P!Added(p)
  PROVE  \E h \in P!Handle \ P!Live : /\ P!Live' = P!Live \cup {h} /\ packets'[h] = p
                                      /\ \A k \in P!Live : packets'[k] = packets[k]
<1> DEFINE h == P!Min(P!Handle \ P!Live)
<1>1. h \in P!Handle \ P!Live
  <2>1. P!Handle \ P!Live # {}
    BY DEF P!CanAdd
  <2>2. P!Handle \ P!Live \in SUBSET Nat
    BY DEF P!Handle
  <2> QED
    BY <2>1, <2>2, LeastOf
<1> HIDE DEF h
<1>2. packets' = [k \in P!Live \cup {h} |-> IF k = h THEN p ELSE packets[k]]
  BY DEF P!Added, h
<1>3. P!Live' = P!Live \cup {h}
  BY <1>2 DEF P!Live
<1>4. packets'[h] = p
  BY <1>2
<1>5. ASSUME NEW k \in P!Live PROVE packets'[k] = packets[k]
  <2>1. k # h
    BY <1>1
  <2> QED
    BY <2>1, <1>2
<1> QED
  BY <1>1, <1>3, <1>4, <1>5

\* Removed takes away one handle.
LEMMA RemovedOne ==
  ASSUME NEW h \in P!Live, packets' = P!Removed(h)
  PROVE  P!Live' = P!Live \ {h} /\ \A k \in P!Live \ {h} : packets'[k] = packets[k]
<1>1. packets' = [k \in P!Live \ {h} |-> packets[k]]
  BY DEF P!Removed
<1> QED
  BY <1>1 DEF P!Live

\* Writing through a packet changes its entry and no other.
LEMMA StoredOne ==
  ASSUME Types, NEW p \in P!Packet, NEW d \in Data \cup {NoData}, P!Stored(p, d, d)
  PROVE  /\ memory'[p.entry] = [data |-> d, offset |-> p.offset]
         /\ written'[p.entry] = d
         /\ \A e \in P!Entry : e # p.entry =>
              memory'[e] = memory[e] /\ written'[e] = written[e]
         /\ memory' \in [P!Entry -> [data : Data \cup {NoData}, offset : {0, PACKET_HEADROOM}]]
         /\ written' \in [P!Entry -> Data \cup {NoData}]
<1>1. p.entry \in P!Entry /\ p.offset \in {0, PACKET_HEADROOM}
  BY DEF P!Packet
<1>2. [data |-> d, offset |-> p.offset]
        \in [data : Data \cup {NoData}, offset : {0, PACKET_HEADROOM}]
  BY <1>1
<1>3. /\ memory' = [memory EXCEPT ![p.entry] = [data |-> d, offset |-> p.offset]]
      /\ written' = [written EXCEPT ![p.entry] = d]
  BY DEF P!Stored
<1> QED
  BY <1>1, <1>2, <1>3 DEF Types

\* The elements of a sequence of S.
LEMMA ElementsOf ==
  ASSUME NEW S, NEW s \in Seq(S)
  PROVE  /\ Len(s) \in Nat
         /\ P!ToSet(s) = {s[i] : i \in 1 .. Len(s)}
         /\ P!ToSet(s) \subseteq S
         /\ P!IsInjective(s) <=>
              \A i, j \in 1 .. Len(s) : s[i] = s[j] => i = j
BY LenProperties, ElementOfSeq DEF P!ToSet, P!IsInjective

\* Vec::pop: the stack loses its top, which was on it once.
LEMMA PoppedOne ==
  ASSUME NEW S, NEW s \in Seq(S), s # << >>
  PROVE  /\ P!Front(s) \in Seq(S) /\ P!Last(s) \in S
         /\ P!Last(s) \in P!ToSet(s) /\ P!ToSet(P!Front(s)) \subseteq P!ToSet(s)
         /\ P!IsInjective(s) => P!IsInjective(P!Front(s)) /\ P!Last(s) \notin P!ToSet(P!Front(s))
<1>1. PICK n \in Nat : Len(s) = n + 1
  <2>1. Len(s) \in Nat \ {0}
    BY EmptySeq, LenProperties
  <2>2. Len(s) - 1 \in Nat /\ Len(s) = (Len(s) - 1) + 1
    BY <2>1
  <2> QED
    BY <2>2
<1>2. \A i \in 1 .. n + 1 : s[i] \in S
  BY <1>1, ElementOfSeq
<1>3. /\ P!Front(s) \in Seq(S) /\ Len(P!Front(s)) = n
      /\ \A i \in 1 .. n : P!Front(s)[i] = s[i]
  <2>1. P!Front(s) = SubSeq(s, 1, n)
    BY <1>1 DEF P!Front
  <2>2. \A i \in 1 .. n : s[i] \in S
    BY <1>2
  <2>3. /\ SubSeq(s, 1, n) \in Seq(S)
        /\ Len(SubSeq(s, 1, n)) = IF 1 <= n THEN n - 1 + 1 ELSE 0
        /\ \A i \in 1 .. n - 1 + 1 : SubSeq(s, 1, n)[i] = s[1 + i - 1]
    BY <2>2, SubSeqProperties
  <2>4. \A i \in 1 .. n : i \in 1 .. n - 1 + 1 /\ 1 + i - 1 = i
    OBVIOUS
  <2>5. Len(SubSeq(s, 1, n)) = n
    BY <2>3
  <2> QED
    BY <2>1, <2>3, <2>4, <2>5
<1>4. P!Last(s) = s[n + 1] /\ n + 1 \in 1 .. n + 1
  BY <1>1 DEF P!Last
<1>5. /\ P!ToSet(s) = {s[i] : i \in 1 .. n + 1}
      /\ P!ToSet(P!Front(s)) = {s[i] : i \in 1 .. n}
  <2>1. P!ToSet(s) = {s[i] : i \in 1 .. n + 1}
    BY <1>1, ElementsOf
  <2>2. P!ToSet(P!Front(s)) = {P!Front(s)[i] : i \in 1 .. n}
    BY <1>3, ElementsOf
  <2> QED
    BY <2>1, <2>2, <1>3
<1>6. ASSUME P!IsInjective(s)
      PROVE  P!IsInjective(P!Front(s)) /\ P!Last(s) \notin P!ToSet(P!Front(s))
  <2>1. \A i, j \in 1 .. n + 1 : s[i] = s[j] => i = j
    BY <1>1, <1>6, ElementsOf
  <2>2. \A i, j \in 1 .. n : P!Front(s)[i] = P!Front(s)[j] => i = j
    BY <2>1, <1>3
  <2>3. P!IsInjective(P!Front(s))
    <3>1. P!IsInjective(P!Front(s)) <=>
            \A i, j \in 1 .. Len(P!Front(s)) : P!Front(s)[i] = P!Front(s)[j] => i = j
      BY <1>3, ElementsOf
    <3> QED
      BY <3>1, <2>2, <1>3
  <2>4. \A i \in 1 .. n : s[i] # s[n + 1]
    BY <2>1, <1>4
  <2> QED
    BY <2>3, <2>4, <1>4, <1>5
<1>7. P!ToSet(P!Front(s)) \subseteq P!ToSet(s) /\ P!Last(s) \in P!ToSet(s)
  BY <1>4, <1>5
<1> QED
  BY <1>2, <1>3, <1>4, <1>6, <1>7

\* Vec::push of what is not on the stack.
LEMMA PushedOne ==
  ASSUME NEW S, NEW s \in Seq(S), NEW e \in S
  PROVE  /\ Append(s, e) \in Seq(S) /\ P!ToSet(Append(s, e)) = P!ToSet(s) \cup {e}
         /\ P!IsInjective(s) /\ e \notin P!ToSet(s) => P!IsInjective(Append(s, e))
<1>1. PICK n \in Nat : Len(s) = n
  BY LenProperties
<1>2. /\ Append(s, e) \in Seq(S) /\ Len(Append(s, e)) = n + 1
      /\ \A i \in 1 .. n : Append(s, e)[i] = s[i]
      /\ Append(s, e)[n + 1] = e
  BY <1>1, AppendProperties
<1>3. P!ToSet(s) = {s[i] : i \in 1 .. n}
  BY <1>1, ElementsOf
<1>4. P!ToSet(Append(s, e)) = {Append(s, e)[i] : i \in 1 .. n + 1}
  BY <1>2, ElementsOf
<1>5. \A i \in 1 .. n + 1 : i \in 1 .. n \/ i = n + 1
  OBVIOUS
<1>6. P!ToSet(Append(s, e)) = P!ToSet(s) \cup {e}
  <2>1. P!ToSet(Append(s, e)) \subseteq P!ToSet(s) \cup {e}
    BY <1>2, <1>3, <1>4, <1>5
  <2>2. P!ToSet(s) \cup {e} \subseteq P!ToSet(Append(s, e))
    <3>1. \A i \in 1 .. n : i \in 1 .. n + 1
      OBVIOUS
    <3>2. n + 1 \in 1 .. n + 1
      OBVIOUS
    <3> QED
      BY <3>1, <3>2, <1>2, <1>3, <1>4
  <2> QED
    BY <2>1, <2>2
<1>7. ASSUME P!IsInjective(s), e \notin P!ToSet(s) PROVE P!IsInjective(Append(s, e))
  <2>1. \A i, j \in 1 .. n : s[i] = s[j] => i = j
    BY <1>1, <1>7, ElementsOf
  <2>2. \A i \in 1 .. n : s[i] # e
    BY <1>3, <1>7
  <2>3. \A i, j \in 1 .. n + 1 : Append(s, e)[i] = Append(s, e)[j] => i = j
    BY <2>1, <2>2, <1>2, <1>5
  <2>4. P!IsInjective(Append(s, e)) <=>
          \A i, j \in 1 .. n + 1 : Append(s, e)[i] = Append(s, e)[j] => i = j
    BY <1>2, ElementsOf
  <2> QED
    BY <2>3, <2>4
<1> QED
  BY <1>2, <1>6, <1>7
-----------------------------------------------------------------------------
(* PacketLife: what the calls come to.                                     *)

\* The calls that make a packet of the top of the stack: it ends inside its
\* entry, and its bytes are what was last written through it.
Makes(p, d) ==
  /\ entry_size # 0 /\ free_stack # << >> /\ P!CanAdd
  /\ p \in P!Packet /\ p.entry = P!Top /\ Inside(p)
  /\ p.netbuf \/ p.offset = PACKET_HEADROOM
  /\ d \in Data \cup {NoData}
  /\ packets' = P!Added(p) /\ P!Stored(p, d, d) /\ free_stack' = P!Popped
  /\ UNCHANGED <<entry_size, detached>>

Rewrites(h, d) ==
  /\ h \in P!Live /\ d \in Data
  /\ P!Stored(packets[h], d, d)
  /\ UNCHANGED <<entry_size, free_stack, packets, detached>>

\* A write that is in the entry and not in what memory keeps.
Touches ==
  /\ entry_size # 0 /\ AccessInEntry'
  /\ UNCHANGED <<entry_size, free_stack, packets, detached, memory, written>>

Drops(h) ==
  /\ h \in P!Live /\ packets[h].entry \notin P!ToSet(free_stack)
  /\ packets' = P!Removed(h)
  /\ free_stack' = Append(free_stack, packets[h].entry)
  /\ UNCHANGED <<entry_size, detached, P!contents>>

Detaches(h) ==
  /\ h \in P!Live
  /\ packets' = P!Removed(h) /\ detached' = detached \cup {packets[h]}
  /\ UNCHANGED <<entry_size, free_stack, P!contents>>

Constructs(p) ==
  /\ p \in detached /\ P!CanAdd /\ entry_size # 0
  /\ p.offset = PACKET_HEADROOM \/ p.len <= ConstructMax
  /\ packets' = P!Added(P!NewPacket(p.entry, p.len, TRUE)) /\ detached' = detached \ {p}
  /\ written' = [written EXCEPT ![p.entry] =
                   IF p.offset = PACKET_HEADROOM THEN @ ELSE NoData]
  /\ UNCHANGED <<entry_size, free_stack, memory, touched>>

Allocates(s) ==
  /\ entry_size = 0 /\ s \in EntrySizes \cup {DefaultSize} /\ s # 0 /\ P!Divides(s)
  /\ entry_size' = s /\ free_stack' = [k \in 1 .. NumEntries |-> k - 1]
  /\ UNCHANGED <<packets, detached, P!contents>>

\* What fits into an entry behind the headroom ends inside it.
LEMMA FitsInside ==
  ASSUME RoomInEntries, PacketInv, entry_size # 0, NEW size \in Length, P!Fits(size)
  PROVE  size \in Nat /\ PACKET_HEADROOM \in Nat /\ PACKET_HEADROOM + size <= entry_size
<1>1. /\ entry_size \in Nat /\ PACKET_HEADROOM \in Nat /\ Usize \in Nat \ {0} /\ size \in Nat
      /\ PACKET_HEADROOM <= entry_size /\ entry_size < Usize
  BY DEF RoomInEntries, P!PacketAssumption, PacketInv, Types, Sized
<1>2. entry_size - PACKET_HEADROOM \in Nat /\ entry_size - PACKET_HEADROOM < Usize
  BY <1>1
<1>3. \A a, n \in Nat : a < n => a % n = a
  OBVIOUS
<1>4. P!MaxSize = entry_size - PACKET_HEADROOM
  BY <1>1, <1>2, <1>3 DEF P!MaxSize
<1> QED
  BY <1>1, <1>4 DEF P!Fits

\* The top of the stack is an entry.
LEMMA TopEntry ==
  ASSUME Types, free_stack # << >>
  PROVE  P!Top \in P!Entry
BY PoppedOne DEF Types, P!Top

\* Every call comes to one of these, or it fails.
LEMMA CallsComeTo ==
  ASSUME RoomInEntries, PacketInv, P!Next
  PROVE  \/ \E s : Allocates(s)
         \/ \E p, d : Makes(p, d)
         \/ \E h, d : Rewrites(h, d)
         \/ Touches
         \/ \E h : Drops(h) \/ Detaches(h)
         \/ \E p : Constructs(p)
         \/ UNCHANGED <<entry_size, free_stack, packets, detached, P!contents>>
<1>1. ASSUME NEW size \in EntrySizes, P!Allocate(size)
      PROVE  \/ \E s : Allocates(s)
             \/ UNCHANGED <<entry_size, free_stack, packets, detached, P!contents>>
  <2> DEFINE s == IF size = 0 THEN DefaultSize ELSE size
  <2>1. s \in EntrySizes \cup {DefaultSize} /\ s # 0
    BY DEF RoomInEntries, P!PacketAssumption
  <2>2. CASE P!Divides(s)
    BY <2>1, <2>2, <1>1 DEF P!Allocate, Allocates
  <2>3. CASE ~P!Divides(s)
    BY <2>3, <1>1 DEF P!Allocate
  <2> QED
    BY <2>2, <2>3
<1>2. ASSUME NEW len \in Length, NEW netbuf \in BOOLEAN, NEW d \in Data,
             P!AllocPkt(len, netbuf, d)
      PROVE  \/ Makes(P!NewPacket(P!Top, len, netbuf), d)
             \/ UNCHANGED <<entry_size, free_stack, packets, detached, P!contents>>
  <2>1. CASE P!Fits(len) /\ free_stack # << >>
    <3> DEFINE p == P!NewPacket(P!Top, len, netbuf)
    <3>1. P!Top \in P!Entry
      BY <2>1, TopEntry DEF PacketInv
    <3>2. /\ p \in P!Packet /\ p.entry = P!Top /\ p.offset = PACKET_HEADROOM /\ p.len = len
      BY <3>1 DEF P!NewPacket, P!Packet
    <3>3. entry_size # 0
      BY <1>2 DEF P!AllocPkt, P!Running
    <3>4. Inside(p)
      BY <2>1, <3>2, <3>3, FitsInside DEF Inside
    <3> QED
      BY <2>1, <3>2, <3>3, <3>4, <1>2 DEF P!AllocPkt, Makes
  <2>2. CASE ~(P!Fits(len) /\ free_stack # << >>)
    BY <2>2, <1>2 DEF P!AllocPkt
  <2> QED
    BY <2>1, <2>2
<1>3. ASSUME NEW len \in Length, NEW d \in Data, P!Receive(len, d)
      PROVE  \E p : Makes(p, d)
  <2> DEFINE p == [entry |-> P!Top, offset |-> 0, len |-> len, netbuf |-> TRUE]
  <2>1. P!Top \in P!Entry /\ free_stack # << >> /\ entry_size # 0 /\ Receives
    BY <1>3, TopEntry DEF P!Receive, P!Running, PacketInv
  <2>2. p \in P!Packet
    BY <2>1 DEF P!Packet
  <2>3. Inside(p)
    <3>1. len <= CardBufferSize /\ CardBufferSize <= entry_size
      BY <1>3, <2>1 DEF P!Receive, PacketInv, Sized
    <3>2. len \in Nat /\ CardBufferSize \in Int /\ entry_size \in Nat
      <4>1. CardBufferSize \in Int
        BY DEF RoomInEntries
      <4> QED
        BY <4>1 DEF RoomInEntries, P!PacketAssumption, PacketInv, Types
    <3>3. p.offset + p.len = len
      BY <3>2
    <3> QED
      BY <3>1, <3>2, <3>3 DEF Inside
  <2> QED
    BY <1>3, <2>1, <2>2, <2>3 DEF P!Receive, Makes
<1>4. ASSUME NEW h \in P!Live, P!Clone(h)
      PROVE  \/ \E p, d : Makes(p, d)
             \/ UNCHANGED <<entry_size, free_stack, packets, detached, P!contents>>
  <2> DEFINE p == packets[h]
             c == P!NewPacket(P!Top, p.len, FALSE)
  <2>1. p \in P!Packet /\ p.len \in Length /\ p.entry \in P!Entry
    BY DEF PacketInv, Types, P!Packet
  <2>2. CASE P!Fits(p.len) /\ free_stack # << >>
    <3>1. P!Top \in P!Entry
      BY <2>2, TopEntry DEF PacketInv
    <3>2. c \in P!Packet /\ c.entry = P!Top /\ c.offset = PACKET_HEADROOM /\ c.len = p.len
      BY <2>1, <3>1 DEF P!NewPacket, P!Packet
    <3>3. entry_size # 0
      BY <1>4 DEF P!Clone, P!Running
    <3>4. Inside(c)
      BY <2>1, <2>2, <3>2, <3>3, FitsInside DEF Inside
    <3>5. Known(p)
      BY DEF PacketInv, AllKnown
    <3>6. P!CloneData(p) = written[p.entry]
      BY <3>5 DEF Known, P!CloneData, P!DataOf
    <3>7. written[p.entry] \in Data \cup {NoData}
      BY <2>1 DEF PacketInv, Types
    <3>8. /\ packets' = P!Added(c) /\ P!Stored(c, written[p.entry], written[p.entry])
          /\ free_stack' = P!Popped /\ P!CanAdd /\ UNCHANGED <<entry_size, detached>>
      BY <2>2, <1>4, <3>6 DEF P!Clone, P!CloneEntry
    <3> HIDE DEF c
    <3>9. Makes(c, written[p.entry])
      BY <2>2, <3>2, <3>3, <3>4, <3>7, <3>8 DEF Makes
    <3> QED
      BY <3>9
  <2>3. CASE ~(P!Fits(p.len) /\ free_stack # << >>)
    BY <2>3, <1>4 DEF P!Clone
  <2> QED
    BY <2>2, <2>3
<1>5. ASSUME NEW h \in P!Live, NEW d \in Data, P!Write(h, d) PROVE Rewrites(h, d)
  BY <1>5 DEF P!Write, Rewrites
<1>6. ASSUME NEW h \in P!Live, NEW len \in {PACKET_HEADROOM, PACKET_HEADROOM + 1},
             P!WriteHeadroom(h, len)
      PROVE  Touches
  <2>1. /\ ~packets[h].netbuf /\ packets[h].offset = PACKET_HEADROOM
        /\ PACKET_HEADROOM \in Nat /\ entry_size \in Nat /\ PACKET_HEADROOM <= entry_size
    BY <1>6 DEF P!WriteHeadroom, P!Running, PacketInv, Sized, Types, RoomInEntries,
                P!PacketAssumption
  <2>2. /\ UNCHANGED <<entry_size, free_stack, packets, detached, memory, written>>
        /\ entry_size # 0
    BY <1>6 DEF P!WriteHeadroom, P!Running
  <2>3. AccessInEntry'
    <3>1. CASE len <= PACKET_HEADROOM
      <4>1. touched' = [from |-> PACKET_HEADROOM - len, to |-> PACKET_HEADROOM]
        BY <1>6, <2>1, <3>1 DEF P!WriteHeadroom
      <4> QED
        BY <4>1, <2>1, <2>2, <3>1 DEF AccessInEntry, P!AccessInEntry
    <3>2. CASE ~(len <= PACKET_HEADROOM)
      <4>1. touched' = touched
        BY <1>6, <3>2 DEF P!WriteHeadroom
      <4> QED
        BY <4>1, <2>2 DEF AccessInEntry, P!AccessInEntry, PacketInv
    <3> QED
      BY <3>1, <3>2
  <2> QED
    BY <2>2, <2>3 DEF Touches
<1>7. ASSUME NEW h \in P!Live, P!Drop(h) PROVE Drops(h)
  BY <1>7 DEF P!Drop, Drops, PacketInv, Apart
<1>8. ASSUME NEW h \in P!Live, P!Detach(h) PROVE Detaches(h)
  BY <1>8 DEF P!Detach, Detaches
<1>9. ASSUME NEW p \in detached, P!Construct(p) PROVE Constructs(p)
  BY <1>9 DEF P!Construct, P!Running, Constructs
<1> QED
  BY <1>1, <1>2, <1>3, <1>4, <1>5, <1>6, <1>7, <1>8, <1>9 DEF P!Next
-----------------------------------------------------------------------------
(* PacketLife: the invariant.                                              *)

\* A packet that is made takes an entry off the stack.
LEMMA MakesKeepsInv ==
  ASSUME RoomInEntries, PacketInv, NEW p, NEW d, Makes(p, d)
  PROVE  PacketInv'
<1> USE DEF PacketInv
<1>1. /\ entry_size # 0 /\ free_stack # << >> /\ p \in P!Packet /\ p.entry = P!Top /\ Inside(p)
      /\ p.netbuf \/ p.offset = PACKET_HEADROOM
      /\ d \in Data \cup {NoData} /\ free_stack' = P!Popped /\ P!Stored(p, d, d)
      /\ entry_size' = entry_size /\ detached' = detached
  BY DEF Makes
<1>2. PICK h \in P!Handle \ P!Live : /\ P!Live' = P!Live \cup {h} /\ packets'[h] = p
                                     /\ \A k \in P!Live : packets'[k] = packets[k]
  BY AddedOne DEF Makes, Types
<1>3. /\ memory'[p.entry] = [data |-> d, offset |-> p.offset]
      /\ written'[p.entry] = d
      /\ \A e \in P!Entry : e # p.entry => memory'[e] = memory[e] /\ written'[e] = written[e]
      /\ memory' \in [P!Entry -> [data : Data \cup {NoData}, offset : {0, PACKET_HEADROOM}]]
      /\ written' \in [P!Entry -> Data \cup {NoData}]
  BY <1>1, StoredOne
<1>4. /\ free_stack' \in Seq(P!Entry) /\ P!IsInjective(free_stack')
      /\ p.entry \in P!ToSet(free_stack) /\ p.entry \notin P!ToSet(free_stack')
      /\ P!ToSet(free_stack') \subseteq P!ToSet(free_stack)
  <2>1. free_stack \in Seq(P!Entry) /\ P!IsInjective(free_stack)
    BY DEF Types, Apart
  <2> QED
    BY <2>1, <1>1, PoppedOne DEF P!Top, P!Popped
<1>5. /\ \A k \in P!Live : packets[k] \in P!Packet /\ packets[k].entry \in P!Entry
                         /\ packets[k].entry # p.entry
      /\ \A q \in detached : q \in P!Packet /\ q.entry \in P!Entry /\ q.entry # p.entry
  BY <1>4 DEF Types, Apart, P!Packet
<1>6. Types'
  BY <1>1, <1>2, <1>3, <1>4 DEF Types
<1>7. Sized'
  BY <1>1, <1>2 DEF Sized, Inside
<1>8. Apart'
  <2>1. \A k \in P!Live' : packets'[k].entry \notin P!ToSet(free_stack')
    BY <1>2, <1>4 DEF Apart
  <2>2. \A k, l \in P!Live' : packets'[k].entry = packets'[l].entry => k = l
    BY <1>2, <1>5 DEF Apart
  <2>3. \A k \in P!Live', q \in detached' : packets'[k].entry # q.entry
    BY <1>1, <1>2, <1>5 DEF Apart
  <2>4. \A q \in detached' : q.entry \notin P!ToSet(free_stack')
    BY <1>1, <1>4 DEF Apart
  <2>5. \A q, r \in detached' : q.entry = r.entry => q = r
    BY <1>1 DEF Apart
  <2> QED
    BY <1>4, <2>1, <2>2, <2>3, <2>4, <2>5 DEF Apart
<1>9. AllKnown'
  <2>1. ASSUME NEW k \in P!Live PROVE Known(packets[k])'
    <3>1. packets'[k] = packets[k] /\ packets[k].entry \in P!Entry /\ packets[k].entry # p.entry
      BY <1>2, <1>5
    <3>2. memory'[packets[k].entry] = memory[packets[k].entry]
          /\ written'[packets[k].entry] = written[packets[k].entry]
      BY <1>3, <3>1
    <3> QED
      BY <3>1, <3>2 DEF AllKnown, Known
  <2>2. Known(p)'
    BY <1>3 DEF Known
  <2>3. \A q \in detached : Known(q)'
    BY <1>1, <1>3, <1>5 DEF AllKnown, Known
  <2> QED
    BY <1>1, <1>2, <2>1, <2>2, <2>3 DEF AllKnown, Known
<1>10. AccessInEntry'
  BY <1>1 DEF P!Stored, AccessInEntry, P!AccessInEntry, Inside, P!Packet, RoomInEntries,
              P!PacketAssumption
<1> QED
  BY <1>6, <1>7, <1>8, <1>9, <1>10

\* A write through a packet changes what its entry has, and nobody else's.
LEMMA RewritesKeepsInv ==
  ASSUME RoomInEntries, PacketInv, NEW h, NEW d, Rewrites(h, d)
  PROVE  PacketInv'
<1> USE DEF PacketInv
<1> DEFINE p == packets[h]
<1>1. /\ h \in P!Live /\ d \in Data \cup {NoData} /\ P!Stored(p, d, d) /\ p \in P!Packet
      /\ UNCHANGED <<entry_size, free_stack, packets, detached>> /\ P!Live' = P!Live
  BY DEF Rewrites, Types, P!Live
<1>2. Inside(p)
  BY <1>1 DEF Sized
<1> HIDE DEF p
<1>3. /\ memory'[p.entry] = [data |-> d, offset |-> p.offset]
      /\ written'[p.entry] = d
      /\ \A e \in P!Entry : e # p.entry => memory'[e] = memory[e] /\ written'[e] = written[e]
      /\ memory' \in [P!Entry -> [data : Data \cup {NoData}, offset : {0, PACKET_HEADROOM}]]
      /\ written' \in [P!Entry -> Data \cup {NoData}]
  BY <1>1, StoredOne
<1>4. /\ \A k \in P!Live : /\ packets[k].entry \in P!Entry
                           /\ k # h => packets[k].entry # p.entry
      /\ \A q \in detached : q.entry \in P!Entry /\ q.entry # p.entry
  BY <1>1 DEF Types, Apart, P!Packet, p
<1>5. Types' /\ Sized' /\ Apart'
  BY <1>1, <1>3 DEF Types, Sized, Inside, Apart
<1>6. AllKnown'
  <2>1. Known(p)'
    BY <1>1, <1>3 DEF Known, p
  <2>2. \A k \in P!Live : Known(packets[k])'
    <3>1. ASSUME NEW k \in P!Live, k # h PROVE Known(packets[k])'
      BY <3>1, <1>1, <1>3, <1>4 DEF AllKnown, Known
    <3> QED
      BY <3>1, <2>1 DEF p
  <2>3. \A q \in detached : Known(q)'
    BY <1>1, <1>3, <1>4 DEF AllKnown, Known
  <2> QED
    BY <1>1, <2>2, <2>3 DEF AllKnown, Known
<1>7. AccessInEntry'
  BY <1>1, <1>2 DEF P!Stored, AccessInEntry, P!AccessInEntry, Inside, P!Packet,
                    RoomInEntries, P!PacketAssumption
<1> QED
  BY <1>5, <1>6, <1>7

\* A packet that is dropped leaves its entry on the stack.
LEMMA DropsKeepsInv ==
  ASSUME PacketInv, NEW h, Drops(h)
  PROVE  PacketInv'
<1> USE DEF PacketInv
<1>1. /\ h \in P!Live /\ packets[h].entry \notin P!ToSet(free_stack)
      /\ packets[h].entry \in P!Entry
      /\ UNCHANGED <<entry_size, detached, memory, written, touched>>
  BY DEF Drops, Types, P!Packet, P!contents
<1>2. P!Live' = P!Live \ {h} /\ \A k \in P!Live \ {h} : packets'[k] = packets[k]
  BY <1>1, RemovedOne DEF Drops
<1>3. /\ free_stack' \in Seq(P!Entry) /\ P!IsInjective(free_stack')
      /\ P!ToSet(free_stack') = P!ToSet(free_stack) \cup {packets[h].entry}
  <2>1. free_stack \in Seq(P!Entry) /\ P!IsInjective(free_stack)
    BY DEF Types, Apart
  <2> QED
    BY <2>1, <1>1, PushedOne DEF Drops
<1>4. Types' /\ Sized' /\ AllKnown' /\ AccessInEntry'
  <2>1. Types'
    BY <1>1, <1>2, <1>3 DEF Types
  <2>2. Sized'
    BY <1>1, <1>2 DEF Sized, Inside
  <2>3. AllKnown'
    BY <1>1, <1>2 DEF AllKnown, Known
  <2> QED
    BY <2>1, <2>2, <2>3, <1>1 DEF AccessInEntry, P!AccessInEntry
<1>5. Apart'
  <2>1. \A k \in P!Live' : packets'[k].entry \notin P!ToSet(free_stack')
    BY <1>1, <1>2, <1>3 DEF Apart
  <2>2. \A q \in detached' : q.entry \notin P!ToSet(free_stack')
    BY <1>1, <1>3 DEF Apart
  <2>3. \A k, l \in P!Live' : packets'[k].entry = packets'[l].entry => k = l
    BY <1>2 DEF Apart
  <2>4. \A k \in P!Live', q \in detached' : packets'[k].entry # q.entry
    BY <1>1, <1>2 DEF Apart
  <2>5. \A q, r \in detached' : q.entry = r.entry => q = r
    BY <1>1 DEF Apart
  <2> QED
    BY <1>3, <2>1, <2>2, <2>3, <2>4, <2>5 DEF Apart
<1> QED
  BY <1>4, <1>5

\* A packet that is taken apart is the same packet in another place.
LEMMA DetachesKeepsInv ==
  ASSUME PacketInv, NEW h, Detaches(h)
  PROVE  PacketInv'
<1> USE DEF PacketInv
<1>1. /\ h \in P!Live
      /\ packets[h] \in P!Packet /\ entry_size # 0
      /\ detached' = detached \cup {packets[h]}
      /\ UNCHANGED <<entry_size, free_stack, memory, written, touched>>
  BY DEF Detaches, Types, Sized, P!contents
<1>2. P!Live' = P!Live \ {h} /\ \A k \in P!Live \ {h} : packets'[k] = packets[k]
  BY <1>1, RemovedOne DEF Detaches
<1>3. Types'
  BY <1>1, <1>2 DEF Types
<1>4. Sized'
  BY <1>1, <1>2 DEF Sized, Inside
<1>5. AllKnown'
  BY <1>1, <1>2 DEF AllKnown, Known
<1>6. AccessInEntry'
  BY <1>1 DEF AccessInEntry, P!AccessInEntry
<1>7. Apart'
  <2>1. \A k \in P!Live' : packets'[k].entry \notin P!ToSet(free_stack')
    BY <1>1, <1>2 DEF Apart
  <2>2. \A q \in detached' : q.entry \notin P!ToSet(free_stack')
    BY <1>1 DEF Apart
  <2>3. \A k, l \in P!Live' : packets'[k].entry = packets'[l].entry => k = l
    BY <1>2 DEF Apart
  <2>4. \A k \in P!Live', q \in detached' : packets'[k].entry # q.entry
    BY <1>1, <1>2 DEF Apart
  <2>5. \A q, r \in detached' : q.entry = r.entry => q = r
    BY <1>1 DEF Apart
  <2> QED
    BY <1>1, <2>1, <2>2, <2>3, <2>4, <2>5 DEF Apart
<1> QED
  BY <1>3, <1>4, <1>5, <1>6, <1>7

\* construct: the same packet again, where it was if it had a headroom, and
\* behind a headroom, with nothing written through it, if it was received.
LEMMA ConstructsKeepsInv ==
  ASSUME RoomInEntries, PacketInv, NEW p, Constructs(p)
  PROVE  PacketInv'
<1> USE DEF PacketInv
<1> DEFINE c == P!NewPacket(p.entry, p.len, TRUE)
           last == IF p.offset = PACKET_HEADROOM THEN written[p.entry] ELSE NoData
<1>1. /\ p \in detached /\ p \in P!Packet /\ Inside(p)
      /\ p.offset = PACKET_HEADROOM \/ p.len <= ConstructMax
      /\ detached' = detached \ {p} /\ entry_size # 0
      /\ UNCHANGED <<entry_size, free_stack, memory, touched>>
  BY DEF Constructs, Types, Sized
<1>2. /\ c \in P!Packet /\ c.entry = p.entry /\ c.offset = PACKET_HEADROOM
      /\ c.len = p.len /\ c.netbuf
  BY <1>1 DEF P!NewPacket, P!Packet
<1>3. packets' = P!Added(c)
  BY DEF Constructs
<1>w. /\ written'[p.entry] = last
      /\ \A e \in P!Entry : e # p.entry => written'[e] = written[e]
      /\ written' \in [P!Entry -> Data \cup {NoData}]
  <2>1. p.entry \in P!Entry /\ written \in [P!Entry -> Data \cup {NoData}]
    BY <1>1 DEF Types, P!Packet
  <2> QED
    BY <2>1 DEF Constructs
<1>o. memory[p.entry].offset \in {0, PACKET_HEADROOM} /\ PACKET_HEADROOM # 0
  BY <1>1 DEF Types, P!Packet, RoomInEntries, P!PacketAssumption
<1>i. Inside(c)
  <2>1. /\ p.len \in Nat /\ PACKET_HEADROOM \in Nat /\ ConstructMax \in Nat
        /\ entry_size \in Nat /\ PACKET_HEADROOM + ConstructMax <= entry_size
    BY <1>1 DEF P!Packet, RoomInEntries, P!PacketAssumption, Types, Sized
  <2> HIDE DEF c
  <2> QED
    BY <2>1, <1>1, <1>2 DEF Inside
<1>k. Known(p)
  BY <1>1 DEF AllKnown
<1>c. Known(c)'
  <2> HIDE DEF c
  <2>1. CASE p.offset = PACKET_HEADROOM
    BY <2>1, <1>1, <1>2, <1>w, <1>k DEF Known
  <2>2. CASE p.offset # PACKET_HEADROOM
    <3>1. memory[p.entry].offset = p.offset
      BY <2>2, <1>k DEF Known
    <3> QED
      BY <3>1, <2>2, <1>1, <1>2, <1>w DEF Known
  <2> QED
    BY <2>1, <2>2
<1> HIDE DEF c, last
<1>4. PICK h \in P!Handle \ P!Live : /\ P!Live' = P!Live \cup {h} /\ packets'[h] = c
                                     /\ \A k \in P!Live : packets'[k] = packets[k]
  BY <1>3, AddedOne DEF Constructs, Types
<1>5. Types'
  BY <1>1, <1>2, <1>4, <1>w DEF Types
<1>6. Sized'
  BY <1>1, <1>2, <1>4, <1>i DEF Sized, Inside
<1>7. AllKnown'
  <2>1. ASSUME NEW k \in P!Live PROVE Known(packets[k])'
    <3>1. packets[k].entry \in P!Entry /\ packets[k].entry # p.entry
      BY <1>1 DEF Types, Apart, P!Packet
    <3> QED
      BY <3>1, <1>1, <1>4, <1>w DEF AllKnown, Known
  <2>2. ASSUME NEW q \in detached' PROVE Known(q)'
    <3>1. q \in detached /\ q.entry \in P!Entry /\ q.entry # p.entry
      BY <1>1 DEF Types, Apart, P!Packet
    <3> QED
      BY <3>1, <1>1, <1>w DEF AllKnown, Known
  <2> QED
    BY <2>1, <2>2, <1>c, <1>4 DEF AllKnown, Known
<1>8. AccessInEntry'
  BY <1>1 DEF AccessInEntry, P!AccessInEntry
<1>9. Apart'
  <2>1. \A k \in P!Live' : packets'[k].entry \notin P!ToSet(free_stack')
    BY <1>1, <1>2, <1>4 DEF Apart
  <2>2. \A q \in detached' : q.entry \notin P!ToSet(free_stack')
    BY <1>1 DEF Apart
  <2>3. \A k, l \in P!Live' : packets'[k].entry = packets'[l].entry => k = l
    BY <1>1, <1>2, <1>4 DEF Apart
  <2>4. \A k \in P!Live', q \in detached' : packets'[k].entry # q.entry
    BY <1>1, <1>2, <1>4 DEF Apart
  <2>5. \A q, r \in detached' : q.entry = r.entry => q = r
    BY <1>1 DEF Apart
  <2> QED
    BY <1>1, <2>1, <2>2, <2>3, <2>4, <2>5 DEF Apart
<1> QED
  BY <1>5, <1>6, <1>7, <1>8, <1>9

\* MemPool::allocate: no packet is there yet, and every entry is free.
LEMMA AllocatesKeepsInv ==
  ASSUME RoomInEntries, PacketInv, NEW s, Allocates(s)
  PROVE  PacketInv'
<1> USE DEF PacketInv
<1>1. /\ P!Live = {} /\ detached = {} /\ P!Live' = P!Live
      /\ s \in Nat /\ PACKET_HEADROOM <= s /\ s < Usize /\ (Receives => CardBufferSize <= s)
      /\ PACKET_HEADROOM + ConstructMax <= s
      /\ HUGE_PAGE_SIZE % s = 0 /\ entry_size = 0 /\ entry_size' = s
      /\ UNCHANGED <<packets, detached, memory, written, touched>>
  BY DEF Allocates, Sized, RoomInEntries, P!PacketAssumption, P!Divides, P!Live, P!contents
<1>2. PICK f : f = [k \in 1 .. NumEntries |-> k - 1]
  OBVIOUS
<1>3. NumEntries \in Nat
  BY DEF RoomInEntries, P!PacketAssumption
<1>4. \A k \in 1 .. NumEntries : k - 1 \in P!Entry
  BY <1>3 DEF P!Entry
<1>5. f \in Seq(P!Entry) /\ Len(f) = NumEntries
  BY <1>2, <1>3, <1>4
<1>6. \A i, j \in 1 .. NumEntries : f[i] = f[j] => i = j
  BY <1>2, <1>3
<1>7. P!IsInjective(f)
  BY <1>5, <1>6, ElementsOf
<1>8. free_stack' = f
  BY <1>2 DEF Allocates
<1>9. Types'
  BY <1>1, <1>5, <1>8 DEF Types
<1>10. Sized' /\ Apart' /\ AllKnown'
  BY <1>1, <1>7, <1>8 DEF Sized, Apart, AllKnown
<1>11. AccessInEntry'
  <2>1. touched' = [from |-> 0, to |-> 0]
    BY <1>1 DEF Sized
  <2> QED
    BY <2>1, <1>1 DEF AccessInEntry, P!AccessInEntry
<1> QED
  BY <1>9, <1>10, <1>11

\* Before there is a pool there is no packet.
LEMMA PacketInvInit ==
  ASSUME RoomInEntries
  PROVE  P!Init => PacketInv
<1> SUFFICES ASSUME P!Init PROVE PacketInv
  OBVIOUS
<1>1. entry_size = 0 /\ free_stack = << >> /\ packets = << >> /\ detached = {}
  BY DEF P!Init
<1>2. P!Live = {}
  BY <1>1 DEF P!Live
<1>3. free_stack \in Seq(P!Entry) /\ P!IsInjective(free_stack)
  <2>1. << >> \in Seq(P!Entry) /\ DOMAIN << >> = {}
    OBVIOUS
  <2> QED
    BY <2>1, <1>1 DEF P!IsInjective
<1>4. Types
  <2>1. /\ memory \in [P!Entry -> [data : Data \cup {NoData}, offset : {0, PACKET_HEADROOM}]]
        /\ written \in [P!Entry -> Data \cup {NoData}]
    BY DEF P!Init
  <2> QED
    BY <2>1, <1>1, <1>2, <1>3 DEF Types
<1>5. Sized /\ Apart /\ AllKnown
  <2>1. touched = [from |-> 0, to |-> 0]
    BY DEF P!Init
  <2> QED
    BY <2>1, <1>1, <1>2, <1>3 DEF Sized, Apart, AllKnown
<1>6. AccessInEntry
  BY <1>1 DEF P!Init, AccessInEntry, P!AccessInEntry
<1> QED
  BY <1>4, <1>5, <1>6 DEF PacketInv

\* Every step keeps the invariant.
LEMMA PacketInvStep ==
  ASSUME RoomInEntries
  PROVE  PacketInv /\ [P!Next]_(P!vars) => PacketInv'
<1> SUFFICES ASSUME PacketInv, [P!Next]_(P!vars) PROVE PacketInv'
  OBVIOUS
<1>1. ASSUME UNCHANGED <<entry_size, free_stack, packets, detached, P!contents>>
      PROVE  PacketInv'
  BY <1>1 DEF PacketInv, Types, Sized, Inside, Apart, AllKnown, Known, AccessInEntry,
              P!AccessInEntry, P!Live,
              P!contents
<1>2. CASE UNCHANGED P!vars
  BY <1>1, <1>2 DEF P!vars
<1>3. CASE Touches
  BY <1>3 DEF Touches, PacketInv, Types, Sized, Inside, Apart, AllKnown, Known, P!Live
<1>4. CASE P!Next
  <2>1. \/ \E s : Allocates(s)
        \/ \E p, d : Makes(p, d)
        \/ \E h, d : Rewrites(h, d)
        \/ Touches
        \/ \E h : Drops(h) \/ Detaches(h)
        \/ \E p : Constructs(p)
        \/ UNCHANGED <<entry_size, free_stack, packets, detached, P!contents>>
    BY <1>4, CallsComeTo
  <2> QED
    BY <2>1, <1>1, <1>3, MakesKeepsInv, RewritesKeepsInv, DropsKeepsInv, DetachesKeepsInv,
       ConstructsKeepsInv, AllocatesKeepsInv
<1> QED
  BY <1>2, <1>4

\* The invariant holds always.
LEMMA PacketInvCorrect ==
  ASSUME RoomInEntries
  PROVE  P!Spec => []PacketInv
<1>1. P!Init => PacketInv
  BY PacketInvInit
<1>2. PacketInv /\ [P!Next]_(P!vars) => PacketInv'
  BY PacketInvStep
<1> QED
  BY <1>1, <1>2, PTL DEF P!Spec

\* If the entries have room for what the card writes, and for the headroom before
\* whatever the application constructs again of a received packet, then no write
\* through a packet or its headroom, and none of the card, leaves the entry
\* (alloc_pkt, construct and headroom_mut, which compute addresses without a
\* check).
THEOREM AccessStaysInEntry ==
  ASSUME RoomInEntries
  PROVE  P!Spec => []AccessInEntry
<1>1. PacketInv => AccessInEntry
  BY DEF PacketInv
<1> QED
  BY <1>1, PacketInvCorrect, PTL

\* What was written through a packet is read through it until it is written
\* again, through clones, drops, mem::forget and construct in any order; nothing
\* was written through a packet that is constructed of a received one.
THEOREM PacketAlwaysReadsBack ==
  ASSUME RoomInEntries
  PROVE  P!Spec => []PacketReadsBack
<1>1. PacketInv => PacketReadsBack
  <2> SUFFICES ASSUME PacketInv, NEW h \in P!Live
               PROVE  P!DataOf(packets[h]) = written[packets[h].entry]
    BY DEF PacketReadsBack, P!ReadsBack
  <2>1. Known(packets[h])
    BY DEF PacketInv, AllKnown
  <2> QED
    BY <2>1 DEF Known, P!DataOf
<1> QED
  BY <1>1, PacketInvCorrect, PTL

-----------------------------------------------------------------------------
(* Registers: what is used of the map.                                     *)

\* The map has room for 64 queues, which is MAX_QUEUES in igb.rs: with twice as
\* many and one more, the registers of the last receive queue would lie on
\* those of the first transmit queue.
RoomForQueues == MAX_QUEUES <= 64

\* The registers that igb.rs writes, and those it reads or writes.
RxRingNames == {"RDBAL", "RDBAH", "RDLEN", "RDH", "RDT", "RXDCTL"}
TxRingNames == {"TDBAL", "TDBAH", "TDLEN", "TDH", "TDT", "TXDCTL"}
MaskRegister == {R("IMS"), R("IMC")}
VectorRegister == {<<"IVAR", q \div 2>> : q \in Queue}
OtherRegister ==
  {R("CTRL"), R("CTRL_EXT"), R("MDIC"), R("RXCTRL"), R("RDRXCTL"), R("FCTRL"),
   R("DMATXCTL"), R("HLREG0")}
    \cup ({"RXPBSIZE"} \X (0 .. 7))
    \cup ((RxRingNames \cup TxRingNames) \X (0 .. MAX_QUEUES - 1))
Programmed == MaskRegister \cup VectorRegister \cup OtherRegister
Used == Programmed \cup ReadOnly

-----------------------------------------------------------------------------
(* Registers: the addresses of what is used.                               *)

UsedNames ==
  {"CTRL", "CTRL_EXT", "MDIC", "STATUS", "ICR", "IMS", "IMC", "IVAR", "RXCTRL", "RDRXCTL",
   "RXPBSIZE", "FCTRL", "RAL", "RAH", "DMATXCTL", "GPRC", "GPTC", "GORCL", "GORCH", "GOTCL", "GOTCH", "HLREG0"}
    \cup RxRingNames \cup TxRingNames

\* The groups of the map in which the names that are used are.
LEMMA NamesInGroups ==
  /\ DOMAIN GeneralRegisters \cap UsedNames = {"CTRL", "CTRL_EXT", "MDIC", "STATUS"}
  /\ DOMAIN InterruptRegisters \cap UsedNames = {"ICR", "IMS", "IMC", "IVAR"}
  /\ DOMAIN ReceiveRegisters \cap UsedNames =
       {"RXCTRL", "RDRXCTL", "RXPBSIZE"} \cup RxRingNames
  /\ DOMAIN FilterRegisters \cap UsedNames = {"FCTRL", "RAL", "RAH"}
  /\ DOMAIN TransmitRegisters \cap UsedNames = {"DMATXCTL"} \cup TxRingNames
  /\ DOMAIN StatisticsRegisters \cap UsedNames =
       {"GPRC", "GPTC", "GORCL", "GORCH", "GOTCL", "GOTCH"}
  /\ DOMAIN MacRegisters \cap UsedNames = {"HLREG0"}
<1>1. DOMAIN GeneralRegisters \cap UsedNames = {"CTRL", "CTRL_EXT", "MDIC", "STATUS"}
  BY DEF GeneralRegisters, Words, \sqcup, UsedNames, RxRingNames, TxRingNames
<1>2. DOMAIN InterruptRegisters \cap UsedNames = {"ICR", "IMS", "IMC", "IVAR"}
  BY DEF InterruptRegisters, Words, \sqcup, UsedNames, RxRingNames, TxRingNames
<1>3. DOMAIN ReceiveRegisters \cap UsedNames =
        {"RXCTRL", "RDRXCTL", "RXPBSIZE"} \cup RxRingNames
  BY DEF ReceiveRegisters, Words, \sqcup, UsedNames, RxRingNames, TxRingNames
<1>4. DOMAIN FilterRegisters \cap UsedNames = {"FCTRL", "RAL", "RAH"}
  BY DEF FilterRegisters, Words, \sqcup, UsedNames, RxRingNames, TxRingNames
<1>5. DOMAIN TransmitRegisters \cap UsedNames = {"DMATXCTL"} \cup TxRingNames
  BY DEF TransmitRegisters, Words, \sqcup, UsedNames, RxRingNames, TxRingNames
<1>6. DOMAIN StatisticsRegisters \cap UsedNames =
        {"GPRC", "GPTC", "GORCL", "GORCH", "GOTCL", "GOTCH"}
  BY DEF StatisticsRegisters, Words, \sqcup, UsedNames, RxRingNames, TxRingNames
<1>7. DOMAIN MacRegisters \cap UsedNames = {"HLREG0"}
  BY DEF MacRegisters, Words, \sqcup, UsedNames, RxRingNames, TxRingNames
<1> QED
  BY ONLY <1>1, <1>2, <1>3, <1>4, <1>5, <1>6, <1>7

\* The groups without any of them.
LEMMA NamesNotInGroups ==
  /\ DOMAIN VirtualRegisters \cap UsedNames = {}
  /\ DOMAIN FlowDirectorRegisters \cap UsedNames = {}
  /\ DOMAIN WakeUpRegisters \cap UsedNames = {}
  /\ DOMAIN PowerRegisters \cap UsedNames = {}
  /\ DOMAIN SecurityRegisters \cap UsedNames = {}
  /\ DOMAIN FcoeRegisters \cap UsedNames = {}
  /\ DOMAIN ManagementRegisters \cap UsedNames = {}
  /\ DOMAIN PciRegisters \cap UsedNames = {}
  /\ DOMAIN DiagnosticRegisters \cap UsedNames = {}
<1>1. DOMAIN VirtualRegisters \cap UsedNames = {}
  BY DEF VirtualRegisters, Words, \sqcup, UsedNames, RxRingNames, TxRingNames
<1>2. DOMAIN FlowDirectorRegisters \cap UsedNames = {}
  BY DEF FlowDirectorRegisters, Words, \sqcup, UsedNames, RxRingNames, TxRingNames
<1>3. DOMAIN WakeUpRegisters \cap UsedNames = {}
  BY DEF WakeUpRegisters, Words, \sqcup, UsedNames, RxRingNames, TxRingNames
<1>4. DOMAIN PowerRegisters \cap UsedNames = {}
  BY DEF PowerRegisters, Words, \sqcup, UsedNames, RxRingNames, TxRingNames
<1>5. DOMAIN SecurityRegisters \cap UsedNames = {}
  BY DEF SecurityRegisters, Words, \sqcup, UsedNames, RxRingNames, TxRingNames
<1>6. DOMAIN FcoeRegisters \cap UsedNames = {}
  BY DEF FcoeRegisters, Words, \sqcup, UsedNames, RxRingNames, TxRingNames
<1>7. DOMAIN ManagementRegisters \cap UsedNames = {}
  BY DEF ManagementRegisters, Words, \sqcup, UsedNames, RxRingNames, TxRingNames
<1>8. DOMAIN PciRegisters \cap UsedNames = {}
  BY DEF PciRegisters, Words, \sqcup, UsedNames, RxRingNames, TxRingNames
<1>9. DOMAIN DiagnosticRegisters \cap UsedNames = {}
  BY DEF DiagnosticRegisters, Words, \sqcup, UsedNames, RxRingNames, TxRingNames
<1> QED
  BY ONLY <1>1, <1>2, <1>3, <1>4, <1>5, <1>6, <1>7, <1>8, <1>9

\* A name that is used is in one group, so that its registers are that group's.
LEMMA GroupOf ==
  ASSUME NEW g \in 1 .. 16, NEW name \in UsedNames, name \in DOMAIN Groups[g]
  PROVE  GroupWith(name) = Groups[g]
<1> DEFINE N(h) == DOMAIN Groups[h] \cap UsedNames
<1>1. /\ N(1) = {"CTRL", "CTRL_EXT", "MDIC", "STATUS"}
      /\ N(2) = {"ICR", "IMS", "IMC", "IVAR"}
      /\ N(3) = {"RXCTRL", "RDRXCTL", "RXPBSIZE"} \cup RxRingNames
      /\ N(4) = {"FCTRL", "RAL", "RAH"} /\ N(5) = {} /\ N(6) = {}
      /\ N(7) = {"DMATXCTL"} \cup TxRingNames
      /\ N(8) = {} /\ N(9) = {} /\ N(10) = {} /\ N(11) = {}
      /\ N(12) = {"GPRC", "GPTC", "GORCL", "GORCH", "GOTCL", "GOTCH"}
      /\ N(13) = {} /\ N(14) = {} /\ N(15) = {} /\ N(16) = {"HLREG0"}
  BY NamesInGroups, NamesNotInGroups DEF Groups
<1>2. ASSUME NEW h \in 1 .. 16, name \in DOMAIN Groups[h]
      PROVE  h = g
  <2>1. name \in N(g) /\ name \in N(h)
    BY <1>2
  <2> HIDE DEF N
  <2>2. \/ name \in N(1) /\ \A k \in 1 .. 16 : name \in N(k) => k = 1
        \/ name \in N(2) /\ \A k \in 1 .. 16 : name \in N(k) => k = 2
        \/ name \in N(3) /\ \A k \in 1 .. 16 : name \in N(k) => k = 3
        \/ name \in N(4) /\ \A k \in 1 .. 16 : name \in N(k) => k = 4
        \/ name \in N(7) /\ \A k \in 1 .. 16 : name \in N(k) => k = 7
        \/ name \in N(12) /\ \A k \in 1 .. 16 : name \in N(k) => k = 12
        \/ name \in N(16) /\ \A k \in 1 .. 16 : name \in N(k) => k = 16
    BY <2>1, <1>1 DEF RxRingNames, TxRingNames
  <2> QED
    BY <2>1, <2>2
<1>3. g = CHOOSE h \in 1 .. 16 : name \in DOMAIN Groups[h]
  BY <1>2
<1> QED
  BY <1>3 DEF GroupWith

\* The address of a register that is used, in the array of its name.
LEMMA AddressIn ==
  ASSUME NEW g \in 1 .. 16, NEW name \in UsedNames, NEW array,
         name \in DOMAIN Groups[g], Groups[g][name] = array
  PROVE  \A i \in DOMAIN array : Address[<<name, i>>] = array[i]
<1>1. GroupWith(name)[name] = array
  BY GroupOf
<1>2. ASSUME NEW i \in DOMAIN array PROVE Address[<<name, i>>] = array[i]
  <2>1. PICK group : group = Groups[g]
    OBVIOUS
  <2>2. <<name, i>> \in {name} \X DOMAIN group[name]
    BY <2>1
  <2>3. <<name, i>> \in UNION {{n} \X DOMAIN group[n] : n \in DOMAIN group}
    BY <2>1, <2>2
  <2>4. <<name, i>> \in Register
    BY <2>1, <2>3 DEF Register
  <2> QED
    BY <1>1, <2>4 DEF Address
<1> QED
  BY <1>2

\* The addresses of the registers that are not in an array.
SingleAddress ==
  [CTRL |-> \h00000, CTRL_EXT |-> \h00018, MDIC |-> \h00020, STATUS |-> \h00008,
   ICR |-> \h01500, IMS |-> \h01508, IMC |-> \h0150C, RXCTRL |-> \h00100,
   RDRXCTL |-> \h02F00, FCTRL |-> \h05080, RAL |-> \h05400, RAH |-> \h05404,
   DMATXCTL |-> \h04A80, GPRC |-> \h04074, GPTC |-> \h04080, GORCL |-> \h04088,
   GORCH |-> \h0408C, GOTCL |-> \h04090, GOTCH |-> \h04094, HLREG0 |-> \h04240]
SingleNames ==
  {"CTRL", "CTRL_EXT", "MDIC", "STATUS", "ICR", "IMS", "IMC", "RXCTRL", "RDRXCTL",
   "FCTRL", "RAL", "RAH", "DMATXCTL", "GPRC", "GPTC", "GORCL", "GORCH", "GOTCL", "GOTCH", "HLREG0"}

LEMMA SinglePlaces ==
  \A name \in SingleNames : Address[<<name, 0>>] = SingleAddress[name]
<1> USE DEF SingleAddress
<1>1. \A name \in {"CTRL", "CTRL_EXT", "MDIC", "STATUS"} :
        Address[<<name, 0>>] = SingleAddress[name]
  <2>1. /\ "CTRL" \in DOMAIN GeneralRegisters
        /\ GeneralRegisters["CTRL"] = [i \in {0} |-> \h00000]
    BY DEF GeneralRegisters, Words
  <2>2. /\ "CTRL_EXT" \in DOMAIN GeneralRegisters
        /\ GeneralRegisters["CTRL_EXT"] = [i \in {0} |-> \h00018]
    BY DEF GeneralRegisters, Words
  <2>3. /\ "MDIC" \in DOMAIN GeneralRegisters
        /\ GeneralRegisters["MDIC"] = [i \in {0} |-> \h00020]
    BY DEF GeneralRegisters, Words
  <2>4. /\ "STATUS" \in DOMAIN GeneralRegisters
        /\ GeneralRegisters["STATUS"] = [i \in {0} |-> \h00008]
    BY DEF GeneralRegisters, Words
  <2>5. Address[<<"CTRL", 0>>] = SingleAddress["CTRL"]
    BY <2>1, AddressIn DEF Groups, UsedNames, SingleAddress
  <2>6. Address[<<"CTRL_EXT", 0>>] = SingleAddress["CTRL_EXT"]
    BY <2>2, AddressIn DEF Groups, UsedNames, SingleAddress
  <2>7. Address[<<"MDIC", 0>>] = SingleAddress["MDIC"]
    BY <2>3, AddressIn DEF Groups, UsedNames, SingleAddress
  <2>8. Address[<<"STATUS", 0>>] = SingleAddress["STATUS"]
    BY <2>4, AddressIn DEF Groups, UsedNames, SingleAddress
  <2> QED
    BY <2>5, <2>6, <2>7, <2>8
<1>2. \A name \in {"ICR", "IMS", "IMC"} : Address[<<name, 0>>] = SingleAddress[name]
  <2>1. \A name \in {"ICR", "IMS", "IMC"} :
          /\ name \in DOMAIN InterruptRegisters
          /\ InterruptRegisters[name] = [i \in {0} |-> SingleAddress[name]]
    BY DEF InterruptRegisters, Words, \sqcup
  <2> QED
    BY <2>1, AddressIn DEF Groups, UsedNames
<1>3. \A name \in {"RXCTRL", "RDRXCTL"} : Address[<<name, 0>>] = SingleAddress[name]
  <2>1. \A name \in {"RXCTRL", "RDRXCTL"} :
          /\ name \in DOMAIN ReceiveRegisters
          /\ ReceiveRegisters[name] = [i \in {0} |-> SingleAddress[name]]
    BY DEF ReceiveRegisters, Words, \sqcup
  <2> QED
    BY <2>1, AddressIn DEF Groups, UsedNames
<1>4. Address[<<"FCTRL", 0>>] = SingleAddress["FCTRL"]
  <2>1. /\ "FCTRL" \in DOMAIN FilterRegisters
        /\ FilterRegisters["FCTRL"] = [i \in {0} |-> SingleAddress["FCTRL"]]
    BY DEF FilterRegisters, Words, \sqcup
  <2> QED
    BY <2>1, AddressIn DEF Groups, UsedNames
<1>5. \A name \in {"RAL", "RAH"} : Address[<<name, 0>>] = SingleAddress[name]
  <2>1. /\ "RAL" \in DOMAIN FilterRegisters /\ "RAH" \in DOMAIN FilterRegisters
        /\ FilterRegisters["RAL"] =
             [i \in 0 .. 16 |-> IF i <= 15 THEN \h05400 + i * 8 ELSE \h054E0 + (i - 16) * 8]
        /\ FilterRegisters["RAH"] =
             [i \in 0 .. 16 |-> IF i <= 15 THEN \h05404 + i * 8 ELSE \h054E4 + (i - 16) * 8]
    BY DEF FilterRegisters, Words, \sqcup
  <2> QED
    BY <2>1, AddressIn DEF Groups, UsedNames
<1>6. Address[<<"DMATXCTL", 0>>] = SingleAddress["DMATXCTL"]
  <2>1. /\ "DMATXCTL" \in DOMAIN TransmitRegisters
        /\ TransmitRegisters["DMATXCTL"] = [i \in {0} |-> SingleAddress["DMATXCTL"]]
    BY DEF TransmitRegisters, Words, \sqcup
  <2> QED
    BY <2>1, AddressIn DEF Groups, UsedNames
<1>7. \A name \in {"GPRC", "GPTC", "GORCL", "GORCH", "GOTCL", "GOTCH"} :
        Address[<<name, 0>>] = SingleAddress[name]
  <2>1. /\ "GPRC" \in DOMAIN StatisticsRegisters
        /\ StatisticsRegisters["GPRC"] = [i \in {0} |-> \h04074]
    BY DEF StatisticsRegisters, Words, \sqcup
  <2>2. /\ "GPTC" \in DOMAIN StatisticsRegisters
        /\ StatisticsRegisters["GPTC"] = [i \in {0} |-> \h04080]
    BY DEF StatisticsRegisters, Words, \sqcup
  <2>3. /\ "GORCL" \in DOMAIN StatisticsRegisters
        /\ StatisticsRegisters["GORCL"] = [i \in {0} |-> \h04088]
    BY DEF StatisticsRegisters, Words, \sqcup
  <2>4. /\ "GORCH" \in DOMAIN StatisticsRegisters
        /\ StatisticsRegisters["GORCH"] = [i \in {0} |-> \h0408C]
    BY DEF StatisticsRegisters, Words, \sqcup
  <2>5. /\ "GOTCL" \in DOMAIN StatisticsRegisters
        /\ StatisticsRegisters["GOTCL"] = [i \in {0} |-> \h04090]
    BY DEF StatisticsRegisters, Words, \sqcup
  <2>6. /\ "GOTCH" \in DOMAIN StatisticsRegisters
        /\ StatisticsRegisters["GOTCH"] = [i \in {0} |-> \h04094]
    BY DEF StatisticsRegisters, Words, \sqcup
  <2>7. Address[<<"GPRC", 0>>] = SingleAddress["GPRC"]
    BY <2>1, AddressIn DEF Groups, UsedNames, SingleAddress
  <2>8. Address[<<"GPTC", 0>>] = SingleAddress["GPTC"]
    BY <2>2, AddressIn DEF Groups, UsedNames, SingleAddress
  <2>9. Address[<<"GORCL", 0>>] = SingleAddress["GORCL"]
    BY <2>3, AddressIn DEF Groups, UsedNames, SingleAddress
  <2>10. Address[<<"GORCH", 0>>] = SingleAddress["GORCH"]
    BY <2>4, AddressIn DEF Groups, UsedNames, SingleAddress
  <2>11. Address[<<"GOTCL", 0>>] = SingleAddress["GOTCL"]
    BY <2>5, AddressIn DEF Groups, UsedNames, SingleAddress
  <2>12. Address[<<"GOTCH", 0>>] = SingleAddress["GOTCH"]
    BY <2>6, AddressIn DEF Groups, UsedNames, SingleAddress
  <2> QED
    BY <2>7, <2>8, <2>9, <2>10, <2>11, <2>12
<1>8. Address[<<"HLREG0", 0>>] = SingleAddress["HLREG0"]
  <2>1. /\ "HLREG0" \in DOMAIN MacRegisters
        /\ MacRegisters["HLREG0"] = [i \in {0} |-> SingleAddress["HLREG0"]]
    BY DEF MacRegisters, Words
  <2> QED
    BY <2>1, AddressIn DEF Groups, UsedNames
<1> HIDE DEF SingleAddress
<1> QED
  BY <1>1, <1>2, <1>3, <1>4, <1>5, <1>6, <1>7, <1>8 DEF SingleNames

\* The registers of a queue, in its block of 64 bytes.
RingOffset ==
  [RDBAL |-> 0, RDBAH |-> 4, RDLEN |-> 8, RDH |-> 16, RDT |-> 24, RXDCTL |-> 40,
   TDBAL |-> 0, TDBAH |-> 4, TDLEN |-> 8, TDH |-> 16, TDT |-> 24, TXDCTL |-> 40]

LEMMA RingPlaces ==
  /\ \A name \in RxRingNames, q \in 0 .. MAX_QUEUES - 1 :
       Address[<<name, q>>] = \h0C000 + RingOffset[name] + q * 64
  /\ \A name \in TxRingNames, q \in 0 .. MAX_QUEUES - 1 :
       Address[<<name, q>>] = \h0E000 + RingOffset[name] + q * 64
<1>1. \A name \in RxRingNames :
        name \in DOMAIN ReceiveRegisters /\ ReceiveRegisters[name] = RxRing(RingOffset[name])
  BY DEF ReceiveRegisters, \sqcup, Words, RxRingNames, RingOffset
<1>2. \A name \in TxRingNames :
        name \in DOMAIN TransmitRegisters /\ TransmitRegisters[name] = TxRing(RingOffset[name])
  BY DEF TransmitRegisters, \sqcup, Words, TxRingNames, RingOffset
<1>3. ASSUME NEW name \in RxRingNames, NEW q \in 0 .. MAX_QUEUES - 1
      PROVE  Address[<<name, q>>] = \h0C000 + RingOffset[name] + q * 64
  <2>1. 3 \in 1 .. 16 /\ name \in UsedNames /\ name \in DOMAIN Groups[3]
        /\ Groups[3][name] = RxRing(RingOffset[name])
    BY <1>1 DEF Groups, UsedNames
  <2>2. q \in DOMAIN RxRing(RingOffset[name])
    BY DEF RxRing, Array
  <2>3. Address[<<name, q>>] = RxRing(RingOffset[name])[q]
    BY <2>1, <2>2, AddressIn
  <2> QED
    BY <2>3 DEF RxRing, Array
<1>4. ASSUME NEW name \in TxRingNames, NEW q \in 0 .. MAX_QUEUES - 1
      PROVE  Address[<<name, q>>] = \h0E000 + RingOffset[name] + q * 64
  <2>1. 7 \in 1 .. 16 /\ name \in UsedNames /\ name \in DOMAIN Groups[7]
        /\ Groups[7][name] = TxRing(RingOffset[name])
    BY <1>2 DEF Groups, UsedNames
  <2>2. q \in DOMAIN TxRing(RingOffset[name])
    BY DEF TxRing, Array
  <2>3. Address[<<name, q>>] = TxRing(RingOffset[name])[q]
    BY <2>1, <2>2, AddressIn
  <2> QED
    BY <2>3 DEF TxRing, Array
<1> QED
  BY <1>3, <1>4

\* The other arrays.
LEMMA ArrayPlaces ==
  /\ \A i \in 0 .. 7 : Address[<<"RXPBSIZE", i>>] = \h03C00 + i * 4
  /\ \A q \in 0 .. MAX_QUEUES - 1 :
       q \div 2 \in Nat /\ 2 * (q \div 2) <= q
         /\ Address[<<"IVAR", q \div 2>>] = \h00900 + (q \div 2) * 4
<1>1. "RXPBSIZE" \in DOMAIN ReceiveRegisters /\ "RXPBSIZE" \in UsedNames
      /\ ReceiveRegisters["RXPBSIZE"] = Array(\h03C00, 4, 8)
  BY DEF ReceiveRegisters, \sqcup, Words, UsedNames
<1>2. "IVAR" \in DOMAIN InterruptRegisters /\ "IVAR" \in UsedNames
      /\ InterruptRegisters["IVAR"] = Array(\h00900, 4, (MAX_QUEUES + 1) \div 2)
  BY DEF InterruptRegisters, \sqcup, Words, UsedNames
<1>3. ASSUME NEW i \in 0 .. 7 PROVE Address[<<"RXPBSIZE", i>>] = \h03C00 + i * 4
  <2>1. 3 \in 1 .. 16 /\ Groups[3] = ReceiveRegisters
    BY DEF Groups
  <2>2. i \in DOMAIN Array(\h03C00, 4, 8) /\ Array(\h03C00, 4, 8)[i] = \h03C00 + i * 4
    BY DEF Array
  <2> QED
    BY <2>1, <2>2, <1>1, AddressIn
<1>4. ASSUME NEW q \in 0 .. MAX_QUEUES - 1
      PROVE  /\ q \div 2 \in Nat /\ 2 * (q \div 2) <= q
             /\ Address[<<"IVAR", q \div 2>>] = \h00900 + (q \div 2) * 4
  <2>1. 2 \in 1 .. 16 /\ Groups[2] = InterruptRegisters
    BY DEF Groups
  <2>2. q \div 2 \in Nat /\ 2 * (q \div 2) <= q /\ q \div 2 <= (MAX_QUEUES + 1) \div 2 - 1
        /\ (MAX_QUEUES + 1) \div 2 \in Nat
    BY MapAssumption
  <2>3. \A n \in Nat, k \in Nat : k <= n - 1 =>
          k \in DOMAIN Array(\h00900, 4, n) /\ Array(\h00900, 4, n)[k] = \h00900 + k * 4
    BY DEF Array
  <2> QED
    BY <2>1, <2>2, <2>3, <1>2, AddressIn
<1> QED
  BY <1>3, <1>4

\* The addresses of the receive rings, of the transmit rings, of the other
\* arrays, and of single registers follow each other without a common one.
InPlace(name, i, a) ==
  \/ /\ name \in RxRingNames /\ i \in 0 .. MAX_QUEUES - 1
     /\ a = \h0C000 + RingOffset[name] + i * 64
  \/ /\ name \in TxRingNames /\ i \in 0 .. MAX_QUEUES - 1
     /\ a = \h0E000 + RingOffset[name] + i * 64
  \/ name = "RXPBSIZE" /\ i \in 0 .. 7 /\ a = \h03C00 + i * 4
  \/ name = "IVAR" /\ i \in 0 .. 31 /\ a = \h00900 + i * 4
  \/ name \in SingleNames /\ i = 0 /\ a = SingleAddress[name]

LEMMA UsedInPlace ==
  ASSUME RoomForQueues, NEW r \in Used
  PROVE  \E name, i : r = <<name, i>> /\ InPlace(name, i, Address[<<name, i>>])
<1>1. ASSUME NEW name \in RxRingNames \cup TxRingNames, NEW i \in 0 .. MAX_QUEUES - 1
      PROVE  InPlace(name, i, Address[<<name, i>>])
  BY RingPlaces DEF InPlace
<1>2. ASSUME NEW i \in 0 .. 7 PROVE InPlace("RXPBSIZE", i, Address[<<"RXPBSIZE", i>>])
  BY ArrayPlaces DEF InPlace
<1>3. ASSUME NEW q \in 0 .. MAX_QUEUES - 1
      PROVE  InPlace("IVAR", q \div 2, Address[<<"IVAR", q \div 2>>])
  <2>1. q \div 2 \in 0 .. 31
    BY ArrayPlaces, MapAssumption DEF RoomForQueues
  <2> QED
    BY <2>1, ArrayPlaces DEF InPlace
<1>4. ASSUME NEW name \in SingleNames PROVE InPlace(name, 0, Address[<<name, 0>>])
  BY SinglePlaces DEF InPlace
<1>5. r \in MaskRegister \cup ReadOnly => \E name \in SingleNames : r = <<name, 0>>
  BY DEF MaskRegister, ReadOnly, R, SingleNames
<1>6. r \in {R("CTRL"), R("CTRL_EXT"), R("MDIC"), R("RXCTRL"), R("RDRXCTL"), R("FCTRL"),
             R("DMATXCTL"), R("HLREG0")} =>
        \E name \in SingleNames : r = <<name, 0>>
  BY DEF R, SingleNames
<1>7. r \in VectorRegister => \E q \in 0 .. MAX_QUEUES - 1 : r = <<"IVAR", q \div 2>>
  BY RegistersAssumption DEF VectorRegister
<1> QED
  BY <1>1, <1>2, <1>3, <1>4, <1>5, <1>6, <1>7 DEF Used, Programmed, OtherRegister

\* The places of the receive rings are in an interval of their own, and so are
\* those of the transmit rings and of the other arrays.
LEMMA RingPlace ==
  ASSUME RoomForQueues, NEW name \in RxRingNames \cup TxRingNames,
         NEW i \in 0 .. MAX_QUEUES - 1, NEW base \in Nat, NEW a,
         a = base + RingOffset[name] + i * 64
  PROVE  a \in Nat /\ base <= a /\ a < base + \h01000
<1>1. RingOffset[name] \in 0 .. 63
  BY DEF RingOffset, RxRingNames, TxRingNames
<1>2. i \in 0 .. 63
  BY MapAssumption DEF RoomForQueues
<1> QED
  BY <1>1, <1>2

LEMMA SinglePlace ==
  /\ \A name \in SingleNames :
       /\ SingleAddress[name] \in Nat /\ SingleAddress[name] < \h0C000
       /\ SingleAddress[name] < \h03C00 \/ \h03C20 <= SingleAddress[name]
       /\ SingleAddress[name] < \h00900 \/ \h00980 <= SingleAddress[name]
  /\ \A n, m \in SingleNames : SingleAddress[n] = SingleAddress[m] => n = m
BY DEF SingleAddress, SingleNames

LEMMA Intervals ==
  ASSUME RoomForQueues, NEW name, NEW i, NEW a, InPlace(name, i, a)
  PROVE  /\ a \in Nat
         /\ \/ name \in RxRingNames /\ \h0C000 <= a /\ a < \h0D000
            \/ name \in TxRingNames /\ \h0E000 <= a /\ a < \h0F000
            \/ name = "RXPBSIZE" /\ \h03C00 <= a /\ a < \h03C20
            \/ name = "IVAR" /\ \h00900 <= a /\ a < \h00980
            \/ /\ name \in SingleNames /\ a < \h0C000
               /\ a < \h03C00 \/ \h03C20 <= a
               /\ a < \h00900 \/ \h00980 <= a
<1>1. CASE /\ name \in RxRingNames /\ i \in 0 .. MAX_QUEUES - 1
           /\ a = \h0C000 + RingOffset[name] + i * 64
  <2>1. a \in Nat /\ \h0C000 <= a /\ a < \h0C000 + \h01000
    BY <1>1, RingPlace
  <2> QED
    BY <1>1, <2>1
<1>2. CASE /\ name \in TxRingNames /\ i \in 0 .. MAX_QUEUES - 1
           /\ a = \h0E000 + RingOffset[name] + i * 64
  <2>1. a \in Nat /\ \h0E000 <= a /\ a < \h0E000 + \h01000
    BY <1>2, RingPlace
  <2> QED
    BY <1>2, <2>1
<1>3. CASE name = "RXPBSIZE" /\ i \in 0 .. 7 /\ a = \h03C00 + i * 4
  <2>1. a \in Nat /\ \h03C00 <= a /\ a < \h03C20
    BY <1>3
  <2> QED
    BY <1>3, <2>1
<1>4. CASE name = "IVAR" /\ i \in 0 .. 31 /\ a = \h00900 + i * 4
  <2>1. a \in Nat /\ \h00900 <= a /\ a < \h00980
    BY <1>4
  <2> QED
    BY <1>4, <2>1
<1>5. CASE name \in SingleNames /\ i = 0 /\ a = SingleAddress[name]
  BY <1>5, SinglePlace
<1> QED
  BY <1>1, <1>2, <1>3, <1>4, <1>5 DEF InPlace

\* Two names with one place are the same name.
LEMMA NamesApart ==
  /\ RxRingNames \cap TxRingNames = {}
  /\ \A name \in RxRingNames \cup TxRingNames : name \notin {"RXPBSIZE", "IVAR"}
  /\ \A name \in SingleNames :
       name \notin RxRingNames \cup TxRingNames \cup {"RXPBSIZE", "IVAR"}
BY DEF RxRingNames, TxRingNames, SingleNames

LEMMA RingsApart ==
  ASSUME NEW base \in Nat, NEW a, NEW names \in {RxRingNames, TxRingNames},
         NEW n \in names, NEW m \in names, NEW i \in 0 .. MAX_QUEUES - 1, NEW k \in 0 .. MAX_QUEUES - 1,
         a = base + RingOffset[n] + i * 64, a = base + RingOffset[m] + k * 64
  PROVE  n = m /\ i = k
<1>1. RingOffset[n] \in 0 .. 63 /\ RingOffset[m] \in 0 .. 63
  BY DEF RingOffset, RxRingNames, TxRingNames
<1>2. i \in Nat /\ k \in Nat
  OBVIOUS
<1>3. RingOffset[n] = RingOffset[m] /\ i = k
  <2>1. PICK o \in 0 .. 63, u \in 0 .. 63 : o = RingOffset[n] /\ u = RingOffset[m]
    BY <1>1
  <2>2. base + o + i * 64 = base + u + k * 64
    BY <2>1
  <2>3. o = u /\ i = k
    BY <1>2, <2>2
  <2> QED
    BY <2>1, <2>3
<1>4. RingOffset[n] = RingOffset[m] => n = m
  BY DEF RingOffset, RxRingNames, TxRingNames
<1> QED
  BY <1>3, <1>4

\* No register that is used lies on another one.
LEMMA PlacesApart ==
  ASSUME RoomForQueues, NEW n, NEW i, NEW m, NEW k, NEW a,
         InPlace(n, i, a), InPlace(m, k, a)
  PROVE  n = m /\ i = k
<1>1. /\ n \in RxRingNames <=> m \in RxRingNames
      /\ n \in TxRingNames <=> m \in TxRingNames
      /\ n = "RXPBSIZE" <=> m = "RXPBSIZE"
      /\ n = "IVAR" <=> m = "IVAR"
      /\ n \in SingleNames <=> m \in SingleNames
  BY Intervals, NamesApart
<1>2. CASE n \in RxRingNames
  <2>1. /\ i \in 0 .. MAX_QUEUES - 1 /\ a = \h0C000 + RingOffset[n] + i * 64
        /\ k \in 0 .. MAX_QUEUES - 1 /\ a = \h0C000 + RingOffset[m] + k * 64
    BY <1>1, <1>2, NamesApart DEF InPlace
  <2>2. PICK base \in Nat : base = \h0C000
    OBVIOUS
  <2>3. a = base + RingOffset[n] + i * 64 /\ a = base + RingOffset[m] + k * 64
    BY <2>1, <2>2
  <2> QED
    BY <1>1, <1>2, <2>1, <2>3, RingsApart
<1>3. CASE n \in TxRingNames
  <2>1. /\ i \in 0 .. MAX_QUEUES - 1 /\ a = \h0E000 + RingOffset[n] + i * 64
        /\ k \in 0 .. MAX_QUEUES - 1 /\ a = \h0E000 + RingOffset[m] + k * 64
    BY <1>1, <1>3, NamesApart DEF InPlace
  <2>2. PICK base \in Nat : base = \h0E000
    OBVIOUS
  <2>3. a = base + RingOffset[n] + i * 64 /\ a = base + RingOffset[m] + k * 64
    BY <2>1, <2>2
  <2> QED
    BY <1>1, <1>3, <2>1, <2>3, RingsApart
<1>4. CASE n = "RXPBSIZE"
  <2>1. i \in 0 .. 7 /\ a = \h03C00 + i * 4 /\ k \in 0 .. 7 /\ a = \h03C00 + k * 4
    BY <1>1, <1>4, NamesApart DEF InPlace
  <2> QED
    BY <1>1, <1>4, <2>1
<1>5. CASE n = "IVAR"
  <2>1. i \in 0 .. 31 /\ a = \h00900 + i * 4 /\ k \in 0 .. 31 /\ a = \h00900 + k * 4
    BY <1>1, <1>5, NamesApart DEF InPlace
  <2> QED
    BY <1>1, <1>5, <2>1
<1>6. CASE n \in SingleNames
  <2>1. i = 0 /\ a = SingleAddress[n] /\ k = 0 /\ a = SingleAddress[m]
    BY <1>1, <1>6, NamesApart DEF InPlace
  <2>2. SingleAddress[n] = SingleAddress[m]
    BY <2>1
  <2>3. n = m
    BY <1>1, <1>6, <2>2, SinglePlace
  <2> QED
    BY <2>1, <2>3
<1> QED
  BY <1>2, <1>3, <1>4, <1>5, <1>6 DEF InPlace

\* No register that igb.rs reads or writes, in code that is compiled, lies on
\* another one (constants.rs), whatever the number of queues up to 64, and so for
\* every queue an application can ask for.
THEOREM UsedApart ==
  ASSUME RoomForQueues, NEW r \in Used, NEW s \in Used, Address[r] = Address[s]
  PROVE  r = s
<1>1. PICK n, i : r = <<n, i>> /\ InPlace(n, i, Address[<<n, i>>])
  BY UsedInPlace
<1>2. PICK m, k : s = <<m, k>> /\ InPlace(m, k, Address[<<m, k>>])
  BY UsedInPlace
<1>3. Address[<<n, i>>] = Address[<<m, k>>]
  BY <1>1, <1>2
<1> QED
  BY <1>1, <1>2, <1>3, PlacesApart

-----------------------------------------------------------------------------
(* Registers: a call's writes.                                             *)

\* The card keeps at its address what the driver made of each register since the
\* reset, but for the two that stand for the mask.
Kept ==
  /\ DOMAIN believed \subseteq Programmed
  /\ DOMAIN file = {Address[r] : r \in DOMAIN believed \ MaskRegister}
  /\ \A r \in DOMAIN believed \ MaskRegister : file[Address[r]] = believed[r]
  /\ mask \subseteq Bit

\* What is overwritten, and what is left.
LEMMA OverwrittenDomain ==
  ASSUME NEW f, NEW key, NEW writes
  PROVE  DOMAIN Overwritten(f, key, writes) = DOMAIN f \cup {key[i] : i \in DOMAIN key}
BY DEF Overwritten

LEMMA OverwrittenAt ==
  ASSUME NEW f, NEW key, NEW writes, NEW i \in DOMAIN key,
         NEW S, \A j : j \in S <=> j \in DOMAIN key /\ key[j] = key[i]
  PROVE  Overwritten(f, key, writes)[key[i]] = writes[Max(S)][2]
<1>1. S = {j \in DOMAIN key : key[j] = key[i]} /\ S # {}
  OBVIOUS
<1> QED
  BY <1>1 DEF Overwritten

LEMMA LeftAt ==
  ASSUME NEW f, NEW key, NEW writes, NEW x \in DOMAIN f, \A i \in DOMAIN key : key[i] # x
  PROVE  Overwritten(f, key, writes)[x] = f[x]
<1>1. {i \in DOMAIN key : key[i] = x} = {}
  OBVIOUS
<1> QED
  BY <1>1 DEF Overwritten

\* The registers of the mask are where nothing else is.
LEMMA PortsApart ==
  ASSUME RoomForQueues, NEW r \in Used
  PROVE  Address[r] \in MaskPorts <=> r \in MaskRegister
<1>1. R("IMS") \in Used /\ R("IMC") \in Used
  BY DEF Used, Programmed, MaskRegister
<1> QED
  BY <1>1, UsedApart DEF MaskPorts, MaskRegister

\* The driver's view and the card's stay together, through any writes.
LEMMA PerformKeeps ==
  ASSUME RoomForQueues, Kept, NEW writes, Perform(writes),
         \A i \in DOMAIN writes : writes[i][1] \in Programmed
  PROVE  Kept'
<1> DEFINE D == DOMAIN writes
           register == [i \in D |-> writes[i][1]]
           address == [i \in D |-> Address[register[i]]]
           held == {i \in D : address[i] \notin MaskPorts}
           at == [i \in held |-> address[i]]
<1>1. /\ file' = Overwritten(file, at, writes)
      /\ believed' = Overwritten(believed, register, writes)
      /\ mask' \subseteq Bit
  BY DEF Perform
<1>2. /\ \A i \in D : register[i] \in Programmed /\ register[i] \in Used
                      /\ address[i] = Address[register[i]]
      /\ DOMAIN register = D /\ DOMAIN at = held /\ \A i \in held : at[i] = address[i]
  BY DEF Used
<1>3. \A i \in D : i \in held <=> register[i] \notin MaskRegister
  BY <1>2, PortsApart
<1>4. \A r \in DOMAIN believed : r \in Used
  BY DEF Kept, Used
<1> HIDE DEF D, register, address, held, at
<1>5. DOMAIN believed' = DOMAIN believed \cup {register[i] : i \in D}
  BY <1>1, <1>2, OverwrittenDomain
<1>6. DOMAIN file' = DOMAIN file \cup {Address[register[i]] : i \in held}
  <2>1. DOMAIN file' = DOMAIN file \cup {at[i] : i \in held}
    BY <1>1, <1>2, OverwrittenDomain
  <2> QED
    BY <2>1, <1>2 DEF held
<1>7. DOMAIN file' = {Address[r] : r \in DOMAIN believed' \ MaskRegister}
  <2>1. held \subseteq D
    BY DEF held
  <2> QED
    BY <2>1, <1>3, <1>5, <1>6 DEF Kept
<1>8. ASSUME NEW r \in DOMAIN believed' \ MaskRegister
      PROVE  file'[Address[r]] = believed'[r]
  <2>1. CASE \E i \in D : register[i] = r
    <3>1. PICK i \in D : register[i] = r
      BY <2>1
    <3>2. i \in held /\ at[i] = Address[r] /\ r \in Used
      BY <1>2, <1>3, <1>8, <3>1
    <3>3. ASSUME NEW j PROVE j \in held /\ at[j] = at[i] <=> j \in D /\ register[j] = register[i]
      <4>1. ASSUME j \in held, at[j] = at[i] PROVE j \in D /\ register[j] = register[i]
        <5>1. j \in D
          BY <4>1 DEF held
        <5>2. Address[register[j]] = Address[r] /\ register[j] \in Used
          BY <5>1, <4>1, <3>2, <1>2
        <5> QED
          BY <5>1, <5>2, <3>1, <3>2, UsedApart
      <4>2. ASSUME j \in D, register[j] = register[i] PROVE j \in held /\ at[j] = at[i]
        BY <4>2, <3>1, <3>2, <1>2, <1>3, <1>8
      <4> QED
        BY <4>1, <4>2
    <3>4. PICK S : S = {j \in D : register[j] = register[i]}
      OBVIOUS
    <3>5. /\ \A j : j \in S <=> j \in DOMAIN register /\ register[j] = register[i]
          /\ \A j : j \in S <=> j \in DOMAIN at /\ at[j] = at[i]
      BY <1>2, <3>3, <3>4
    <3>6. file'[at[i]] = writes[Max(S)][2]
      BY <1>1, <1>2, <3>2, <3>5, OverwrittenAt
    <3>7. believed'[register[i]] = writes[Max(S)][2]
      BY <1>1, <1>2, <3>1, <3>5, OverwrittenAt
    <3> QED
      BY <3>1, <3>2, <3>6, <3>7
  <2>2. CASE ~\E i \in D : register[i] = r
    <3>1. r \in DOMAIN believed /\ r \in Used /\ file[Address[r]] = believed[r]
          /\ Address[r] \in DOMAIN file
      BY <1>4, <1>5, <1>8, <2>2 DEF Kept
    <3>2. ASSUME NEW i \in held PROVE at[i] # Address[r]
      <4>1. i \in D
        BY DEF held
      <4> QED
        BY <4>1, <1>2, <2>2, <3>1, UsedApart
    <3>3. file'[Address[r]] = file[Address[r]]
      BY <1>1, <1>2, <3>1, <3>2, LeftAt
    <3>4. believed'[r] = believed[r]
      BY <1>1, <1>2, <2>2, <3>1, LeftAt
    <3> QED
      BY <3>1, <3>3, <3>4
  <2> QED
    BY <2>1, <2>2
<1>9. DOMAIN believed' \subseteq Programmed
  BY <1>2, <1>5 DEF Kept
<1> QED
  BY <1>1, <1>7, <1>8, <1>9 DEF Kept

\* What is read of a register is what the driver made of it.
LEMMA ReadIs ==
  ASSUME RoomForQueues, NEW r \in Used, r \notin MaskRegister, NEW F, NEW B, NEW W,
         DOMAIN B \subseteq Programmed,
         DOMAIN F = {Address[s] : s \in DOMAIN B \ MaskRegister},
         \A s \in DOMAIN B \ MaskRegister : F[Address[s]] = B[s]
  PROVE  /\ Address[r] \in DOMAIN F <=> r \in DOMAIN B
         /\ (IF Address[r] \in DOMAIN F THEN F[Address[r]] ELSE W)
              = (IF r \in DOMAIN B THEN B[r] ELSE W)
<1>1. ASSUME Address[r] \in DOMAIN F PROVE r \in DOMAIN B
  <2>1. PICK s \in DOMAIN B \ MaskRegister : Address[s] = Address[r]
    BY <1>1
  <2>2. s \in Used
    BY DEF Used
  <2> QED
    BY <2>1, <2>2, UsedApart
<1> QED
  BY <1>1

LEMMA PerformReads ==
  ASSUME RoomForQueues, Kept, NEW writes, Perform(writes),
         \A i \in DOMAIN writes : writes[i][1] \in Programmed,
         NEW r \in Used, r \notin MaskRegister
  PROVE  /\ (\A i \in DOMAIN writes : writes[i][1] # r) => get_reg32(r)' = get_reg32(r)
         /\ \A i \in DOMAIN writes :
              (\A j \in DOMAIN writes : writes[j][1] = r <=> j = i) =>
                get_reg32(r)' = writes[Max({i})][2]
<1> DEFINE register == [i \in DOMAIN writes |-> writes[i][1]]
<1>1. believed' = Overwritten(believed, register, writes) /\ power_on' = power_on
  BY DEF Perform
<1>2. Kept'
  BY PerformKeeps
<1>3. r # R("IMS")
  BY DEF MaskRegister
<1>4. get_reg32(r) = IF r \in DOMAIN believed THEN believed[r] ELSE power_on
  BY <1>3, ReadIs DEF get_reg32, Kept
<1>5. get_reg32(r)' = IF r \in DOMAIN believed' THEN believed'[r] ELSE power_on
  <2>1. get_reg32(r)' =
          IF Address[r] \in DOMAIN file' THEN file'[Address[r]] ELSE power_on
    BY <1>1, <1>3 DEF get_reg32
  <2>2. /\ DOMAIN believed' \subseteq Programmed
        /\ DOMAIN file' = {Address[s] : s \in DOMAIN believed' \ MaskRegister}
        /\ \A s \in DOMAIN believed' \ MaskRegister : file'[Address[s]] = believed'[s]
    BY <1>2 DEF Kept
  <2> QED
    BY <2>1, <2>2, ReadIs
<1>6. /\ DOMAIN register = DOMAIN writes
      /\ \A i \in DOMAIN writes : register[i] = writes[i][1]
  OBVIOUS
<1> HIDE DEF register
<1>7. DOMAIN believed' = DOMAIN believed \cup {register[i] : i \in DOMAIN writes}
  BY <1>1, <1>6, OverwrittenDomain
<1>8. ASSUME \A i \in DOMAIN writes : writes[i][1] # r
      PROVE  get_reg32(r)' = get_reg32(r)
  <2>1. r \in DOMAIN believed' <=> r \in DOMAIN believed
    BY <1>6, <1>7, <1>8
  <2>2. r \in DOMAIN believed => believed'[r] = believed[r]
    BY <1>1, <1>6, <1>8, LeftAt
  <2> QED
    BY <1>4, <1>5, <2>1, <2>2
<1>9. ASSUME NEW i \in DOMAIN writes, \A j \in DOMAIN writes : writes[j][1] = r <=> j = i
      PROVE  get_reg32(r)' = writes[Max({i})][2]
  <2>1. register[i] = r
    BY <1>6, <1>9
  <2>2. \A j : j \in {i} <=> j \in DOMAIN register /\ register[j] = register[i]
    BY <1>6, <1>9, <2>1
  <2>3. Overwritten(believed, register, writes)[register[i]] = writes[Max({i})][2]
    BY <1>6, <2>2, OverwrittenAt
  <2> QED
    BY <1>1, <1>5, <1>7, <2>1, <2>3
<1> QED
  BY <1>8, <1>9

\* The mask is as it was unless IMS or IMC is written.
LEMMA MaskLeft ==
  ASSUME RoomForQueues, Kept, NEW writes, Perform(writes),
         \A i \in DOMAIN writes : writes[i][1] \in Programmed \ MaskRegister
  PROVE  mask' = mask
<1>1. \A i \in DOMAIN writes : Address[writes[i][1]] \notin MaskPorts
  BY PortsApart DEF Used
<1>2. \A b : {i \in DOMAIN writes \ {k \in DOMAIN writes :
                  [j \in DOMAIN writes |-> Address[[l \in DOMAIN writes |-> writes[l][1]][j]]][k]
                    \notin MaskPorts} : b \in writes[i][2]} = {}
  BY <1>1
<1> QED
  BY <1>2 DEF Perform, Kept

LEMMA MaxOne ==
  ASSUME NEW i \in Int
  PROVE  Max({i}) = i
BY DEF Max

\* A bit of the mask that no write to IMS or IMC has is left; one that a single
\* write has is as that write makes it.
LEMMA BitOfMask ==
  ASSUME RoomForQueues, NEW writes, Perform(writes), DOMAIN writes \subseteq Int,
         \A i \in DOMAIN writes : writes[i][1] \in Programmed,
         NEW b
  PROVE  /\ (\A i \in DOMAIN writes : writes[i][1] \in MaskRegister => b \notin writes[i][2])
              => (b \in mask' => b \in mask)
         /\ \A i \in DOMAIN writes :
              (\A j \in DOMAIN writes :
                 writes[j][1] \in MaskRegister /\ b \in writes[j][2] <=> j = i)
                => (b \in mask' => writes[i][1] = R("IMS"))
<1> DEFINE D == DOMAIN writes
           register == [i \in D |-> writes[i][1]]
           address == [i \in D |-> Address[register[i]]]
           held == {i \in D : address[i] \notin MaskPorts}
           about(c) == {i \in D \ held : c \in writes[i][2]}
<1>1. mask' = {c \in Bit : IF about(c) = {} THEN c \in mask
                           ELSE address[Max(about(c))] = Address[R("IMS")]}
  BY DEF Perform
<1>2. \A i \in D : address[i] = Address[writes[i][1]]
  OBVIOUS
<1>3. \A i \in D : i \in held <=> writes[i][1] \notin MaskRegister
  BY <1>2, PortsApart DEF Used
<1> HIDE DEF address, held
<1>4. ASSUME \A i \in D : writes[i][1] \in MaskRegister => b \notin writes[i][2],
             b \in mask'
      PROVE  b \in mask
  <2>1. about(b) = {}
    BY <1>3, <1>4
  <2> QED
    BY <1>1, <1>4, <2>1
<1>5. ASSUME NEW i \in D, b \in mask',
             \A j \in D : writes[j][1] \in MaskRegister /\ b \in writes[j][2] <=> j = i
      PROVE  writes[i][1] = R("IMS")
  <2>1. about(b) = {i}
    BY <1>3, <1>5
  <2>2. Max(about(b)) = i
    BY <2>1, MaxOne
  <2> HIDE DEF about
  <2>3. address[i] = Address[R("IMS")]
    BY <1>1, <1>5, <2>1, <2>2
  <2>4. R("IMS") \in Used /\ writes[i][1] \in Used
    BY DEF Used, Programmed, MaskRegister
  <2> QED
    BY <1>2, <2>3, <2>4, UsedApart
<1> QED
  BY <1>4, <1>5

-----------------------------------------------------------------------------
(* Registers: the inductive invariant.                                     *)


RegInv ==
  /\ Kept
  /\ DOMAIN ivars \subseteq (0 .. 1) \X Queue
  /\ \A m \in DOMAIN ivars : ivars[m] \in Vector
  /\ MappingsAreKept
  /\ disabled \cap mask = {}

\* The kinds of registers are apart.
LEMMA KindsApart ==
  /\ \A r \in OtherRegister : r \notin MaskRegister /\ r \notin VectorRegister
  /\ \A r \in VectorRegister : r \notin MaskRegister
  /\ \A r \in MaskRegister : r[1] # "IVAR"
  /\ \A r \in OtherRegister : r[1] # "IVAR"
<1>1. \A r \in OtherRegister : r[1] \notin {"IMS", "IMC", "IVAR"}
  BY DEF OtherRegister, R, RxRingNames, TxRingNames
<1>2. \A r \in VectorRegister : r[1] = "IVAR"
  BY DEF VectorRegister
<1>3. \A r \in MaskRegister : r[1] \in {"IMS", "IMC"}
  BY DEF MaskRegister, R
<1> QED
  BY <1>1, <1>2, <1>3

\* An action that writes neither the mask nor a vector, which most do.
Quiet(writes) ==
  /\ Perform(writes)
  /\ \A i \in DOMAIN writes : writes[i][1] \in OtherRegister
  /\ UNCHANGED <<disabled, ivars>>

LEMMA QuietKeeps ==
  ASSUME RoomForQueues, RegInv, NEW writes, Quiet(writes)
  PROVE  RegInv'
<1>1. /\ Perform(writes) /\ disabled' = disabled /\ ivars' = ivars
      /\ \A i \in DOMAIN writes : writes[i][1] \in OtherRegister
      /\ \A i \in DOMAIN writes : writes[i][1] \in Programmed
      /\ \A i \in DOMAIN writes : writes[i][1] \in Programmed \ MaskRegister
  BY KindsApart DEF Quiet, Programmed
<1>2. Kept /\ Kept' /\ mask' = mask
  BY <1>1, PerformKeeps, MaskLeft DEF RegInv
<1>3. ASSUME NEW r \in VectorRegister PROVE get_reg32(r)' = get_reg32(r)
  <2>1. r \in Used /\ r \notin MaskRegister
    BY KindsApart DEF Used, Programmed
  <2>2. \A i \in DOMAIN writes : writes[i][1] # r
    BY <1>1, KindsApart
  <2> QED
    BY <1>1, <1>2, <2>1, <2>2, PerformReads
<1>4. \A m \in DOMAIN ivars : <<"IVAR", m[2] \div 2>> \in VectorRegister
  BY DEF RegInv, VectorRegister
<1>5. \A m \in DOMAIN ivars :
        get_reg32(<<"IVAR", m[2] \div 2>>)' = get_reg32(<<"IVAR", m[2] \div 2>>)
  BY <1>3, <1>4
<1>6. MappingsAreKept'
  <2> SUFFICES ASSUME NEW m \in DOMAIN ivars'
      PROVE get_reg32(<<"IVAR", m[2] \div 2>>)' \cap {8 * (2 * (m[2] % 2) + m[1]) + b : b \in 0 .. 7}
              = {8 * (2 * (m[2] % 2) + m[1]) + b : b \in ivars'[m] \cup {7}}
    BY DEF MappingsAreKept
  <2> QED
    BY <1>1, <1>5 DEF RegInv, MappingsAreKept
<1> QED
  BY <1>1, <1>2, <1>6 DEF RegInv

-----------------------------------------------------------------------------
(* Registers: set_ivar.                                                    *)

\* Two entries of a register have no bit in common.
LEMMA FieldsApart ==
  ASSUME NEW p \in 0 .. 1, NEW d \in 0 .. 1, NEW s \in 0 .. 1, NEW e \in 0 .. 1,
         p # s \/ d # e, NEW b \in 0 .. 7, NEW c \in 0 .. 7
  PROVE  8 * (2 * p + d) + b # 8 * (2 * s + e) + c
<1>1. 2 * p + d \in 0 .. 3 /\ 2 * s + e \in 0 .. 3 /\ 2 * p + d # 2 * s + e
  OBVIOUS
<1> QED
  BY <1>1

\* The queues of a register are told apart by their parity.
LEMMA EvenHalf ==
  ASSUME NEW q \in Int, NEW d \in Int, d = q \div 2, q % 2 = 0
  PROVE  q = 2 * d
OBVIOUS

LEMMA OddHalf ==
  ASSUME NEW q \in Int, NEW d \in Int, d = q \div 2, q % 2 # 0
  PROVE  q = 2 * d + 1
OBVIOUS

LEMMA SameRegister ==
  ASSUME NEW q \in Nat, NEW k \in Nat, q \div 2 = k \div 2, q % 2 = k % 2
  PROVE  q = k
<1>1. PICK d \in Int : d = q \div 2 /\ d = k \div 2
  OBVIOUS
<1>2. CASE q % 2 = 0
  BY <1>1, <1>2, EvenHalf
<1>3. CASE q % 2 # 0
  BY <1>1, <1>3, OddHalf
<1> QED
  BY <1>2, <1>3

\* A value with the field at n cleared and an entry put into it.
LEMMA FieldSet ==
  ASSUME NEW n \in Nat, NEW X, NEW V \in SUBSET (0 .. 7)
  PROVE  ((X \ (n .. n + 7)) \cup {n + b : b \in V}) \cap {n + b : b \in 0 .. 7}
           = {n + b : b \in V}
<1>1. {n + b : b \in 0 .. 7} = n .. n + 7
  <2>1. \A x \in n .. n + 7 : x = n + (x - n) /\ x - n \in 0 .. 7
    OBVIOUS
  <2> QED
    BY <2>1
<1>2. {n + b : b \in V} \subseteq {n + b : b \in 0 .. 7}
  OBVIOUS
<1> QED
  BY <1>1, <1>2

LEMMA SetIvarKeeps ==
  ASSUME RoomForQueues, RegInv, NEW direction \in 0 .. 1, NEW q \in Queue, NEW vector \in Vector,
         set_ivar(direction, q, vector)
  PROVE  RegInv'
<1> DEFINE r == <<"IVAR", q \div 2>>
           shifted == {ivar_index(direction, q) + b : b \in IvarEntry(vector)}
           value == (get_reg32(r) \ IvarField(direction, q)) \cup shifted
           n == 8 * (2 * (q % 2) + direction)
<1>1. /\ Perform(<<Write(r, value)>>)
      /\ ivars' = [m \in {<<direction, q>>} |-> vector] \sqcup ivars
      /\ disabled' = disabled
  BY DEF set_ivar
<1>2. q \in Nat /\ Queue \subseteq Nat /\ vector \subseteq 0 .. 6
  BY RegistersAssumption
<1>3. n \in Nat /\ ivar_index(direction, q) = n
  BY <1>2 DEF ivar_index
<1>4. value = (get_reg32(r) \ (n .. n + 7)) \cup {n + b : b \in vector \cup {7}}
  BY <1>3 DEF IvarField, IvarEntry
<1>5. r \in VectorRegister /\ r \in Programmed /\ r \in Used /\ r \notin MaskRegister
  BY KindsApart DEF VectorRegister, Used, Programmed
<1>6. DOMAIN ivars' = DOMAIN ivars \cup {<<direction, q>>} /\ ivars'[<<direction, q>>] = vector
      /\ \A m \in DOMAIN ivars' : m # <<direction, q>> => m \in DOMAIN ivars /\ ivars'[m] = ivars[m]
  BY <1>1 DEF \sqcup
<1> HIDE DEF n, value, r
<1> DEFINE writes == <<Write(r, value)>>
<1>7. DOMAIN writes = {1} /\ writes[1][1] = r /\ writes[1][2] = value
  BY DEF Write
<1>8. Perform(writes)
  BY <1>1
<1> HIDE DEF writes
<1>9. /\ \A i \in DOMAIN writes : writes[i][1] \in Programmed
      /\ \A i \in DOMAIN writes : writes[i][1] \in Programmed \ MaskRegister
      /\ \A i \in DOMAIN writes : writes[i][1] = r
  BY <1>5, <1>7
<1>10. Kept /\ Kept' /\ mask' = mask
  BY <1>8, <1>9, PerformKeeps, MaskLeft DEF RegInv
<1>11. get_reg32(r)' = value
  <2>1. \A j \in DOMAIN writes : writes[j][1] = r <=> j = 1
    BY <1>7
  <2>2. get_reg32(r)' = writes[Max({1})][2]
    BY <1>5, <1>7, <1>8, <1>9, <1>10, <2>1, PerformReads
  <2> QED
    BY <1>7, <2>2, MaxOne
<1>12. ASSUME NEW s \in VectorRegister, s # r PROVE get_reg32(s)' = get_reg32(s)
  <2>1. s \in Used /\ s \notin MaskRegister
    BY KindsApart DEF Used, Programmed
  <2>2. \A i \in DOMAIN writes : writes[i][1] # s
    BY <1>9, <1>12
  <2> QED
    BY <1>8, <1>9, <1>10, <2>1, <2>2, PerformReads
<1>13. ASSUME NEW m \in DOMAIN ivars'
       PROVE  get_reg32(<<"IVAR", m[2] \div 2>>)' \cap {8 * (2 * (m[2] % 2) + m[1]) + b : b \in 0 .. 7}
                = {8 * (2 * (m[2] % 2) + m[1]) + b : b \in ivars'[m] \cup {7}}
  <2>1. CASE m = <<direction, q>>
    <3>1. m[1] = direction /\ m[2] = q /\ ivars'[m] = vector /\ vector \cup {7} \in SUBSET (0 .. 7)
      BY <1>2, <1>6, <2>1
    <3>2. value \cap {n + b : b \in 0 .. 7} = {n + b : b \in vector \cup {7}}
      BY <1>3, <1>4, <3>1, FieldSet
    <3> QED
      BY <1>11, <3>1, <3>2 DEF n, r
  <2>2. CASE m # <<direction, q>>
    <3>1. m \in DOMAIN ivars /\ ivars'[m] = ivars[m]
      BY <1>6, <2>2
    <3>2. PICK e \in 0 .. 1, k \in Queue : m = <<e, k>>
      BY <3>1 DEF RegInv
    <3> DEFINE s == <<"IVAR", k \div 2>>
               a == 8 * (2 * (k % 2) + e)
    <3>3. get_reg32(s) \cap {a + b : b \in 0 .. 7} = {a + b : b \in ivars[m] \cup {7}}
      BY <3>1, <3>2 DEF RegInv, MappingsAreKept
    <3>4. s \in VectorRegister /\ k \in Nat /\ k % 2 \in 0 .. 1 /\ q % 2 \in 0 .. 1
      BY <1>2 DEF VectorRegister
    <3>5. get_reg32(s)' \cap {a + b : b \in 0 .. 7} = get_reg32(s) \cap {a + b : b \in 0 .. 7}
      <4>1. CASE s # r
        BY <1>12, <3>4, <4>1
      <4>2. CASE s = r
        <5>1. k \div 2 = q \div 2
          BY <4>2 DEF r
        <5>2. k % 2 # q % 2 \/ e # direction
          BY <1>2, <2>2, <3>2, <3>4, <5>1, SameRegister
        <5>3. \A b \in 0 .. 7 : \A c \in 0 .. 7 : a + b # n + c
          BY <3>4, <5>2, FieldsApart DEF n
        <5>4. \A b \in 0 .. 7 : a + b \notin n .. n + 7
          <6> SUFFICES ASSUME NEW b \in 0 .. 7, a + b \in n .. n + 7 PROVE FALSE
            OBVIOUS
          <6>1. a + b \in Int
            BY <3>4
          <6>2. (a + b) - n \in 0 .. 7 /\ a + b = n + ((a + b) - n)
            BY <6>1, <1>3
          <6> QED
            BY <5>3, <6>2
        <5>5. \A b \in 0 .. 7 : a + b \notin {n + c : c \in vector \cup {7}}
          BY <1>2, <5>3
        <5> HIDE DEF a, s
        <5>6. \A b \in 0 .. 7 : a + b \in value <=> a + b \in get_reg32(r)
          BY <1>4, <5>4, <5>5
        <5>7. get_reg32(s)' = value /\ get_reg32(s) = get_reg32(r)
          BY <4>2, <1>11 DEF s
        <5> QED
          BY <5>6, <5>7
      <4> QED
        BY <4>1, <4>2
    <3> QED
      BY <3>1, <3>2, <3>3, <3>5
  <2> QED
    BY <2>1, <2>2
<1>14. MappingsAreKept'
  BY <1>13 DEF MappingsAreKept
<1> QED
  BY <1>1, <1>6, <1>10, <1>14 DEF RegInv

-----------------------------------------------------------------------------
(* Registers: disable_interrupt and disable_interrupts.                    *)

\* Writing old \ D to IMS and D to IMC, in this order, masks D and unmasks
\* nothing.
LEMMA MaskingKeeps ==
  ASSUME RoomForQueues, RegInv, NEW Low \in SUBSET mask, NEW D, D \cap Low = {},
         Perform(<<Write(R("IMS"), Low), Write(R("IMC"), D)>>),
         ivars' = ivars, disabled' \subseteq disabled \cup D
  PROVE  RegInv'
<1> DEFINE writes == <<Write(R("IMS"), Low), Write(R("IMC"), D)>>
<1>1. /\ DOMAIN writes = {1, 2}
      /\ writes[1][1] = R("IMS") /\ writes[1][2] = Low
      /\ writes[2][1] = R("IMC") /\ writes[2][2] = D
  BY DEF Write
<1>2. Perform(writes)
  OBVIOUS
<1> HIDE DEF writes
<1>3. /\ \A i \in DOMAIN writes : writes[i][1] \in MaskRegister
      /\ \A i \in DOMAIN writes : writes[i][1] \in Programmed
      /\ DOMAIN writes \subseteq Int
  BY <1>1 DEF MaskRegister, Programmed
<1>4. Kept /\ Kept'
  BY <1>2, <1>3, PerformKeeps DEF RegInv
<1>5. R("IMC") # R("IMS")
  BY DEF R
<1>6. ASSUME NEW b \in mask' PROVE b \in mask /\ b \notin D
  <2>1. CASE b \in D
    <3>1. \A j \in DOMAIN writes : writes[j][1] \in MaskRegister /\ b \in writes[j][2] <=> j = 2
      BY <1>1, <1>3, <2>1
    <3>2. writes[2][1] = R("IMS")
      BY <1>1, <1>2, <1>3, <3>1, BitOfMask
    <3> QED
      BY <1>1, <1>5, <3>2
  <2>2. CASE b \notin D /\ b \in Low
    BY <2>2
  <2>3. CASE b \notin D /\ b \notin Low
    <3>1. \A i \in DOMAIN writes : writes[i][1] \in MaskRegister => b \notin writes[i][2]
      BY <1>1, <2>3
    <3> QED
      BY <1>2, <1>3, <2>3, <3>1, BitOfMask
  <2> QED
    BY <2>1, <2>2, <2>3
<1>7. disabled' \cap mask' = {}
  BY <1>6 DEF RegInv
<1>8. ASSUME NEW r \in VectorRegister PROVE get_reg32(r)' = get_reg32(r)
  <2>1. r \in Used /\ r \notin MaskRegister
    BY <1>8, KindsApart DEF Used, Programmed
  <2>2. \A i \in DOMAIN writes : writes[i][1] # r
    BY <1>3, <2>1
  <2> QED
    BY <1>2, <1>3, <1>4, <2>1, <2>2, PerformReads
<1>9. \A m \in DOMAIN ivars :
        get_reg32(<<"IVAR", m[2] \div 2>>)' = get_reg32(<<"IVAR", m[2] \div 2>>)
  <2>1. \A m \in DOMAIN ivars : <<"IVAR", m[2] \div 2>> \in VectorRegister
    BY DEF RegInv, VectorRegister
  <2> QED
    BY <1>8, <2>1
<1>10. MappingsAreKept'
  <2> SUFFICES ASSUME NEW m \in DOMAIN ivars'
      PROVE get_reg32(<<"IVAR", m[2] \div 2>>)' \cap {8 * (2 * (m[2] % 2) + m[1]) + b : b \in 0 .. 7}
              = {8 * (2 * (m[2] % 2) + m[1]) + b : b \in ivars'[m] \cup {7}}
    BY DEF MappingsAreKept
  <2> QED
    BY <1>9 DEF RegInv, MappingsAreKept
<1> QED
  BY <1>4, <1>7, <1>10 DEF RegInv

LEMMA DisableKeeps ==
  ASSUME RoomForQueues, RegInv,
         disable_interrupts \/ \E q \in Queue : disable_interrupt(q)
  PROVE  RegInv'
<1>1. CASE disable_interrupts
  <2>1. {} \in SUBSET mask /\ Bit \cap {} = {} /\ ivars' = ivars /\ disabled' \subseteq disabled \cup Bit
        /\ Perform(<<Write(R("IMS"), {}), Write(R("IMC"), Bit)>>)
    BY <1>1 DEF disable_interrupts
  <2> QED
    BY <2>1, MaskingKeeps
<1>2. ASSUME NEW q \in Queue, disable_interrupt(q) PROVE RegInv'
  <2>1. mask \ {q} \in SUBSET mask /\ {q} \cap (mask \ {q}) = {} /\ ivars' = ivars
        /\ disabled' \subseteq disabled \cup {q}
        /\ Perform(<<Write(R("IMS"), mask \ {q}), Write(R("IMC"), {q})>>)
    BY <1>2 DEF disable_interrupt
  <2> QED
    BY <2>1, MaskingKeeps
<1> QED
  BY <1>1, <1>2

-----------------------------------------------------------------------------
(* Registers: the other actions are quiet.                                 *)

\* What is concatenated keeps the registers that its parts write.
LEMMA WritesJoined ==
  ASSUME NEW S, NEW s \in Seq(S), NEW t \in Seq(S),
         \A w \in S : w[1] \in OtherRegister
  PROVE  /\ s \o t \in Seq(S)
         /\ \A i \in DOMAIN (s \o t) : (s \o t)[i][1] \in OtherRegister
OBVIOUS

LEMMA InitReceiverKeeps ==
  ASSUME RoomForQueues, RegInv, InitReceiver
  PROVE  RegInv'
<1>1. \A i \in 0 .. 7 : <<"RXPBSIZE", i>> \in OtherRegister
  BY DEF OtherRegister
<1>2. /\ R("RXCTRL") \in OtherRegister /\ R("HLREG0") \in OtherRegister
      /\ R("RDRXCTL") \in OtherRegister /\ R("FCTRL") \in OtherRegister
  BY DEF OtherRegister
<1> DEFINE first == <<ClearFlags(R("RXCTRL"), {1}), Write(<<"RXPBSIZE", 0>>, {17})>>
           middle == [i \in 1 .. 7 |-> Write(<<"RXPBSIZE", i>>, {})]
           last == <<SetFlags(R("HLREG0"), {1}), SetFlags(R("RDRXCTL"), {1}),
                     SetFlags(R("FCTRL"), {10}), SetFlags(R("RXCTRL"), {1, 15})>>
           W == {first[1], first[2], last[1], last[2], last[3], last[4]}
                  \cup {middle[i] : i \in 1 .. 7}
<1>3. first \in Seq(W) /\ last \in Seq(W)
  OBVIOUS
<1>4. middle \in Seq(W)
  <2>1. middle \in [1 .. 7 -> W]
    OBVIOUS
  <2> QED
    BY <2>1
<1>5. \A w \in W : w[1] \in OtherRegister
  <2>1. \A i \in 1 .. 7 : middle[i] = <<<<"RXPBSIZE", i>>, {}>>
    BY DEF Write
  <2>2. \A i \in 1 .. 7 : middle[i][1] \in OtherRegister
    BY <1>1, <2>1
  <2>3. /\ first[1][1] = R("RXCTRL") /\ first[2][1] = <<"RXPBSIZE", 0>>
        /\ last[1][1] = R("HLREG0") /\ last[2][1] = R("RDRXCTL")
        /\ last[3][1] = R("FCTRL") /\ last[4][1] = R("RXCTRL")
    BY DEF ClearFlags, SetFlags, Write
  <2> HIDE DEF first, middle, last
  <2> QED
    BY <1>1, <1>2, <2>2, <2>3
<1>6. Perform(first \o middle \o last) /\ UNCHANGED <<disabled, ivars>>
  BY DEF InitReceiver
<1> HIDE DEF first, middle, last, W
<1>7. first \o middle \in Seq(W)
  BY <1>3, <1>4, <1>5, WritesJoined
<1>8. \A i \in DOMAIN (first \o middle \o last) :
        (first \o middle \o last)[i][1] \in OtherRegister
  BY <1>3, <1>5, <1>7, WritesJoined
<1> QED
  BY <1>6, <1>8, QuietKeeps DEF Quiet

\* A register of a ring is one that only rings have.
LEMMA RingIsOther ==
  ASSUME NEW q \in Queue, NEW n \in RxRingNames \cup TxRingNames
  PROVE  <<n, q>> \in OtherRegister
BY RegistersAssumption DEF OtherRegister

LEMMA RingsKeep ==
  ASSUME RoomForQueues, RegInv, NEW q \in Queue, NEW v \in Value,
         \/ InitRxRing(q, v, {4}) \/ InitTxRing(q, v, {4})
         \/ StartRxQueue(q, v) \/ SetTail("RDT", q, v) \/ SetTail("TDT", q, v)
  PROVE  RegInv'
<1>1. /\ <<"RDBAL", q>> \in OtherRegister /\ <<"RDBAH", q>> \in OtherRegister
      /\ <<"RDLEN", q>> \in OtherRegister /\ <<"RDH", q>> \in OtherRegister
      /\ <<"RDT", q>> \in OtherRegister /\ <<"RXDCTL", q>> \in OtherRegister
      /\ <<"TDBAL", q>> \in OtherRegister /\ <<"TDBAH", q>> \in OtherRegister
      /\ <<"TDLEN", q>> \in OtherRegister /\ <<"TDH", q>> \in OtherRegister
      /\ <<"TDT", q>> \in OtherRegister /\ <<"TXDCTL", q>> \in OtherRegister
      /\ R("DMATXCTL") \in OtherRegister
  BY RingIsOther DEF OtherRegister, RxRingNames, TxRingNames
<1>2. CASE InitRxRing(q, v, {4})
  <2>1. PICK writes :
          /\ writes = <<Write(<<"RDBAL", q>>, v), Write(<<"RDBAH", q>>, v),
                        Write(<<"RDLEN", q>>, {4}), Write(<<"RDH", q>>, {}),
                        Write(<<"RDT", q>>, {})>>
          /\ Perform(writes) /\ UNCHANGED <<disabled, ivars>>
    BY <1>2 DEF InitRxRing
  <2>2. \A i \in DOMAIN writes : writes[i][1] \in OtherRegister
    BY <1>1, <2>1 DEF Write
  <2> QED
    BY <2>1, <2>2, QuietKeeps DEF Quiet
<1>3. CASE InitTxRing(q, v, {4})
  <2>1. PICK writes, control :
          /\ writes = <<Write(<<"TDBAL", q>>, v), Write(<<"TDBAH", q>>, v),
                        Write(<<"TDLEN", q>>, {4}), Write(<<"TXDCTL", q>>, control),
                        Write(R("DMATXCTL"), {0})>>
          /\ Perform(writes) /\ UNCHANGED <<disabled, ivars>>
    BY <1>3 DEF InitTxRing
  <2>2. \A i \in DOMAIN writes : writes[i][1] \in OtherRegister
    BY <1>1, <2>1 DEF Write
  <2> QED
    BY <2>1, <2>2, QuietKeeps DEF Quiet
<1>4. CASE StartRxQueue(q, v)
  <2>1. PICK writes :
          /\ writes = <<SetFlags(<<"RXDCTL", q>>, {25}), Write(<<"RDH", q>>, {}),
                        Write(<<"RDT", q>>, v)>>
          /\ Perform(writes) /\ UNCHANGED <<disabled, ivars>>
    BY <1>4 DEF StartRxQueue
  <2>2. \A i \in DOMAIN writes : writes[i][1] \in OtherRegister
    BY <1>1, <2>1 DEF Write, SetFlags
  <2> QED
    BY <2>1, <2>2, QuietKeeps DEF Quiet
<1>5. ASSUME NEW n \in {"RDT", "TDT"}, SetTail(n, q, v) PROVE RegInv'
  <2>1. PICK writes :
          writes = <<Write(<<n, q>>, v)>> /\ Perform(writes) /\ UNCHANGED <<disabled, ivars>>
    BY <1>5 DEF SetTail
  <2>2. \A i \in DOMAIN writes : writes[i][1] \in OtherRegister
    BY <1>1, <1>5, <2>1 DEF Write
  <2> QED
    BY <2>1, <2>2, QuietKeeps DEF Quiet
<1> QED
  BY <1>2, <1>3, <1>4, <1>5

LEMMA PromiscKeeps ==
  ASSUME RoomForQueues, RegInv, NEW enabled \in BOOLEAN, set_promisc(enabled)
  PROVE  RegInv'
<1>1. PICK writes, value :
        /\ writes = <<Write(R("FCTRL"), value)>>
        /\ Perform(writes) /\ UNCHANGED <<disabled, ivars>>
  <2>1. CASE enabled
    BY <2>1 DEF set_promisc, SetFlags
  <2>2. CASE ~enabled
    BY <2>2 DEF set_promisc, ClearFlags
  <2> QED
    BY <2>1, <2>2
<1>2. \A i \in DOMAIN writes : writes[i][1] \in OtherRegister
  BY <1>1 DEF Write, OtherRegister
<1> QED
  BY <1>1, <1>2, QuietKeeps DEF Quiet

\* The single writes of the initialisation and of init_link.
LEMMA SetUpKeeps ==
  ASSUME RoomForQueues, RegInv, NEW call \in FlagsOfInit, SetUp(call[1], call[2])
  PROVE  RegInv'
<1>1. call[1] \in OtherRegister
  BY DEF FlagsOfInit, OtherRegister
<1>2. PICK writes, value :
        /\ writes = <<Write(call[1], value)>>
        /\ Perform(writes) /\ UNCHANGED <<disabled, ivars>>
  BY DEF SetUp, SetFlags
<1>3. \A i \in DOMAIN writes : writes[i][1] \in OtherRegister
  BY <1>1, <1>2 DEF Write
<1> QED
  BY <1>2, <1>3, QuietKeeps DEF Quiet

LEMMA InitLinkKeeps ==
  ASSUME RoomForQueues, RegInv, NEW data, init_link(data)
  PROVE  RegInv'
<1>1. PICK writes, first, second :
        /\ writes = <<Write(R("MDIC"), first), Write(R("MDIC"), second)>>
        /\ Perform(writes) /\ UNCHANGED <<disabled, ivars>>
  BY DEF init_link, SetFlags
<1>2. \A i \in DOMAIN writes : writes[i][1] \in OtherRegister
  BY <1>1 DEF Write, OtherRegister
<1> QED
  BY <1>1, <1>2, QuietKeeps DEF Quiet

\* After a reset nothing is programmed, and nothing is unmasked.
LEMMA ResetKeeps ==
  ASSUME global_reset
  PROVE  RegInv'
<1>1. DOMAIN file' = {} /\ DOMAIN believed' = {} /\ DOMAIN ivars' = {} /\ mask' = {}
  BY DEF global_reset
<1>2. Kept'
  BY <1>1 DEF Kept
<1>3. MappingsAreKept'
  BY <1>1 DEF MappingsAreKept
<1> QED
  BY <1>1, <1>2, <1>3 DEF RegInv

-----------------------------------------------------------------------------
(* Registers: theorems.                                                    *)

LEMMA RegInit ==
  ASSUME Init
  PROVE  RegInv
<1>1. DOMAIN file = {} /\ DOMAIN believed = {} /\ DOMAIN ivars = {} /\ disabled = {}
  BY DEF Init
<1>2. mask \subseteq Bit
  BY DEF Init
<1> QED
  BY <1>1, <1>2 DEF RegInv, Kept, MappingsAreKept

LEMMA RegStep ==
  ASSUME RoomForQueues, RegInv, [Next]_vars
  PROVE  RegInv'
<1>1. CASE InitReceiver
  BY <1>1, InitReceiverKeeps
<1>2. CASE disable_interrupts
  BY <1>2, DisableKeeps
<1>3. ASSUME NEW enabled \in BOOLEAN, set_promisc(enabled) PROVE RegInv'
  BY <1>3, PromiscKeeps
<1>4. ASSUME NEW q \in Queue, StartTxQueue(q) PROVE RegInv'
  <2>1. /\ <<"TDH", q>> \in OtherRegister /\ <<"TDT", q>> \in OtherRegister
        /\ <<"TXDCTL", q>> \in OtherRegister
    BY RingIsOther DEF TxRingNames
  <2>2. PICK writes :
          /\ writes = <<Write(<<"TDH", q>>, {}), Write(<<"TDT", q>>, {}),
                        SetFlags(<<"TXDCTL", q>>, {25})>>
          /\ Perform(writes) /\ UNCHANGED <<disabled, ivars>>
    BY <1>4 DEF StartTxQueue
  <2>3. \A i \in DOMAIN writes : writes[i][1] \in OtherRegister
    BY <2>1, <2>2 DEF Write, SetFlags
  <2> QED
    BY <2>2, <2>3, QuietKeeps DEF Quiet
<1>5. ASSUME NEW q \in Queue, disable_interrupt(q) PROVE RegInv'
  BY <1>5, DisableKeeps
<1>6. ASSUME NEW q \in Queue, NEW v \in Value,
             \/ InitRxRing(q, v, {4}) \/ InitTxRing(q, v, {4})
             \/ StartRxQueue(q, v) \/ SetTail("RDT", q, v) \/ SetTail("TDT", q, v)
      PROVE  RegInv'
  BY <1>6, RingsKeep
<1>7. ASSUME NEW q \in Queue, NEW direction \in 0 .. 1, NEW v \in Vector,
             set_ivar(direction, q, v)
      PROVE  RegInv'
  BY <1>7, SetIvarKeeps
<1>8. CASE global_reset
  BY <1>8, ResetKeeps
<1>9. ASSUME NEW call \in FlagsOfInit, SetUp(call[1], call[2]) PROVE RegInv'
  BY <1>9, SetUpKeeps
<1>10. ASSUME NEW data, init_link(data) PROVE RegInv'
  BY <1>10, InitLinkKeeps
<1>11. CASE UNCHANGED vars
  BY <1>11 DEF vars, RegInv, Kept, MappingsAreKept, get_reg32
<1> QED
  BY <1>1, <1>2, <1>3, <1>4, <1>5, <1>6, <1>7, <1>8, <1>9, <1>10, <1>11 DEF Next

LEMMA RegInvariant ==
  ASSUME RoomForQueues
  PROVE  Spec => []RegInv
<1>1. Init => RegInv
  BY RegInit
<1>2. RegInv /\ [Next]_vars => RegInv'
  BY RegStep
<1> QED
  BY <1>1, <1>2, PTL DEF Spec

\* ReadOnly has no register that the driver writes.
LEMMA ReadOnlyApart ==
  ASSUME NEW r \in ReadOnly
  PROVE  r \notin Programmed
<1>1. r[1] \in {"RAL", "RAH", "STATUS", "ICR", "GPRC", "GPTC", "GORCL", "GORCH", "GOTCL", "GOTCH"}
  BY DEF ReadOnly, R
<1>2. \A s \in Programmed :
        s[1] \notin {"RAL", "RAH", "STATUS", "ICR", "GPRC", "GPTC", "GORCL", "GORCH", "GOTCL", "GOTCH"}
  BY DEF Programmed, MaskRegister, VectorRegister, OtherRegister, R, RxRingNames, TxRingNames
<1> QED
  BY <1>1, <1>2

LEMMA RegInvReads ==
  ASSUME RoomForQueues, RegInv
  PROVE  ReadsBack
<1>1. ASSUME NEW r \in DOMAIN believed \ {R("IMS"), R("IMC")}
      PROVE  get_reg32(r) = believed[r]
  <2>1. r \in DOMAIN believed \ MaskRegister /\ r # R("IMS")
    BY DEF MaskRegister
  <2>2. Address[r] \in DOMAIN file /\ file[Address[r]] = believed[r]
    BY <2>1 DEF RegInv, Kept
  <2> QED
    BY <2>1, <2>2 DEF get_reg32
<1>2. ASSUME NEW r \in ReadOnly
      PROVE  Address[r] \notin DOMAIN file
  <2> SUFFICES ASSUME Address[r] \in DOMAIN file PROVE FALSE
    OBVIOUS
  <2>1. PICK s \in DOMAIN believed \ MaskRegister : Address[s] = Address[r]
    BY DEF RegInv, Kept
  <2>2. s \in Programmed /\ s \in Used /\ r \in Used
    BY <2>1 DEF RegInv, Kept, Used
  <2> QED
    BY <2>1, <2>2, UsedApart, ReadOnlyApart
<1> QED
  BY <1>1, <1>2 DEF ReadsBack

\* set_reg32, set_flags32 and clear_flags32 (igb.rs) reach the register that is
\* meant: whatever calls are made in whatever order, resets included, a register
\* that is read back gives what the last call since the reset made of it, and a
\* register that is only read is never hit, for every number of queues up to the
\* 64 of MAX_QUEUES.  What the card changes by itself is not a part of this.
THEOREM RegistersReadBack ==
  ASSUME RoomForQueues
  PROVE  Spec => []ReadsBack
<1>1. RegInv => ReadsBack
  BY RegInvReads
<1> QED
  BY <1>1, RegInvariant, PTL

\* set_ivar (igb.rs), which four mappings share a register in, changes the one
\* it is called for and no other, in any sequence of calls.
THEOREM MappingsStay ==
  ASSUME RoomForQueues
  PROVE  Spec => []MappingsAreKept
<1>1. RegInv => MappingsAreKept
  BY DEF RegInv
<1> QED
  BY <1>1, RegInvariant, PTL

\* After disable_interrupt or disable_interrupts (igb.rs) the interrupt stays
\* masked: no later call unmasks it, although both write to IMS, which can.
THEOREM DisabledStaysMasked ==
  ASSUME RoomForQueues
  PROVE  Spec => []DisabledIsMasked
<1>1. RegInv => DisabledIsMasked
  BY DEF RegInv, DisabledIsMasked
<1> QED
  BY <1>1, RegInvariant, PTL
=============================================================================
