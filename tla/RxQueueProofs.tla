---------------------------- MODULE RxQueueProofs ----------------------------
(***************************************************************************)
(* Proofs about the receive queue of RxQueue, for every ring size, pool,   *)
(* and number of packets.                                                  *)
(***************************************************************************)
EXTENDS RxQueue, PoolProofs, RingProofs

-----------------------------------------------------------------------------
(* Type correctness.                                                       *)

\* The entries that start_rx_queue leaves on the stacks are entries.
LEMMA InitialStack ==
  ASSUME NEW n \in Nat, n <= NumEntries
  PROVE  [k \in 1 .. n |-> k - 1] \in Seq(Entry)
<1>1. \A k \in 1 .. n : k - 1 \in Entry
  BY PoolAssumption DEF Entry
<1> QED
  BY <1>1

\* Types hold initially.
LEMMA TypeInit == Init => TypeOK
<1> SUFFICES ASSUME Init PROVE TypeOK
  OBVIOUS
<1>1. PoolTypeOK
  <2>1. [k \in 1 .. NumEntries |-> k - 1] \in Seq(Entry)
    BY InitialStack, PoolAssumption
  <2>2. [k \in 1 .. NumEntries - QS |-> k - 1] \in Seq(Entry)
    BY InitialStack, PoolAssumption, RingAssumption, RxAssumption
  <2>3. (CHOOSE f \in Frame : TRUE) \in Frame
    BY PoolAssumption
  <2> QED
    BY <2>1, <2>2, <2>3 DEF Init, PoolTypeOK
<1>2. 0 \in Ring /\ QS - 1 \in Ring
  BY RingAssumption DEF Ring
<1>3. bufs_in_use \in [Ring -> Entry]
  BY PoolAssumption, RingAssumption, RxAssumption DEF Init, Ring, Entry
<1>4. descriptors \in [Ring -> [addr : Buffer \cup {NoBuffer}, dd : BOOLEAN, eop : BOOLEAN]]
  BY <1>3, RxAssumption DEF Init, Armed, Buffer
<1>5. 0 \in 0 .. MaxNums
  BY RxAssumption
<1> QED
  BY <1>1, <1>2, <1>3, <1>4, <1>5 DEF Init, TypeOK

\* Every step keeps the types.
LEMMA TypeStep == TypeOK /\ [Next]_vars => TypeOK'
<1> SUFFICES ASSUME TypeOK, [Next]_vars PROVE TypeOK'
  OBVIOUS
<1>pool. PoolTypeOK
  BY DEF TypeOK
<1>1. CASE Application
  <2>1. PoolTypeOK'
    BY <1>pool, <1>1, AllocPktType, DropPktType DEF Application, Allocate, Free
  <2> QED
    BY <2>1, <1>1 DEF Application, Allocate, Free, TypeOK, driverVars, cardVars
<1>2. ASSUME NEW n \in 0 .. MaxNums, ReceiveStart(n) PROVE TypeOK'
  BY <1>2 DEF ReceiveStart, TypeOK, PoolTypeOK, poolVars, cardVars
<1>3. CASE EopPanic
  BY <1>3 DEF EopPanic, TypeOK, PoolTypeOK, driverVars, cardVars
<1>4. CASE Take
  <2>1. CanAlloc(RxPool) /\ RxPool \in Pool
    BY <1>4, RxAssumption DEF Take
  <2>2. Top(RxPool) \in Buffer /\ Popped(RxPool) \in [Pool -> Seq(Entry)]
    BY <1>pool, <2>1, PoppedType
  <2>3. Top(RxPool)[2] \in Entry
    BY <2>2, BufferPair
  <2>4. <<RxPool, bufs_in_use[rx_local]>> \in Buffer
    BY <2>1 DEF TypeOK, Buffer
  <2>5. PoolTypeOK'
    BY <1>pool, <1>4, <2>2, <2>4 DEF Take, PoolTypeOK
  <2>6. delivered' \in Frame /\ remaining' > 0
    BY <1>pool, <1>4, <2>4 DEF Take, Iterating, PoolTypeOK
  <2>7. (bufs_in_use \in [Ring -> Entry])'
    BY <1>4, <2>3 DEF Take, TypeOK
  <2> QED
    BY <1>4, <2>5, <2>6, <2>7 DEF Take, TypeOK, cardVars
<1>5. CASE Rearm
  <2>1. wrap_ring(rx_local) \in Ring
    BY WrapRingType DEF TypeOK, Ring
  <2>2. remaining' \in 0 .. MaxNums
    BY <1>5, RxAssumption DEF Rearm, TypeOK
  <2>3. (descriptors \in
           [Ring -> [addr : Buffer \cup {NoBuffer}, dd : BOOLEAN, eop : BOOLEAN]])'
    BY <1>5, RxAssumption DEF Rearm, Rearmed, Armed, TypeOK, Buffer
  <2> QED
    BY <1>5, <2>1, <2>2, <2>3 DEF Rearm, TypeOK, PoolTypeOK, poolVars, cardVars
<1>6. CASE ReceiveEnd
  BY <1>6 DEF ReceiveEnd, NewTail, TypeOK, PoolTypeOK, poolVars, cardVars
<1>7. CASE CardFetch
  <2>1. RDH' \in Ring
    BY <1>7, RingAssumption DEF CardFetch, TypeOK, Ring
  <2>2. (cached \in [Ring -> Buffer \cup {NoBuffer}])'
    BY <1>7 DEF CardFetch, TypeOK
  <2> QED
    BY <2>1, <2>2, <1>7 DEF CardFetch, TypeOK, PoolTypeOK, poolVars, driverVars
<1>8. ASSUME NEW f \in Frame, NEW eop \in EOP, CardReceive(f, eop) PROVE TypeOK'
  <2>1. written_back' \in Ring
    BY <1>8, RingAssumption DEF CardReceive, TypeOK, Ring
  <2>2. payload' \in [Buffer -> Frame]
    BY <1>8, <1>pool DEF CardReceive, PoolTypeOK
  <2>3. (cached \in [Ring -> Buffer \cup {NoBuffer}])'
    BY <1>8 DEF CardReceive, TypeOK
  <2>4. (descriptors \in
           [Ring -> [addr : Buffer \cup {NoBuffer}, dd : BOOLEAN, eop : BOOLEAN]])'
    BY <1>8, RxAssumption DEF CardReceive, TypeOK
  <2> QED
    BY <2>1, <2>2, <2>3, <2>4, <1>8 DEF CardReceive, TypeOK, PoolTypeOK, driverVars
<1>9. CASE UNCHANGED vars
  BY <1>9 DEF vars, TypeOK, PoolTypeOK, poolVars, driverVars, cardVars
<1> QED
  BY <1>1, <1>2, <1>3, <1>4, <1>5, <1>6, <1>7, <1>8, <1>9 DEF Next, Driver, Card

\* Every index and register of the receive side stays in the ring and every
\* other variable keeps to its type, for every ring size and pool: no access of
\* receive_packets or the card is out of bounds.
THEOREM TypeCorrect == Spec => []TypeOK
<1> QED
  BY TypeInit, TypeStep, PTL DEF Spec

-----------------------------------------------------------------------------
(* The inductive invariant.                                                *)

\* Offsets are less than the size of the ring, and tell its indices apart.
LEMMA OffsetRange ==
  ASSUME TypeOK, NEW i \in Ring, NEW j \in Ring
  PROVE  /\ LocalIndex \in Ring
         /\ Offset(i) \in 0 .. QS - 1
         /\ Offset(rx_index) = 0
         /\ Offset(i) = Offset(j) => i = j
<1>1. rx_index \in Ring /\ LocalIndex \in Ring
  BY DEF TypeOK, LocalIndex
<1> QED
  BY <1>1, DistanceRange DEF Offset

\* RDT is the last descriptor of the ring, seen from rx_index.
LEMMA OffsetTail ==
  ASSUME TypeOK, wrap_ring(RDT) = rx_index
  PROVE  Offset(RDT) = QS - 1
<1>1. rx_index \in Ring /\ RDT \in Ring
  BY DEF TypeOK
<1> QED
  BY <1>1, DistanceNext DEF Offset

\* The next index is one further, up to the end of the ring.
LEMMA OffsetNext ==
  ASSUME TypeOK, NEW i \in Ring, NEW j \in Ring, Offset(i) < Offset(j)
  PROVE  wrap_ring(i) \in Ring /\ Offset(wrap_ring(i)) = Offset(i) + 1
<1>1. rx_index \in Ring
  BY DEF TypeOK
<1>2. Offset(i) \in 0 .. QS - 1 /\ Offset(j) \in 0 .. QS - 1
  BY OffsetRange
<1>3. Distance(rx_index, i) < QS - 1
  BY <1>2, RingAssumption DEF Offset
<1> QED
  BY <1>1, <1>3, DistanceNext DEF Offset

\* After start_rx_queue the ring is full and the card at its start.
LEMMA InvInit == Init => Inv
<1> SUFFICES ASSUME Init PROVE Inv
  OBVIOUS
<1>1. TypeOK
  BY TypeInit
<1>2. QS \in Nat \ {0} /\ NumEntries \in Nat /\ QS <= NumEntries /\ RxPool \in Pool
  BY PoolAssumption, RingAssumption, RxAssumption
<1>3. ASSUME NEW n \in Nat, NEW s, s = [k \in 1 .. n |-> k - 1]
      PROVE  IsInjective(s) /\ ToSet(s) = 0 .. n - 1
  <2>1. IsInjective(s)
    BY <1>3 DEF IsInjective
  <2>2. ToSet(s) = {k - 1 : k \in 1 .. n}
    BY <1>3 DEF ToSet
  <2>3. \A m \in 0 .. n - 1 : m + 1 \in 1 .. n /\ m = (m + 1) - 1
    OBVIOUS
  <2>4. \A k \in 1 .. n : k - 1 \in 0 .. n - 1
    OBVIOUS
  <2> QED
    BY <2>1, <2>2, <2>3, <2>4
<1>4. OneOwner
  <2>1. ASSUME NEW p \in Pool
        PROVE  /\ IsInjective(free_stack[p])
               /\ ToSet(free_stack[p]) = IF p = RxPool THEN 0 .. NumEntries - QS - 1
                                                       ELSE Entry
    <3>1. CASE p = RxPool
      <4>1. free_stack[p] = [k \in 1 .. NumEntries - QS |-> k - 1]
        BY <3>1 DEF Init
      <4>2. NumEntries - QS \in Nat
        BY <1>2
      <4> QED
        BY <1>3, <3>1, <4>1, <4>2
    <3>2. CASE p # RxPool
      <4>1. free_stack[p] = [k \in 1 .. NumEntries |-> k - 1]
        BY <3>2 DEF Init
      <4> QED
        BY <1>2, <1>3, <3>2, <4>1 DEF Entry
    <3> QED
      BY <3>1, <3>2
  <2>2. bufs_in_use = [i \in Ring |-> NumEntries - 1 - i]
    BY DEF Init
  <2>3. IsInjective(bufs_in_use)
    BY <1>2, <2>2 DEF IsInjective, Ring
  <2>4. \A n \in Entry :
          <<RxPool, n>> \in RingBuffers <=> n \in NumEntries - QS .. NumEntries - 1
    <3>1. ASSUME NEW n \in NumEntries - QS .. NumEntries - 1
          PROVE  <<RxPool, n>> \in RingBuffers
      <4>1. NumEntries - 1 - n \in Ring
        BY <1>2 DEF Ring
      <4>2. bufs_in_use[NumEntries - 1 - n] = n
        BY <1>2, <2>2, <4>1
      <4> QED
        BY <4>1, <4>2 DEF RingBuffers
    <3>2. ASSUME NEW i \in Ring
          PROVE  bufs_in_use[i] \in NumEntries - QS .. NumEntries - 1
      BY <1>2, <2>2 DEF Ring
    <3> QED
      BY <3>1, <3>2 DEF RingBuffers
  <2>5. \A b \in RingBuffers : b[1] = RxPool
    BY DEF RingBuffers
  <2>6. ASSUME NEW b \in Buffer
        PROVE  b \notin held /\ (b \in RingBuffers <=> ~IsFree(b))
    <3>1. b[1] \in Pool /\ b[2] \in Entry /\ b = <<b[1], b[2]>>
      BY BufferPair
    <3>2. CASE b[1] = RxPool
      <4>1. b \in RingBuffers <=> b[2] \in NumEntries - QS .. NumEntries - 1
        BY <2>4, <3>1, <3>2
      <4>2. IsFree(b) <=> b[2] \in 0 .. NumEntries - QS - 1
        BY <2>1, <3>1, <3>2 DEF IsFree
      <4> QED
        BY <1>2, <3>1, <4>1, <4>2 DEF Init, Entry
    <3>3. CASE b[1] # RxPool
      BY <2>1, <2>5, <3>1, <3>3 DEF Init, IsFree
    <3> QED
      BY <3>2, <3>3
  <2> QED
    BY <2>1, <2>3, <2>6 DEF OneOwner, OwnedOnce
<1>5. /\ 0 \in Ring /\ QS - 1 \in Ring /\ wrap_ring(QS - 1) = 0
      /\ LocalIndex = 0 /\ Offset(0) = 0
      /\ \A i \in Ring : Offset(i) \in 0 .. QS - 1
  BY <1>1, <1>2, OffsetRange, WrapRing DEF Init, Ring, LocalIndex
<1>6. RingInOrder
  BY <1>5 DEF Init, RingInOrder
<1>7. SlotsMatch
  <2>1. \A i \in Ring : ~Waiting(i)
    BY <1>5 DEF Init, Waiting
  <2> QED
    BY <2>1 DEF Init, SlotsMatch, Armed
<1> QED
  BY <1>1, <1>4, <1>6, <1>7 DEF Inv, OnlyLongFramePanics, Init

\* What the application does leaves the ring alone.
LEMMA InvApplication ==
  ASSUME Inv, TypeOK', Application
  PROVE  Inv'
<1>1. UNCHANGED <<driverVars, cardVars, descriptors, RDT>>
  BY DEF Application, Allocate, Free
<1>2. PICK Q : Q = RingBuffers
  OBVIOUS
<1>3. OwnedOnce(Q) /\ PoolTypeOK
  BY <1>2 DEF Inv, OneOwner, TypeOK
<1>4. OwnedOnce(Q)' /\ panicked' = panicked
  <2>1. CASE \E p \in Pool, f \in Frame : AllocPkt(p, f)
    <3>1. PICK p \in Pool, f \in Frame : AllocPkt(p, f)
      BY <2>1
    <3>2. OwnedOnce(Q)'
      BY <3>1, <1>3, AllocPktOwned
    <3> QED
      BY <3>1, <3>2 DEF AllocPkt
  <2>2. CASE \E b \in held : DropPkt(b)
    BY <2>2, <1>3, DropPktOwned
  <2> QED
    BY <2>1, <2>2 DEF Application, Allocate, Free
<1>5. RingBuffers' = Q /\ IsInjective(bufs_in_use)'
  BY <1>1, <1>2 DEF Inv, OneOwner, RingBuffers, driverVars
<1>6. OneOwner'
  BY <1>4, <1>5 DEF OneOwner, OwnedOnce
<1>7. RingInOrder' /\ SlotsMatch'
  BY <1>1 DEF Inv, RingInOrder, SlotsMatch, Waiting, Offset, LocalIndex, driverVars,
              cardVars
<1>8. OnlyLongFramePanics'
  BY <1>1, <1>4 DEF Inv, OnlyLongFramePanics, driverVars
<1> QED
  BY <1>6, <1>7, <1>8 DEF Inv

\* The start of a call, and the panic in it.
LEMMA InvStart ==
  ASSUME Inv, TypeOK', (\E n \in 0 .. MaxNums : ReceiveStart(n)) \/ EopPanic
  PROVE  Inv'
<1>1. /\ UNCHANGED <<free_stack, held, payload, rx_index, bufs_in_use, cardVars,
                     descriptors, RDT>>
      /\ LocalIndex' = LocalIndex
  BY DEF ReceiveStart, EopPanic, LocalIndex, poolVars, driverVars
<1>2. OneOwner'
  BY <1>1 DEF Inv, OneOwner, OwnedOnce, RingBuffers, IsFree
<1>3. /\ Offset(LocalIndex)' = Offset(LocalIndex)
      /\ Offset(written_back)' = Offset(written_back)
      /\ Offset(RDH)' = Offset(RDH)
      /\ \A i \in Ring : Offset(i)' = Offset(i)
  BY <1>1 DEF Offset, cardVars
<1>4. RingInOrder'
  <2>1. CASE \E n \in 0 .. MaxNums : ReceiveStart(n)
    <3>1. call' = "receive" /\ rx_local' = rx_index /\ last_rx_index' = rx_index
      BY <2>1 DEF ReceiveStart
    <3> QED
      BY <1>1, <1>3, <3>1 DEF Inv, RingInOrder, cardVars
  <2>2. CASE EopPanic
    <3>1. call = "receive" /\ UNCHANGED <<call, rx_local, last_rx_index>>
      BY <2>2 DEF EopPanic, Iterating, driverVars
    <3> QED
      BY <1>1, <1>3, <3>1 DEF Inv, RingInOrder, cardVars
  <2> QED
    BY <2>1, <2>2
<1>5. SlotsMatch'
  BY <1>1, <1>3 DEF Inv, SlotsMatch, Waiting, cardVars
<1>6. OnlyLongFramePanics'
  BY DEF ReceiveStart, EopPanic, Iterating, OnlyLongFramePanics, poolVars, driverVars
<1> QED
  BY <1>2, <1>4, <1>5, <1>6 DEF Inv

\* A done descriptor is waiting, so that receive_packets' index is before
\* written_back.
LEMMA DoneIsWaiting ==
  ASSUME Inv, call # "idle", descriptors[rx_local].dd
  PROVE  /\ rx_local \in Ring /\ LocalIndex = rx_local
         /\ Waiting(rx_local)
         /\ Offset(rx_local) < Offset(written_back)
<1>1. rx_local \in Ring /\ LocalIndex = rx_local
  BY DEF Inv, TypeOK, LocalIndex
<1>2. Waiting(rx_local)
  BY <1>1 DEF Inv, SlotsMatch
<1> QED
  BY <1>1, <1>2 DEF Waiting

\* The filled entry becomes a packet and a free one takes its place.
LEMMA InvTake ==
  ASSUME Inv, TypeOK', Take
  PROVE  Inv'
<1> DEFINE old == <<RxPool, bufs_in_use[rx_local]>>
           new == Top(RxPool)
<1>1. /\ ~panicked /\ UNCHANGED panicked
      /\ call = "receive" /\ call' = "callback"
      /\ descriptors[rx_local].dd
      /\ RxPool \in Pool /\ CanAlloc(RxPool)
      /\ free_stack' = Popped(RxPool)
      /\ held' = held \cup {old}
      /\ bufs_in_use' = [bufs_in_use EXCEPT ![rx_local] = new[2]]
      /\ UNCHANGED <<rx_index, rx_local, last_rx_index, RDH, written_back, cached,
                     descriptors, RDT>>
  BY RxAssumption DEF Take, Iterating, cardVars
<1>2. rx_local \in Ring /\ Waiting(rx_local) /\ Offset(rx_local) < Offset(written_back)
  BY <1>1, DoneIsWaiting
<1>3. PoolTypeOK /\ bufs_in_use \in [Ring -> Entry]
  BY DEF Inv, TypeOK
<1>4. /\ \A q \in Pool : IsInjective(free_stack'[q])
      /\ new \in Buffer /\ IsFree(new)
      /\ \A b \in Buffer : IsFree(b)' <=> IsFree(b) /\ b # new
  BY <1>1, <1>3, PoppedOwned DEF Inv, OneOwner, OwnedOnce
<1>5. old \in Buffer /\ old \in RingBuffers /\ new = <<RxPool, new[2]>>
  BY <1>1, <1>2, <1>3 DEF Buffer, RingBuffers, Top
<1>6. new \notin RingBuffers /\ new \notin held
  BY <1>4 DEF Inv, OneOwner, OwnedOnce
<1>7. \A i \in Ring : bufs_in_use'[i] = IF i = rx_local THEN new[2] ELSE bufs_in_use[i]
  BY <1>1, <1>3
<1>8. IsInjective(bufs_in_use)'
  <2>1. \A i, j \in Ring : bufs_in_use[i] = bufs_in_use[j] => i = j
    BY <1>3 DEF Inv, OneOwner, IsInjective
  <2>2. \A i \in Ring : bufs_in_use[i] # new[2]
    BY <1>5, <1>6 DEF RingBuffers
  <2>3. \A i, j \in Ring : bufs_in_use'[i] = bufs_in_use'[j] => i = j
    BY <2>1, <2>2, <1>7
  <2>4. bufs_in_use' \in [Ring -> Entry]
    BY DEF TypeOK
  <2> QED
    BY <2>3, <2>4 DEF IsInjective
<1>9. RingBuffers' = (RingBuffers \ {old}) \cup {new}
  <2>1. ASSUME NEW i \in Ring, i # rx_local
        PROVE  <<RxPool, bufs_in_use[i]>> # old
    BY <2>1, <1>2, <1>3 DEF Inv, OneOwner, IsInjective
  <2>2. ASSUME NEW i \in Ring
        PROVE  <<RxPool, bufs_in_use'[i]>> \in (RingBuffers \ {old}) \cup {new}
    BY <2>1, <1>5, <1>7 DEF RingBuffers
  <2>3. ASSUME NEW b \in RingBuffers, b # old
        PROVE  \E i \in Ring : b = <<RxPool, bufs_in_use'[i]>>
    BY <2>3, <1>7 DEF RingBuffers
  <2>4. new = <<RxPool, bufs_in_use'[rx_local]>>
    BY <1>2, <1>5, <1>7
  <2>5. RingBuffers' = {<<RxPool, bufs_in_use'[i]>> : i \in Ring}
    BY DEF RingBuffers
  <2> QED
    BY <2>2, <2>3, <2>4, <2>5, <1>2
<1>10. OneOwner'
  <2>1. \A b \in Buffer :
          /\ IsFree(b) \/ b \in held \/ b \in RingBuffers
          /\ ~(IsFree(b) /\ b \in held)
          /\ ~(IsFree(b) /\ b \in RingBuffers)
          /\ ~(b \in held /\ b \in RingBuffers)
    BY DEF Inv, OneOwner, OwnedOnce
  <2>2. OwnedOnce(RingBuffers)' <=>
          /\ \A p \in Pool : IsInjective(free_stack'[p])
          /\ \A b \in Buffer :
               /\ IsFree(b)' \/ b \in held' \/ b \in RingBuffers'
               /\ ~(IsFree(b)' /\ b \in held')
               /\ ~(IsFree(b)' /\ b \in RingBuffers')
               /\ ~(b \in held' /\ b \in RingBuffers')
    BY DEF OwnedOnce
  <2>3. held' = held \cup {old}
    BY <1>1
  <2>4. old # new
    BY <1>5, <1>6
  <2> HIDE DEF old, new
  <2> QED
    BY <2>1, <2>2, <2>3, <2>4, <1>4, <1>5, <1>6, <1>8, <1>9 DEF OneOwner
<1>11. /\ LocalIndex' = LocalIndex
       /\ \A i \in Ring : Offset(i)' = Offset(i)
       /\ Offset(LocalIndex)' = Offset(LocalIndex)
       /\ Offset(written_back)' = Offset(written_back)
       /\ Offset(RDH)' = Offset(RDH)
       /\ Offset(rx_local)' = Offset(rx_local)
  BY <1>1 DEF LocalIndex, Offset
<1>12. RingInOrder'
  BY <1>1, <1>2, <1>11 DEF Inv, RingInOrder
<1>13. SlotsMatch'
  <2> SUFFICES ASSUME NEW i \in Ring
               PROVE  /\ descriptors[i].dd <=> Waiting(i)
                      /\ ~Waiting(i) => descriptors[i].addr = <<RxPool, bufs_in_use'[i]>>
                      /\ cached[i] # NoBuffer =>
                           /\ Offset(written_back) <= Offset(i) /\ Offset(i) < Offset(RDH)
                           /\ cached[i] = <<RxPool, bufs_in_use'[i]>>
    BY <1>1, <1>11 DEF SlotsMatch, Waiting
  <2>1. /\ descriptors[i].dd <=> Waiting(i)
        /\ ~Waiting(i) => descriptors[i].addr = <<RxPool, bufs_in_use[i]>>
        /\ cached[i] # NoBuffer =>
             /\ Offset(written_back) <= Offset(i) /\ Offset(i) < Offset(RDH)
             /\ cached[i] = <<RxPool, bufs_in_use[i]>>
    BY DEF Inv, SlotsMatch
  <2>2. CASE i = rx_local
    <3>1. cached[i] = NoBuffer
      <4>1. Offset(i) \in Int /\ Offset(written_back) \in Int
        BY OffsetRange DEF Inv, TypeOK
      <4> QED
        BY <4>1, <2>1, <2>2, <1>2
    <3> QED
      BY <3>1, <2>1, <2>2, <1>2
  <2>3. CASE i # rx_local
    BY <2>1, <2>3, <1>7
  <2> QED
    BY <2>2, <2>3
<1>14. OnlyLongFramePanics'
  BY <1>1 DEF OnlyLongFramePanics
<1> QED
  BY <1>10, <1>12, <1>13, <1>14 DEF Inv

\* A descriptor is rearmed: it no longer waits, and the tail may move to it.
LEMMA InvRearm ==
  ASSUME Inv, TypeOK', Rearm
  PROVE  Inv'
<1>1. /\ ~panicked /\ call = "callback" /\ call' = "receive"
      /\ descriptors' = Rearmed(rx_local)
      /\ last_rx_index' = rx_local /\ rx_local' = wrap_ring(rx_local)
      /\ UNCHANGED <<poolVars, rx_index, bufs_in_use, RDH, written_back, cached, RDT>>
  BY DEF Rearm, cardVars
<1>2. /\ rx_local \in Ring /\ rx_index \in Ring /\ written_back \in Ring /\ RDH \in Ring
      /\ LocalIndex = rx_local /\ LocalIndex' = rx_local'
      /\ Offset(rx_local) < Offset(written_back)
  BY <1>1 DEF Inv, TypeOK, RingInOrder, LocalIndex
<1>3. rx_local' \in Ring /\ Offset(rx_local') = Offset(rx_local) + 1
  BY <1>1, <1>2, OffsetNext DEF Inv
<1>4. /\ \A i \in Ring : Offset(i) \in 0 .. QS - 1
      /\ \A i, j \in Ring : Offset(i) = Offset(j) => i = j
  BY OffsetRange DEF Inv
<1>0. Offset(rx_index) = 0
  BY <1>2, OffsetRange DEF Inv
<1>5. /\ \A i \in Ring : Offset(i)' = Offset(i)
      /\ Offset(LocalIndex)' = Offset(rx_local) + 1
      /\ Offset(written_back)' = Offset(written_back)
      /\ Offset(RDH)' = Offset(RDH)
  BY <1>1, <1>2, <1>3 DEF Offset
<1>6. OneOwner'
  BY <1>1 DEF Inv, OneOwner, OwnedOnce, RingBuffers, IsFree, poolVars
<1>7. RingInOrder'
  <2>1. rx_local' # rx_index'
    BY <1>0, <1>1, <1>2, <1>3, <1>4
  <2>2. Offset(LocalIndex)' <= Offset(written_back)'
    BY <1>2, <1>4, <1>5
  <2> QED
    BY <1>1, <1>5, <2>1, <2>2 DEF Inv, RingInOrder
<1>8. \A i \in Ring :
        descriptors'[i] = IF i = rx_local THEN Armed(<<RxPool, bufs_in_use[i]>>)
                                          ELSE descriptors[i]
  BY <1>1 DEF Inv, TypeOK, Rearmed
<1>9. SlotsMatch'
  <2> SUFFICES ASSUME NEW i \in Ring
               PROVE  /\ descriptors'[i].dd <=> Waiting(i)'
                      /\ ~Waiting(i)' => descriptors'[i].addr = <<RxPool, bufs_in_use[i]>>
                      /\ cached[i] # NoBuffer =>
                           /\ Offset(written_back) <= Offset(i) /\ Offset(i) < Offset(RDH)
                           /\ cached[i] = <<RxPool, bufs_in_use[i]>>
    BY <1>1, <1>5 DEF SlotsMatch
  <2>1. /\ descriptors[i].dd <=> Waiting(i)
        /\ ~Waiting(i) => descriptors[i].addr = <<RxPool, bufs_in_use[i]>>
        /\ cached[i] # NoBuffer =>
             /\ Offset(written_back) <= Offset(i) /\ Offset(i) < Offset(RDH)
             /\ cached[i] = <<RxPool, bufs_in_use[i]>>
    BY DEF Inv, SlotsMatch
  <2>2. Waiting(i) <=> Offset(rx_local) <= Offset(i) /\ Offset(i) < Offset(written_back)
    BY <1>2 DEF Waiting
  <2>3. Waiting(i)' <=> Offset(rx_local) + 1 <= Offset(i) /\ Offset(i) < Offset(written_back)
    BY <1>5 DEF Waiting
  <2>4. Waiting(i)' <=> Waiting(i) /\ i # rx_local
    BY <2>2, <2>3, <1>2, <1>4
  <2>5. CASE i = rx_local
    <3>1. descriptors'[i] = Armed(<<RxPool, bufs_in_use[i]>>)
      BY <2>5, <1>8
    <3>2. ~descriptors'[i].dd /\ descriptors'[i].addr = <<RxPool, bufs_in_use[i]>>
      BY <3>1 DEF Armed
    <3> QED
      BY <3>2, <2>1, <2>4, <2>5
  <2>6. CASE i # rx_local
    BY <2>1, <2>4, <2>6, <1>8
  <2> QED
    BY <2>5, <2>6
<1>10. OnlyLongFramePanics'
  BY <1>1 DEF OnlyLongFramePanics, poolVars
<1> QED
  BY <1>6, <1>7, <1>9, <1>10 DEF Inv

\* The card fetches a descriptor, which has the address of its own entry.
LEMMA InvCardFetch ==
  ASSUME Inv, TypeOK', CardFetch
  PROVE  Inv'
<1>1. /\ RDH # RDT /\ RDH' = wrap_ring(RDH)
      /\ cached' = [cached EXCEPT ![RDH] = descriptors[RDH].addr]
      /\ UNCHANGED <<poolVars, driverVars, descriptors, RDT, written_back>>
  BY DEF CardFetch, wrap_ring
<1>2. /\ RDH \in Ring /\ RDT \in Ring /\ rx_index \in Ring /\ written_back \in Ring
      /\ wrap_ring(RDT) = rx_index /\ Offset(written_back) <= Offset(RDH)
  BY DEF Inv, TypeOK, RingInOrder
<1>3. /\ \A i \in Ring : Offset(i) \in 0 .. QS - 1
      /\ \A i, j \in Ring : Offset(i) = Offset(j) => i = j
  BY OffsetRange DEF Inv
<1>4. Offset(RDT) = QS - 1
  BY <1>2, OffsetTail DEF Inv
<1>5. Offset(RDH) < Offset(RDT)
  <2>1. Offset(RDH) # Offset(RDT)
    BY <1>1, <1>2, <1>3
  <2> QED
    BY <2>1, <1>2, <1>3, <1>4, RingAssumption
<1>6. RDH' \in Ring /\ Offset(RDH') = Offset(RDH) + 1
  BY <1>1, <1>2, <1>5, OffsetNext DEF Inv
<1>7. /\ LocalIndex' = LocalIndex
      /\ \A i \in Ring : Offset(i)' = Offset(i)
      /\ Offset(LocalIndex)' = Offset(LocalIndex)
      /\ Offset(written_back)' = Offset(written_back)
      /\ Offset(RDH)' = Offset(RDH) + 1
      /\ Offset(rx_local)' = Offset(rx_local)
      /\ \A i \in Ring : Waiting(i)' <=> Waiting(i)
  BY <1>1, <1>6 DEF LocalIndex, Offset, Waiting, driverVars
<1>8. OneOwner'
  BY <1>1 DEF Inv, OneOwner, OwnedOnce, RingBuffers, IsFree, poolVars, driverVars
<1>9. RingInOrder'
  <2>1. Offset(written_back)' <= Offset(RDH)'
    BY <1>2, <1>3, <1>7
  <2> QED
    BY <1>1, <1>7, <2>1 DEF Inv, RingInOrder, driverVars
<1>10. SlotsMatch'
  <2> SUFFICES ASSUME NEW i \in Ring
               PROVE  /\ descriptors[i].dd <=> Waiting(i)
                      /\ ~Waiting(i) => descriptors[i].addr = <<RxPool, bufs_in_use[i]>>
                      /\ cached'[i] # NoBuffer =>
                           /\ Offset(written_back) <= Offset(i)
                           /\ Offset(i) < Offset(RDH) + 1
                           /\ cached'[i] = <<RxPool, bufs_in_use[i]>>
    BY <1>1, <1>7 DEF SlotsMatch, driverVars
  <2>1. /\ descriptors[i].dd <=> Waiting(i)
        /\ ~Waiting(i) => descriptors[i].addr = <<RxPool, bufs_in_use[i]>>
        /\ cached[i] # NoBuffer =>
             /\ Offset(written_back) <= Offset(i) /\ Offset(i) < Offset(RDH)
             /\ cached[i] = <<RxPool, bufs_in_use[i]>>
    BY DEF Inv, SlotsMatch
  <2>2. CASE i = RDH
    <3>1. ~Waiting(i)
      BY <2>2, <1>2, <1>3 DEF Waiting
    <3>2. cached'[i] = descriptors[i].addr
      BY <2>2, <1>1, <1>2 DEF Inv, TypeOK
    <3>3. Offset(i) < Offset(RDH) + 1
      BY <2>2, <1>2, <1>3
    <3> QED
      BY <3>1, <3>2, <3>3, <2>1, <2>2, <1>2
  <2>3. CASE i # RDH
    <3>1. cached'[i] = cached[i]
      BY <2>3, <1>1 DEF Inv, TypeOK
    <3>2. Offset(i) < Offset(RDH) => Offset(i) < Offset(RDH) + 1
      BY <1>2, <1>3
    <3> QED
      BY <3>1, <3>2, <2>1
  <2> QED
    BY <2>2, <2>3
<1>11. OnlyLongFramePanics'
  BY <1>1 DEF Inv, OnlyLongFramePanics, poolVars, driverVars
<1> QED
  BY <1>8, <1>9, <1>10, <1>11 DEF Inv

\* The card writes a descriptor back: it waits for receive_packets now.
LEMMA InvCardReceive ==
  ASSUME Inv, TypeOK', NEW f \in Frame, NEW eop \in EOP, CardReceive(f, eop)
  PROVE  Inv'
<1>1. /\ written_back # RDH /\ written_back' = wrap_ring(written_back)
      /\ cached' = [cached EXCEPT ![written_back] = NoBuffer]
      /\ descriptors' = [descriptors EXCEPT
                           ![written_back] = [addr |-> NoBuffer, dd |-> TRUE, eop |-> eop]]
      /\ UNCHANGED <<free_stack, held, panicked, driverVars, RDT, RDH>>
  BY DEF CardReceive, wrap_ring
<1>2. /\ RDH \in Ring /\ rx_index \in Ring /\ written_back \in Ring /\ rx_local \in Ring
      /\ LocalIndex \in Ring
      /\ Offset(LocalIndex) <= Offset(written_back) /\ Offset(written_back) <= Offset(RDH)
  BY DEF Inv, TypeOK, RingInOrder, LocalIndex
<1>3. /\ \A i \in Ring : Offset(i) \in 0 .. QS - 1
      /\ \A i, j \in Ring : Offset(i) = Offset(j) => i = j
  BY OffsetRange DEF Inv
<1>4. Offset(written_back) < Offset(RDH)
  <2>1. Offset(written_back) # Offset(RDH)
    BY <1>1, <1>2, <1>3
  <2> QED
    BY <2>1, <1>2, <1>3
<1>5. written_back' \in Ring /\ Offset(written_back') = Offset(written_back) + 1
  BY <1>1, <1>2, <1>4, OffsetNext DEF Inv
<1>6. /\ LocalIndex' = LocalIndex
      /\ \A i \in Ring : Offset(i)' = Offset(i)
      /\ Offset(LocalIndex)' = Offset(LocalIndex)
      /\ Offset(written_back)' = Offset(written_back) + 1
      /\ Offset(RDH)' = Offset(RDH)
      /\ Offset(rx_local)' = Offset(rx_local)
  BY <1>1, <1>5 DEF LocalIndex, Offset, driverVars
<1>7. OneOwner'
  BY <1>1 DEF Inv, OneOwner, OwnedOnce, RingBuffers, IsFree, driverVars
<1>8. RingInOrder'
  <2>1. /\ Offset(LocalIndex)' <= Offset(written_back)'
        /\ Offset(written_back)' <= Offset(RDH)'
        /\ Offset(rx_local) < Offset(written_back)
             => Offset(rx_local)' < Offset(written_back)'
    BY <1>2, <1>3, <1>4, <1>6
  <2> QED
    BY <1>1, <2>1 DEF Inv, RingInOrder, driverVars
<1>9. \A i \in Ring :
        /\ Waiting(i) <=> Offset(LocalIndex) <= Offset(i) /\ Offset(i) < Offset(written_back)
        /\ Waiting(i)' <=> Waiting(i) \/ i = written_back
  BY <1>2, <1>3, <1>6 DEF Waiting
<1>10. \A i \in Ring :
         /\ descriptors'[i] = IF i = written_back
                                THEN [addr |-> NoBuffer, dd |-> TRUE, eop |-> eop]
                                ELSE descriptors[i]
         /\ cached'[i] = IF i = written_back THEN NoBuffer ELSE cached[i]
  BY <1>1 DEF Inv, TypeOK
<1>11. SlotsMatch'
  <2> SUFFICES ASSUME NEW i \in Ring
               PROVE  /\ descriptors'[i].dd <=> Waiting(i)'
                      /\ ~Waiting(i)' => descriptors'[i].addr = <<RxPool, bufs_in_use[i]>>
                      /\ cached'[i] # NoBuffer =>
                           /\ Offset(written_back) + 1 <= Offset(i)
                           /\ Offset(i) < Offset(RDH)
                           /\ cached'[i] = <<RxPool, bufs_in_use[i]>>
    BY <1>1, <1>6 DEF SlotsMatch, driverVars
  <2>1. /\ descriptors[i].dd <=> Waiting(i)
        /\ ~Waiting(i) => descriptors[i].addr = <<RxPool, bufs_in_use[i]>>
        /\ cached[i] # NoBuffer =>
             /\ Offset(written_back) <= Offset(i) /\ Offset(i) < Offset(RDH)
             /\ cached[i] = <<RxPool, bufs_in_use[i]>>
    BY DEF Inv, SlotsMatch
  <2>2. CASE i = written_back
    <3>1. descriptors'[i].dd /\ cached'[i] = NoBuffer
      BY <2>2, <1>10
    <3> QED
      BY <3>1, <2>2, <1>9
  <2>3. CASE i # written_back
    <3>1. /\ descriptors'[i] = descriptors[i] /\ cached'[i] = cached[i]
          /\ Waiting(i)' <=> Waiting(i)
      BY <2>3, <1>9, <1>10
    <3>2. Offset(written_back) <= Offset(i) => Offset(written_back) + 1 <= Offset(i)
      BY <2>3, <1>2, <1>3
    <3> QED
      BY <3>1, <3>2, <2>1
  <2> QED
    BY <2>2, <2>3
<1>12. OnlyLongFramePanics'
  <2> SUFFICES ASSUME panicked
               PROVE  /\ call = "receive"
                      /\ descriptors'[rx_local].dd /\ ~descriptors'[rx_local].eop
    BY <1>1 DEF OnlyLongFramePanics, driverVars
  <2>1. /\ call = "receive"
        /\ descriptors[rx_local].dd /\ ~descriptors[rx_local].eop
    BY DEF Inv, OnlyLongFramePanics
  <2>2. Offset(rx_local) < Offset(written_back)
    BY <2>1, DoneIsWaiting
  <2>3. rx_local # written_back
    BY <2>2, <1>2, <1>3
  <2> QED
    BY <2>1, <2>3, <1>2, <1>10
<1> QED
  BY <1>7, <1>8, <1>11, <1>12 DEF Inv

\* receive_packets returns: the ring now starts at its local index, and the tail
\* is the descriptor before it.
LEMMA InvReceiveEnd ==
  ASSUME Inv, TypeOK', ReceiveEnd
  PROVE  Inv'
<1>1. /\ ~panicked /\ call = "receive" /\ call' = "idle"
      /\ IF rx_local # last_rx_index
           THEN RDT' = last_rx_index /\ rx_index' = rx_local
           ELSE UNCHANGED <<RDT, rx_index>>
      /\ UNCHANGED <<poolVars, bufs_in_use, rx_local, cardVars, descriptors>>
  BY DEF ReceiveEnd, NewTail
<1>2. /\ RDH \in Ring /\ rx_index \in Ring /\ written_back \in Ring
      /\ rx_local \in Ring /\ last_rx_index \in Ring /\ LocalIndex = rx_local
      /\ wrap_ring(RDT) = rx_index
      /\ Offset(rx_local) <= Offset(written_back) /\ Offset(written_back) <= Offset(RDH)
      /\ IF rx_local = rx_index THEN last_rx_index = rx_index
                                ELSE wrap_ring(last_rx_index) = rx_local
  BY <1>1 DEF Inv, TypeOK, RingInOrder, LocalIndex
<1>3. /\ \A i \in Ring : Offset(i) \in 0 .. QS - 1
      /\ \A i, j \in Ring : Offset(i) = Offset(j) => i = j
  BY OffsetRange DEF Inv
<1>4. rx_index' = rx_local /\ wrap_ring(RDT') = rx_index' /\ LocalIndex' = rx_local
  <2>1. CASE rx_local # last_rx_index
    BY <2>1, <1>1, <1>2 DEF LocalIndex
  <2>2. CASE rx_local = last_rx_index
    <3>1. rx_local = rx_index
      BY <2>2, <1>2, WrapRing, RingAssumption DEF Ring
    <3> QED
      BY <2>2, <3>1, <1>1, <1>2 DEF LocalIndex
  <2> QED
    BY <2>1, <2>2
<1> DEFINE B == Offset(rx_local)
<1>5. /\ B \in 0 .. QS - 1
      /\ \A i \in Ring : Offset(i)' = IF B <= Offset(i) THEN Offset(i) - B
                                                         ELSE Offset(i) - B + QS
  BY <1>2, <1>3, <1>4, DistanceShift DEF Offset
<1>6. /\ Offset(LocalIndex)' = 0
      /\ Offset(written_back)' = Offset(written_back) - B
      /\ Offset(RDH)' = Offset(RDH) - B
  <2>1. Offset(LocalIndex)' = Offset(rx_local)' /\ Offset(rx_local)' = B - B
    BY <1>1, <1>2, <1>4, <1>5 DEF Offset
  <2>2. Offset(written_back)' = Distance(rx_index', written_back)
    BY <1>1 DEF Offset, cardVars
  <2>3. Offset(RDH)' = Distance(rx_index', RDH)
    BY <1>1 DEF Offset, cardVars
  <2>4. \A i \in Ring : B <= Offset(i) => Distance(rx_index', i) = Offset(i) - B
    BY <1>2, <1>3, <1>4, DistanceShift DEF Offset
  <2> QED
    BY <2>1, <2>2, <2>3, <2>4, <1>2, <1>3, <1>5
<1>7. OneOwner'
  BY <1>1 DEF Inv, OneOwner, OwnedOnce, RingBuffers, IsFree, poolVars
<1>8. RingInOrder'
  <2>1. 0 <= Offset(written_back) - B /\ Offset(written_back) - B <= Offset(RDH) - B
    BY <1>2, <1>3
  <2> QED
    BY <2>1, <1>1, <1>4, <1>6 DEF RingInOrder
<1>9. ASSUME NEW i \in Ring
      PROVE  /\ Waiting(i)' <=> Waiting(i)
             /\ Offset(written_back) <= Offset(i) /\ Offset(i) < Offset(RDH)
                  => Offset(written_back)' <= Offset(i)' /\ Offset(i)' < Offset(RDH)'
  <2> HIDE DEF B
  <2>1. B <= Offset(written_back) /\ Offset(written_back) <= Offset(RDH)
    BY <1>2 DEF B
  <2>2. Waiting(i) <=> B <= Offset(i) /\ Offset(i) < Offset(written_back)
    BY <1>2 DEF Waiting, B
  <2>3. Waiting(i)' <=> 0 <= Offset(i)' /\ Offset(i)' < Offset(written_back) - B
    BY <1>6 DEF Waiting
  <2>4. /\ Offset(i) \in 0 .. QS - 1 /\ Offset(written_back) \in 0 .. QS - 1
        /\ Offset(RDH) \in 0 .. QS - 1 /\ QS \in Nat
    BY <1>2, <1>3, RingAssumption
  <2> QED
    BY <2>1, <2>2, <2>3, <2>4, <1>5, <1>6
<1>10. SlotsMatch'
  BY <1>1, <1>9 DEF Inv, SlotsMatch, cardVars
<1>11. OnlyLongFramePanics'
  BY <1>1 DEF OnlyLongFramePanics, poolVars
<1> QED
  BY <1>7, <1>8, <1>10, <1>11 DEF Inv

\* Every step keeps the invariant.
LEMMA InvStep == Inv /\ [Next]_vars => Inv'
<1> SUFFICES ASSUME Inv, [Next]_vars PROVE Inv'
  OBVIOUS
<1>1. TypeOK'
  BY TypeStep DEF Inv
<1>2. CASE Application
  BY <1>1, <1>2, InvApplication
<1>3. CASE (\E n \in 0 .. MaxNums : ReceiveStart(n)) \/ EopPanic
  BY <1>1, <1>3, InvStart
<1>4. CASE Take
  BY <1>1, <1>4, InvTake
<1>5. CASE Rearm
  BY <1>1, <1>5, InvRearm
<1>6. CASE ReceiveEnd
  BY <1>1, <1>6, InvReceiveEnd
<1>7. CASE CardFetch
  BY <1>1, <1>7, InvCardFetch
<1>8. ASSUME NEW f \in Frame, NEW eop \in EOP, CardReceive(f, eop) PROVE Inv'
  BY <1>1, <1>8, InvCardReceive
<1>9. CASE UNCHANGED vars
  BY <1>1, <1>9 DEF vars, poolVars, driverVars, cardVars, Inv, OneOwner, OwnedOnce,
                    RingBuffers, IsFree, RingInOrder, SlotsMatch, Waiting, Offset,
                    LocalIndex, OnlyLongFramePanics
<1> QED
  BY <1>2, <1>3, <1>4, <1>5, <1>6, <1>7, <1>8, <1>9 DEF Next, Driver, Card

\* The invariant holds always.
LEMMA InvCorrect == Spec => []Inv
<1> QED
  BY InvInit, InvStep, PTL DEF Spec

-----------------------------------------------------------------------------
(* Results.                                                                *)

\* What the card owns does not wait: its descriptors and its cache have the
\* addresses of the entries that receive_packets will take from them.
LEMMA InvDmaSafe == Inv => DmaSafe
<1> SUFFICES ASSUME Inv, NEW i \in Ring, OwnedByCard(i)
             PROVE  CardBuffer(i) = <<RxPool, bufs_in_use[i]>>
  BY DEF DmaSafe
<1>1. /\ rx_index \in Ring /\ written_back \in Ring /\ RDT \in Ring
      /\ wrap_ring(RDT) = rx_index
  BY DEF Inv, TypeOK, RingInOrder
<1>2. Offset(i) \in 0 .. QS - 1 /\ Offset(written_back) \in 0 .. QS - 1
  BY <1>1, OffsetRange DEF Inv
<1>3. Offset(RDT) = QS - 1
  BY <1>1, OffsetTail DEF Inv
<1>4. Offset(written_back) <= Offset(i)
  <2>1. Distance(written_back, RDT) = Offset(RDT) - Offset(written_back)
    BY <1>1, <1>2, <1>3, DistanceShift, RingAssumption DEF Offset
  <2>2. Distance(written_back, i) = IF Offset(written_back) <= Offset(i)
                                      THEN Offset(i) - Offset(written_back)
                                      ELSE Offset(i) - Offset(written_back) + QS
    BY <1>1, DistanceShift DEF Offset
  <2> QED
    BY <2>1, <2>2, <1>2, <1>3, RingAssumption DEF OwnedByCard
<1>5. ~Waiting(i)
  BY <1>2, <1>4 DEF Waiting
<1> QED
  BY <1>5 DEF Inv, SlotsMatch, CardBuffer

\* No step of receive_packets, the card or the application loses an entry or
\* gives it two owners: the free stacks, the application's packets and the ring
\* share out the buffers of every pool.
THEOREM BuffersHaveOneOwner == Spec => []OneOwner
<1>1. Inv => OneOwner
  BY DEF Inv
<1> QED
  BY <1>1, InvCorrect, PTL

\* The tail that receive_packets writes is always the descriptor before its
\* index, and the card's indices stay between the two.
THEOREM RingStaysInOrder == Spec => []RingInOrder
<1>1. Inv => RingInOrder
  BY DEF Inv
<1> QED
  BY <1>1, InvCorrect, PTL

\* The descriptors marked done are exactly those from receive_packets' index to
\* the card's, and every other one has the address of its own entry.
THEOREM SlotsStayMatched == Spec => []SlotsMatch
<1>1. Inv => SlotsMatch
  BY DEF Inv
<1> QED
  BY <1>1, InvCorrect, PTL

\* The card writes only to buffers that receive_packets has in the ring for that
\* descriptor, never to one that the application or the free stack has.
THEOREM DmaIsSafe == Spec => []DmaSafe
<1> QED
  BY InvDmaSafe, InvCorrect, PTL

\* The double-free assertion of free_buf never fails on the receive side: only
\* a frame that needs more than one descriptor panics.
THEOREM DoubleFreeNeverFires == Spec => []OnlyLongFramePanics
<1>1. Inv => OnlyLongFramePanics
  BY DEF Inv
<1> QED
  BY <1>1, InvCorrect, PTL

-----------------------------------------------------------------------------
(* The queue implements FrameFifo: frames get to the callback as they      *)
(* arrived and in that order.                                              *)

\* The card has the address of every descriptor that it fetched.
Fetched ==
  \A i \in Ring :
    Distance(written_back, i) < Distance(written_back, RDH) => cached[i] # NoBuffer

FifoInv == Inv /\ Fetched

\* The place of the k-th frame that was not delivered, and the entry of a place.
Nth(k)      == (NextToDeliver + (k - 1)) % QS
BufferOf(i) == <<RxPool, bufs_in_use[i]>>

\* What PendingFrames has.
PendingInRing ==
  /\ PendingFrames \in Seq(Frame)
  /\ Len(PendingFrames) = Distance(NextToDeliver, written_back)
  /\ \A k \in 1 .. Len(PendingFrames) :
       /\ Nth(k) \in Ring
       /\ Distance(NextToDeliver, Nth(k)) = k - 1
       /\ PendingFrames[k] = payload[BufferOf(Nth(k))]

\* The frames that were not delivered lie between the callback and the card.
LEMMA PendingRange ==
  ASSUME Inv
  PROVE  /\ TypeOK /\ {NextToDeliver, written_back, RDH, RDT} \subseteq Ring
         /\ QS \in Nat \ {0}
         /\ \A i \in Ring : Offset(i) \in 0 .. QS - 1
         /\ Offset(NextToDeliver) <= Offset(written_back)
         /\ Distance(NextToDeliver, written_back)
              = Offset(written_back) - Offset(NextToDeliver)
         /\ Distance(NextToDeliver, written_back) \in 0 .. QS - 1
         /\ Distance(written_back, RDH) = Offset(RDH) - Offset(written_back)
         /\ Distance(written_back, RDH) \in 0 .. QS - 1
         /\ Offset(RDT) = QS - 1
<1>1. /\ TypeOK /\ {rx_index, rx_local, written_back, RDH, RDT} \subseteq Ring
      /\ QS \in Nat \ {0}
  BY RingAssumption DEF Inv, TypeOK
<1>2. \A i \in Ring : Offset(i) \in 0 .. QS - 1
  BY <1>1, OffsetRange
<1>3. NextToDeliver \in Ring /\ Offset(NextToDeliver) <= Offset(written_back)
  <2>1. CASE call = "idle"
    BY <2>1, <1>1 DEF NextToDeliver, LocalIndex, Inv, RingInOrder
  <2>2. CASE call = "receive"
    BY <2>2, <1>1 DEF NextToDeliver, LocalIndex, Inv, RingInOrder
  <2>3. CASE call = "callback"
    <3>1. Offset(rx_local) < Offset(written_back)
      BY <2>3 DEF Inv, RingInOrder
    <3>2. wrap_ring(rx_local) \in Ring /\ Offset(wrap_ring(rx_local)) = Offset(rx_local) + 1
      BY <1>1, <3>1, OffsetNext
    <3>3. Offset(rx_local) \in Int /\ Offset(written_back) \in Int
      BY <1>1, <1>2
    <3> QED
      BY <2>3, <3>1, <3>2, <3>3 DEF NextToDeliver
  <2> QED
    BY <2>1, <2>2, <2>3, <1>1 DEF TypeOK
<1>4. Offset(written_back) <= Offset(RDH) /\ wrap_ring(RDT) = rx_index
  BY DEF Inv, RingInOrder
<1>5. Distance(NextToDeliver, written_back) = Offset(written_back) - Offset(NextToDeliver)
  BY <1>1, <1>3, DistanceShift DEF Offset
<1>6. Distance(written_back, RDH) = Offset(RDH) - Offset(written_back)
  BY <1>1, <1>4, DistanceShift DEF Offset
<1>7. Offset(RDT) = QS - 1
  BY <1>1, <1>4, OffsetTail
<1>8. /\ Distance(NextToDeliver, written_back) \in 0 .. QS - 1
      /\ Distance(written_back, RDH) \in 0 .. QS - 1
  BY <1>1, <1>3, DistanceRange
<1> QED
  BY <1>1, <1>2, <1>3, <1>5, <1>6, <1>7, <1>8

\* PendingFrames are the payloads of the descriptors that wait, in ring order.
LEMMA PendingSlots == Inv => PendingInRing
<1> SUFFICES ASSUME Inv PROVE PendingInRing
  OBVIOUS
<1>1. PICK D, x : D = Distance(NextToDeliver, written_back) /\ x = NextToDeliver
  OBVIOUS
<1>2. TypeOK /\ x \in Ring /\ D \in 0 .. QS - 1 /\ QS \in Nat \ {0}
  BY <1>1, PendingRange
<1>3. ASSUME NEW k \in 1 .. D
      PROVE  /\ Nth(k) = (NextToDeliver + k - 1) % QS
             /\ Nth(k) \in Ring /\ Distance(x, Nth(k)) = k - 1
             /\ payload[BufferOf(Nth(k))] \in Frame
  <2>1. Nth(k) = (NextToDeliver + k - 1) % QS
    BY <1>1, <1>2 DEF Nth, Ring
  <2>2. k - 1 \in Ring
    BY <1>2 DEF Ring
  <2>3. Nth(k) \in Ring /\ Distance(x, Nth(k)) = k - 1
    BY <1>1, <1>2, <2>2, DistanceAhead DEF Nth
  <2>4. BufferOf(Nth(k)) \in Buffer
    BY <1>2, <2>3, RxAssumption DEF BufferOf, Buffer, TypeOK
  <2>5. payload[BufferOf(Nth(k))] \in Frame
    BY <1>2, <2>4 DEF TypeOK, PoolTypeOK
  <2> QED
    BY <2>1, <2>3, <2>5
<1>4. PendingFrames = [k \in 1 .. D |-> payload[BufferOf(Nth(k))]]
  BY <1>1, <1>3 DEF PendingFrames, BufferOf
<1>5. PendingFrames \in Seq(Frame) /\ Len(PendingFrames) = D
  BY <1>2, <1>3, <1>4
<1> QED
  BY <1>1, <1>3, <1>4, <1>5 DEF PendingInRing

\* Nothing enters or leaves the queue as long as neither end moves and the
\* buffers of the ring are left alone.
LEMMA PendingKept ==
  ASSUME Inv, Inv', UNCHANGED written_back, NextToDeliver' = NextToDeliver,
         UNCHANGED bufs_in_use,
         \A i \in Ring : payload'[BufferOf(i)] = payload[BufferOf(i)]
  PROVE  PendingFrames' = PendingFrames
<1>1. PendingInRing /\ PendingInRing'
  BY PendingSlots, PTL
<1>2. Len(PendingFrames') = Len(PendingFrames)
  BY <1>1 DEF PendingInRing
<1>3. ASSUME NEW k \in 1 .. Len(PendingFrames)
      PROVE  PendingFrames'[k] = PendingFrames[k]
  <2>1. Nth(k)' = Nth(k)
    BY DEF Nth
  <2>2. PendingFrames'[k] = payload'[BufferOf(Nth(k))']
    BY <1>1, <1>2 DEF PendingInRing
  <2>3. BufferOf(Nth(k))' = BufferOf(Nth(k))
    BY <2>1 DEF BufferOf
  <2> QED
    BY <1>1, <2>2, <2>3 DEF PendingInRing
<1>4. PendingFrames \in Seq(Frame) /\ PendingFrames' \in Seq(Frame)
  BY <1>1 DEF PendingInRing
<1> QED
  BY <1>2, <1>3, <1>4, SeqEqual

\* receive_packets takes the frame that arrived first.
LEMMA TakeIsTake ==
  ASSUME Inv, Inv', Take
  PROVE  Fifo!Take
<1>1. PICK x, w, n : /\ x = rx_local /\ w = written_back
                     /\ n = Distance(NextToDeliver, written_back)
  OBVIOUS
<1>2. /\ call = "receive" /\ call' = "callback" /\ descriptors[rx_local].dd
      /\ UNCHANGED <<rx_local, written_back, payload>>
      /\ bufs_in_use' = [bufs_in_use EXCEPT ![x] = Top(RxPool)[2]]
      /\ delivered' = payload[BufferOf(x)]
  BY <1>1 DEF Take, Iterating, cardVars, BufferOf
<1>3. NextToDeliver = x /\ NextToDeliver' = wrap_ring(x)
  BY <1>1, <1>2 DEF NextToDeliver
<1>4. /\ TypeOK /\ x \in Ring /\ w \in Ring /\ QS \in Nat \ {0} /\ n \in 0 .. QS - 1
      /\ n = Distance(x, w)
  BY <1>1, <1>3, PendingRange
<1>5. Distance(x, x) = 0 /\ n > 0
  <2>1. Offset(x) < Offset(w)
    BY <1>1, <1>2, DoneIsWaiting
  <2>2. n = Offset(w) - Offset(x) /\ Offset(x) \in Int /\ Offset(w) \in Int
    BY <1>1, <1>3, <1>4, PendingRange
  <2> QED
    BY <1>4, <2>1, <2>2, DistanceRange
<1>6. Distance(wrap_ring(x), w) = n - 1
  <2>1. wrap_ring(x) \in Ring /\ Distance(x, wrap_ring(x)) = 1
    BY <1>4, <1>5, DistanceNext
  <2> QED
    BY <1>4, <1>5, <2>1, DistanceShift
<1>7. PendingInRing /\ PendingInRing'
  BY PendingSlots, PTL
<1>8. /\ PendingFrames \in Seq(Frame) /\ Len(PendingFrames) = n
      /\ PendingFrames' \in Seq(Frame) /\ Len(PendingFrames') = n - 1
  <2>1. Len(PendingFrames') = Distance(NextToDeliver', written_back')
    BY <1>7 DEF PendingInRing
  <2> QED
    BY <1>1, <1>2, <1>3, <1>6, <1>7, <2>1 DEF PendingInRing
<1>9. PendingFrames[1] = payload[BufferOf(x)]
  <2>1. /\ Nth(1) \in Ring /\ Distance(x, Nth(1)) = 0
        /\ PendingFrames[1] = payload[BufferOf(Nth(1))]
    BY <1>3, <1>4, <1>5, <1>7, <1>8 DEF PendingInRing
  <2>2. Nth(1) = x
    BY <1>4, <1>5, <2>1, DistanceRange
  <2> QED
    BY <2>1, <2>2
<1>10. ASSUME NEW k \in 1 .. n - 1
       PROVE  PendingFrames'[k] = PendingFrames[k + 1]
  <2>1. k + 1 \in 1 .. n /\ k \in Ring /\ k - 1 \in Ring /\ k - 1 + 1 = k /\ k + 1 - 1 = k
    BY <1>4 DEF Ring
  <2>2. /\ Nth(k + 1) \in Ring /\ Distance(x, Nth(k + 1)) = k
        /\ PendingFrames[k + 1] = payload[BufferOf(Nth(k + 1))]
    BY <1>3, <1>7, <1>8, <2>1 DEF PendingInRing
  <2>3. Nth(k)' = Nth(k + 1)
    <3>1. Nth(k)' = (wrap_ring(x) + (k - 1)) % QS
      BY <1>3 DEF Nth
    <3>2. Nth(k + 1) = (x + k) % QS
      BY <1>3, <2>1 DEF Nth
    <3> QED
      BY <3>1, <3>2, <1>4, <2>1, DistanceAheadNext
  <2>4. Nth(k + 1) # x
    BY <1>5, <2>1, <2>2
  <2>5. bufs_in_use'[Nth(k + 1)] = bufs_in_use[Nth(k + 1)]
    BY <1>2, <1>4, <2>2, <2>4 DEF TypeOK
  <2>6. PendingFrames'[k] = payload'[BufferOf(Nth(k))']
    BY <1>7, <1>8 DEF PendingInRing
  <2>7. BufferOf(Nth(k))' = BufferOf(Nth(k + 1))
    BY <2>3, <2>5 DEF BufferOf
  <2> QED
    BY <1>2, <2>2, <2>6, <2>7
<1>11. PendingFrames # << >> /\ Head(PendingFrames) = PendingFrames[1]
       /\ PendingFrames' = Tail(PendingFrames)
  BY <1>4, <1>8, <1>10, IsTail
<1> QED
  BY <1>2, <1>9, <1>11 DEF Fifo!Take

\* A frame that arrives is put behind those that wait.
LEMMA ReceiveIsPut ==
  ASSUME FifoInv, Inv', NEW f \in Frame, NEW eop \in EOP, CardReceive(f, eop)
  PROVE  Fifo!Put(f)
<1>1. PICK x, w, n : /\ x = NextToDeliver /\ w = written_back
                     /\ n = Distance(NextToDeliver, written_back)
  OBVIOUS
<1>2. /\ TypeOK /\ x \in Ring /\ w \in Ring /\ RDH \in Ring /\ QS \in Nat \ {0}
      /\ n \in 0 .. QS - 1 /\ n = Distance(x, w) /\ n = Offset(w) - Offset(x)
      /\ Offset(w) \in 0 .. QS - 1 /\ Offset(x) \in 0 .. QS - 1 /\ Offset(RDH) \in 0 .. QS - 1
      /\ Distance(w, RDH) = Offset(RDH) - Offset(w) /\ Distance(w, RDH) \in 0 .. QS - 1
  BY <1>1, PendingRange DEF FifoInv
<1>3. /\ w # RDH /\ written_back' = wrap_ring(w) /\ NextToDeliver' = x
      /\ UNCHANGED <<bufs_in_use, delivered>>
      /\ payload' = IF cached[w] \in Buffer THEN [payload EXCEPT ![cached[w]] = f] ELSE payload
  BY <1>1 DEF CardReceive, NextToDeliver, driverVars, wrap_ring
<1>4. Distance(w, w) = 0 /\ Distance(w, RDH) > 0
  <2>1. Distance(w, w) = 0 /\ Distance(w, RDH) # Distance(w, w)
    BY <1>2, <1>3, DistanceRange
  <2> QED
    BY <1>2, <2>1
<1>5. n < QS - 1
  BY <1>2, <1>4
<1>6. Distance(x, wrap_ring(w)) = n + 1
  <2>1. x \in Ring /\ w \in Ring /\ Distance(x, w) = n /\ Distance(x, w) < QS - 1
    BY <1>2, <1>5
  <2> QED
    BY <2>1, DistanceNext
<1>7. cached[w] = BufferOf(w) /\ BufferOf(w) \in Buffer
  <2>1. cached[w] # NoBuffer
    BY <1>1, <1>2, <1>4 DEF FifoInv, Fetched
  <2>2. cached[w] = BufferOf(w)
    BY <1>2, <2>1 DEF FifoInv, Inv, SlotsMatch, BufferOf
  <2> QED
    BY <1>2, <2>2, RxAssumption DEF BufferOf, Buffer, TypeOK
<1>8. payload'[BufferOf(w)] = f
  BY <1>2, <1>3, <1>7 DEF TypeOK, PoolTypeOK
<1>9. ASSUME NEW i \in Ring, i # w
      PROVE  payload'[BufferOf(i)] = payload[BufferOf(i)]
  <2>1. bufs_in_use \in [Ring -> Entry] /\ IsInjective(bufs_in_use)
    BY <1>2 DEF TypeOK, FifoInv, Inv, OneOwner
  <2>2. bufs_in_use[i] # bufs_in_use[w]
    BY <1>2, <1>9, <2>1 DEF IsInjective
  <2>3. BufferOf(i) # BufferOf(w) /\ BufferOf(i) \in Buffer
    BY <2>1, <2>2, RxAssumption DEF BufferOf, Buffer
  <2> QED
    BY <1>2, <1>3, <1>7, <2>3 DEF TypeOK, PoolTypeOK
<1>10. PendingInRing /\ PendingInRing'
  BY PendingSlots, PTL DEF FifoInv
<1>11. /\ PendingFrames \in Seq(Frame) /\ Len(PendingFrames) = n
       /\ PendingFrames' \in Seq(Frame) /\ Len(PendingFrames') = n + 1
  <2>1. Len(PendingFrames') = Distance(NextToDeliver', written_back')
    BY <1>10 DEF PendingInRing
  <2> QED
    BY <1>1, <1>3, <1>6, <1>10, <2>1 DEF PendingInRing
<1>12. ASSUME NEW k \in 1 .. n + 1
       PROVE  /\ Nth(k)' = Nth(k) /\ Nth(k) \in Ring /\ Distance(x, Nth(k)) = k - 1
              /\ PendingFrames'[k] = payload'[BufferOf(Nth(k))]
  <2>1. Nth(k)' = Nth(k)
    BY <1>1, <1>3 DEF Nth
  <2>2. /\ Nth(k)' \in Ring /\ Distance(NextToDeliver, Nth(k))' = k - 1
        /\ PendingFrames'[k] = payload'[BufferOf(Nth(k))']
    BY <1>10, <1>11 DEF PendingInRing
  <2>3. Distance(NextToDeliver, Nth(k))' = Distance(x, Nth(k))
    BY <1>3, <2>1 DEF Distance
  <2>4. BufferOf(Nth(k))' = BufferOf(Nth(k))
    BY <1>3, <2>1 DEF BufferOf
  <2> QED
    BY <2>1, <2>2, <2>3, <2>4
<1>13. ASSUME NEW k \in 1 .. n
       PROVE  PendingFrames'[k] = PendingFrames[k]
  <2>1. k \in 1 .. n + 1 /\ k - 1 # n
    BY <1>2
  <2>2. Nth(k) # w
    BY <1>2, <1>12, <2>1
  <2>3. payload'[BufferOf(Nth(k))] = payload[BufferOf(Nth(k))]
    BY <1>9, <1>12, <2>1, <2>2
  <2> QED
    BY <1>10, <1>11, <1>12, <2>1, <2>3 DEF PendingInRing
<1>14. PendingFrames'[n + 1] = f
  <2>1. PICK k \in 1 .. n + 1 : k = n + 1
    BY <1>2
  <2>2. Nth(k) \in Ring /\ Distance(x, Nth(k)) = n /\ PendingFrames'[k] = payload'[BufferOf(Nth(k))]
    BY <1>2, <1>12, <2>1
  <2>3. Nth(k) = w
    <3>1. x \in Ring /\ w \in Ring /\ Distance(x, w) = Distance(x, Nth(k))
      BY <1>2, <2>2
    <3> QED
      BY <2>2, <3>1, DistanceRange
  <2> QED
    BY <1>8, <2>1, <2>2, <2>3
<1>15. PendingFrames' = Append(PendingFrames, f)
  BY <1>11, <1>13, <1>14, IsAppended
<1> QED
  BY <1>3, <1>5, <1>11, <1>15 DEF Fifo!Put

\* A fetch adds the descriptor at RDH, which has a buffer; completing one takes
\* the first away.
LEMMA FetchedStep ==
  ASSUME FifoInv, [Next]_vars
  PROVE  Fetched'
<1>1. PICK w, h : w = written_back /\ h = RDH
  OBVIOUS
<1>2. /\ TypeOK /\ w \in Ring /\ h \in Ring /\ RDT \in Ring /\ QS \in Nat \ {0}
      /\ Distance(w, h) \in 0 .. QS - 1 /\ Distance(w, h) = Offset(h) - Offset(w)
      /\ Offset(w) \in 0 .. QS - 1 /\ Offset(h) \in 0 .. QS - 1 /\ Offset(RDT) = QS - 1
  BY <1>1, PendingRange DEF FifoInv
<1>3. \A i \in Ring : Distance(w, i) < Distance(w, h) => cached[i] # NoBuffer
  BY <1>1 DEF FifoInv, Fetched
<1>4. CASE UNCHANGED cardVars
  BY <1>4 DEF FifoInv, Fetched, cardVars
<1>5. CASE CardFetch
  <2>1. /\ written_back' = w /\ RDH' = wrap_ring(h) /\ h # RDT
        /\ cached' = [cached EXCEPT ![h] = descriptors[h].addr]
    BY <1>1, <1>5 DEF CardFetch, wrap_ring
  <2>2. Distance(w, h) < QS - 1
    <3>1. Offset(h) # QS - 1
      BY <1>2, <2>1, OffsetRange
    <3> QED
      BY <1>2, <3>1
  <2>3. Distance(w, wrap_ring(h)) = Distance(w, h) + 1
    BY <1>2, <2>2, DistanceNext
  <2>4. descriptors[h].addr # NoBuffer
    <3>1. ~Waiting(h)
      <4>1. Offset(w) <= Offset(h)
        BY <1>2
      <4> QED
        BY <1>1, <1>2, <4>1 DEF Waiting
    <3>2. descriptors[h].addr = <<RxPool, bufs_in_use[h]>>
      BY <1>2, <3>1 DEF FifoInv, Inv, SlotsMatch
    <3>3. RxPool # NoPool
      BY PoolAssumption, RxAssumption
    <3> QED
      BY <3>2, <3>3 DEF NoBuffer
  <2>5. ASSUME NEW i \in Ring, Distance(w, i) < Distance(w, h) + 1
        PROVE  cached'[i] # NoBuffer
    <3>1. CASE i = h
      BY <1>2, <2>1, <2>4, <3>1 DEF TypeOK
    <3>2. CASE i # h
      <4>1. Distance(w, i) # Distance(w, h) /\ Distance(w, i) \in 0 .. QS - 1
        BY <1>2, <3>2, DistanceRange
      <4>2. Distance(w, i) < Distance(w, h)
        BY <1>2, <2>5, <4>1
      <4> QED
        BY <1>2, <1>3, <2>1, <3>2, <4>2 DEF TypeOK
    <3> QED
      BY <3>1, <3>2
  <2> QED
    BY <2>1, <2>3, <2>5 DEF Fetched
<1>6. ASSUME NEW f \in Frame, NEW eop \in EOP, CardReceive(f, eop)
      PROVE  Fetched'
  <2>1. /\ written_back' = wrap_ring(w) /\ RDH' = h /\ w # h
        /\ cached' = [cached EXCEPT ![w] = NoBuffer]
    BY <1>1, <1>6 DEF CardReceive, wrap_ring
  <2>2. Distance(w, w) = 0 /\ Distance(w, h) > 0 /\ QS > 1
    <3>1. Distance(w, w) = 0 /\ Distance(w, h) # Distance(w, w)
      BY <1>2, <2>1, DistanceRange
    <3> QED
      BY <1>2, <3>1
  <2>3. wrap_ring(w) \in Ring /\ Distance(w, wrap_ring(w)) = 1
    BY <1>2, <2>2, DistanceNext
  <2>4. Distance(wrap_ring(w), h) = Distance(w, h) - 1
    <3>1. w \in Ring /\ h \in Ring /\ 1 <= Distance(w, h)
      BY <1>2, <2>2
    <3> QED
      BY <2>3, <3>1, DistanceShift
  <2>5. ASSUME NEW i \in Ring, Distance(wrap_ring(w), i) < Distance(w, h) - 1
        PROVE  cached'[i] # NoBuffer
    <3>1. Distance(w, i) \in 0 .. QS - 1
      BY <1>2, DistanceRange
    <3>2. Distance(wrap_ring(w), i) = IF 1 <= Distance(w, i)
                                        THEN Distance(w, i) - 1
                                        ELSE Distance(w, i) - 1 + QS
      BY <1>2, <2>3, DistanceShift
    <3>3. Distance(w, i) > 0 /\ Distance(w, i) < Distance(w, h)
      BY <1>2, <2>5, <3>1, <3>2
    <3>4. i # w
      BY <2>2, <3>3
    <3> QED
      BY <1>2, <1>3, <2>1, <3>3, <3>4 DEF TypeOK
  <2> QED
    BY <2>1, <2>4, <2>5 DEF Fetched
<1>7. \/ UNCHANGED cardVars \/ CardFetch
      \/ \E f \in Frame, eop \in EOP : CardReceive(f, eop)
  BY DEF Next, Application, Allocate, Free, Driver, Card, ReceiveStart, EopPanic, Take,
         Rearm, ReceiveEnd, vars
<1> QED
  BY <1>4, <1>5, <1>6, <1>7

\* Every other step leaves the frames that wait alone, and which of them is next:
\* the application only writes to buffers that it has just taken off the free stack.
LEMMA OthersStutter ==
  ASSUME FifoInv, Inv', [Next]_vars, ~Take,
         ~(\E f \in Frame, eop \in EOP : CardReceive(f, eop))
  PROVE  UNCHANGED Fifo!fifoVars
<1>1. TypeOK /\ PoolTypeOK /\ rx_index \in Ring /\ rx_local \in Ring
      /\ last_rx_index \in Ring
  BY DEF FifoInv, Inv, TypeOK
<1>2. UNCHANGED <<written_back, bufs_in_use, delivered>>
  BY DEF Next, Application, Allocate, Free, Driver, Card, ReceiveStart, EopPanic,
         Rearm, ReceiveEnd, CardFetch, vars, driverVars, cardVars
<1>3. NextToDeliver' = NextToDeliver
  <2>1. CASE UNCHANGED <<call, rx_index, rx_local>>
    BY <2>1 DEF NextToDeliver
  <2>2. CASE \E n \in 0 .. MaxNums : ReceiveStart(n)
    BY <2>2 DEF ReceiveStart, NextToDeliver
  <2>3. CASE Rearm
    BY <2>3 DEF Rearm, NextToDeliver
  <2>4. CASE ReceiveEnd
    <3>1. /\ call = "receive" /\ call' = "idle"
          /\ rx_index' = IF rx_local # last_rx_index THEN rx_local ELSE rx_index
      BY <2>4 DEF ReceiveEnd
    <3>2. rx_local = last_rx_index => rx_local = rx_index
      <4>1. IF rx_local = rx_index THEN last_rx_index = rx_index
                                   ELSE wrap_ring(last_rx_index) = rx_local
        BY <3>1 DEF FifoInv, Inv, RingInOrder
      <4>2. CASE QS = 1
        BY <1>1, <4>2 DEF Ring
      <4>3. CASE QS # 1
        <5>1. \A i \in Ring : wrap_ring(i) # i
          BY <4>3, WrapRing, RingAssumption DEF Ring
        <5> QED
          BY <1>1, <4>1, <5>1
      <4> QED
        BY <4>2, <4>3
    <3> QED
      BY <3>1, <3>2 DEF NextToDeliver
  <2>5. \/ UNCHANGED <<call, rx_index, rx_local>>
        \/ \E n \in 0 .. MaxNums : ReceiveStart(n)
        \/ Rearm \/ ReceiveEnd
    BY DEF Next, Application, Allocate, Free, Driver, Card, EopPanic, CardFetch, vars, driverVars
  <2> QED
    BY <2>1, <2>2, <2>3, <2>4, <2>5
<1>4. ASSUME NEW i \in Ring
      PROVE  payload'[BufferOf(i)] = payload[BufferOf(i)]
  <2>1. CASE \E p \in Pool, f \in Frame : AllocPkt(p, f)
    <3>1. PICK p \in Pool, f \in Frame : AllocPkt(p, f)
      BY <2>1
    <3>2. Top(p) \in Buffer /\ IsFree(Top(p))
      BY <1>1, <3>1, TopIsFree DEF AllocPkt
    <3>3. BufferOf(i) \in RingBuffers /\ BufferOf(i) \in Buffer
      BY <1>1, RxAssumption DEF BufferOf, RingBuffers, Buffer, TypeOK
    <3>4. ~IsFree(BufferOf(i))
      BY <3>3 DEF FifoInv, Inv, OneOwner, OwnedOnce
    <3> QED
      BY <1>1, <3>1, <3>2, <3>3, <3>4 DEF AllocPkt, PoolTypeOK
  <2>2. CASE UNCHANGED payload
    BY <2>2 DEF BufferOf
  <2>3. UNCHANGED payload \/ \E p \in Pool, f \in Frame : AllocPkt(p, f)
    BY DEF Next, Application, Allocate, Free, Driver, Card, ReceiveStart, EopPanic,
           Rearm, ReceiveEnd, CardFetch, DropPkt, vars, poolVars
  <2> QED
    BY <2>1, <2>2, <2>3
<1>5. PendingFrames' = PendingFrames
  BY <1>2, <1>3, <1>4, PendingKept DEF FifoInv
<1> QED
  BY <1>2, <1>5 DEF Fifo!fifoVars

\* The queue keeps the promise of FrameFifo, as far as it is one of safety: the
\* callback gets the frames that arrived, each one once, unaltered and in order,
\* for every packet_nums and whenever the pool runs empty.
THEOREM DeliversInOrder == Spec => Fifo!Spec
<1>1. Init => FifoInv /\ Fifo!Init
  <2> SUFFICES ASSUME Init PROVE FifoInv /\ Fifo!Init
    OBVIOUS
  <2>1. Inv
    BY InvInit
  <2>2. PendingInRing
    BY <2>1, PendingSlots
  <2>3. Distance(0, 0) = 0 /\ written_back = 0 /\ RDH = 0 /\ NextToDeliver = 0
    BY DEF Init, Distance, NextToDeliver
  <2>4. Fetched
    <3>1. ASSUME NEW i \in Ring PROVE ~(Distance(0, i) < Distance(0, 0))
      <4>1. 0 \in Ring /\ Distance(0, i) \in 0 .. QS - 1
        BY RingAssumption, DistanceRange DEF Ring
      <4> QED
        BY <2>3, <4>1
    <3> QED
      BY <2>3, <3>1 DEF Fetched
  <2>5. PendingFrames = << >>
    BY <2>2, <2>3, EmptySeq DEF PendingInRing
  <2> QED
    BY <2>1, <2>4, <2>5 DEF FifoInv, Fifo!Init, Init
<1>2. FifoInv /\ [Next]_vars => FifoInv' /\ [Fifo!Next]_(Fifo!fifoVars)
  <2> SUFFICES ASSUME FifoInv, [Next]_vars PROVE FifoInv' /\ [Fifo!Next]_(Fifo!fifoVars)
    OBVIOUS
  <2>1. Inv /\ Inv'
    BY InvStep DEF FifoInv
  <2>2. FifoInv'
    BY <2>1, FetchedStep DEF FifoInv
  <2>3. CASE Take
    BY <2>1, <2>2, <2>3, TakeIsTake DEF Fifo!Next
  <2>4. CASE \E f \in Frame, eop \in EOP : CardReceive(f, eop)
    BY <2>1, <2>2, <2>4, ReceiveIsPut DEF Fifo!Next
  <2>5. CASE ~Take /\ ~(\E f \in Frame, eop \in EOP : CardReceive(f, eop))
    BY <2>1, <2>2, <2>5, OthersStutter
  <2> QED
    BY <2>3, <2>4, <2>5
<1> QED
  BY <1>1, <1>2, PTL DEF Spec, Fifo!Spec
=============================================================================
