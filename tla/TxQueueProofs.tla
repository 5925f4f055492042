---------------------------- MODULE TxQueueProofs ----------------------------
(***************************************************************************)
(* Proofs about the transmit queue of TxQueue, for every ring size, batch, *)
(* pool and number of packets.                                             *)
(***************************************************************************)
EXTENDS TxQueue, PoolProofs, RingProofs

-----------------------------------------------------------------------------
(* Types.                                                                  *)

\* The parts that recycle_tx_buffers splits bufs_in_use into.
LEMMA DrainType ==
  ASSUME bufs_in_use \in Seq(Entry)
  PROVE  /\ Drained \in 0 .. Len(bufs_in_use)
         /\ SubSeq(bufs_in_use, 1, Drained) \in Seq(Entry)
         /\ SubSeq(bufs_in_use, Drained + 1, Len(bufs_in_use)) \in Seq(Entry)
<1>1. Len(bufs_in_use) \in Nat
  BY LenProperties
<1>2. Drained \in 0 .. Len(bufs_in_use)
  BY <1>1, RingAssumption, TxAssumption DEF Drained
<1>3. \A i \in 1 .. Len(bufs_in_use) : bufs_in_use[i] \in Entry
  BY ElementOfSeq
<1>4. SubSeq(bufs_in_use, 1, Drained) \in Seq(Entry)
  BY <1>1, <1>2, <1>3, SubSeqProperties
<1>5. SubSeq(bufs_in_use, Drained + 1, Len(bufs_in_use)) \in Seq(Entry)
  BY <1>1, <1>2, <1>3, SubSeqProperties
<1> QED
  BY <1>2, <1>4, <1>5

\* The last descriptor of a batch is a number.
LEMMA CleanupToType ==
  ASSUME NEW i \in Ring
  PROVE  cleanup_to(i) \in Int
BY RingAssumption, TxAssumption DEF cleanup_to, Ring

-----------------------------------------------------------------------------
(* Type correctness.                                                       *)

\* Types hold initially.
LEMMA TypeInit == Init => TypeOK
<1> SUFFICES ASSUME Init PROVE TypeOK
  OBVIOUS
<1>1. PoolTypeOK
  <2>1. [k \in 1 .. NumEntries |-> k - 1] \in Seq(Entry)
    BY PoolAssumption DEF Entry
  <2>2. (CHOOSE f \in Frame : TRUE) \in Frame
    BY PoolAssumption
  <2> QED
    BY <2>1, <2>2 DEF Init, PoolTypeOK
<1>2. 0 \in Ring
  BY RingAssumption, TxAssumption DEF Ring
<1>3. << >> \in Seq(Entry)
  BY EmptySeq
<1> QED
  BY <1>1, <1>2, <1>3 DEF Init, TypeOK

\* Every step keeps the types.
LEMMA TypeStep == TypeOK /\ [Next]_vars => TypeOK'
<1> SUFFICES ASSUME TypeOK, [Next]_vars PROVE TypeOK'
  OBVIOUS
<1>pool. PoolTypeOK
  BY DEF TypeOK
<1>1. CASE Application
  <2>1. PoolTypeOK'
    BY <1>pool, <1>1, AllocPktType, DropPktType DEF Application
  <2> QED
    BY <2>1, <1>1 DEF Application, TypeOK, driverVars, cardVars
<1>2. ASSUME NEW b \in held, SendQueueFull(b) PROVE TypeOK'
  <2>1. PoolTypeOK'
    BY <1>pool, <1>2, DropPktType DEF SendQueueFull
  <2> QED
    BY <2>1, <1>2 DEF SendQueueFull, TypeOK, driverVars, cardVars
<1>3. ASSUME NEW b \in held, SendFill(b) PROVE TypeOK'
  <2>1. b \in Buffer /\ b[1] \in Pool /\ b[2] \in Entry
    BY <1>pool, BufferPair DEF PoolTypeOK
  <2>2. PoolTypeOK'
    BY <1>pool, <1>3 DEF SendFill, PoolTypeOK
  <2>3. wrap_ring(tx_index) \in Ring
    BY WrapRingType DEF TypeOK, Ring
  <2>4. Append(bufs_in_use, b[2]) \in Seq(Entry)
    BY <2>1, AppendProperties DEF TypeOK
  <2>5. (descriptors \in [Ring -> [addr : Buffer \cup {NoBuffer}, dd : BOOLEAN]])'
    BY <2>1, <1>3 DEF SendFill, FillDescriptor, TypeOK
  <2> QED
    BY <2>1, <2>2, <2>3, <2>4, <2>5, <1>3 DEF SendFill, TypeOK, cardVars
<1>4. CASE SendTail
  BY <1>4 DEF SendTail, TypeOK, PoolTypeOK, poolVars, cardVars
<1>5. CASE RecycleStart
  BY <1>5 DEF RecycleStart, TypeOK, PoolTypeOK, poolVars, cardVars
<1>6. CASE RecycleBatch
  <2>1. clean_local' \in Ring
    BY <1>6, WrapRingType, CleanupToType DEF RecycleBatch, TypeOK
  <2>2. PoolTypeOK' /\ (bufs_in_use \in Seq(Entry))'
    <3>1. CASE tx_pool = NoPool
      BY <3>1, <1>6, <1>pool DEF RecycleBatch, TypeOK, PoolTypeOK
    <3>2. CASE tx_pool # NoPool
      <4>1. tx_pool \in Pool
        BY <3>2 DEF TypeOK
      <4>2. Pushed(tx_pool, SubSeq(bufs_in_use, 1, Drained)) \in [Pool -> Seq(Entry)]
        BY <4>1, <1>pool, DrainType, PushedType DEF TypeOK
      <4> QED
        BY <3>2, <4>2, <1>6, <1>pool, DrainType DEF RecycleBatch, TypeOK, PoolTypeOK
    <3> QED
      BY <3>1, <3>2
  <2> QED
    BY <2>1, <2>2, <1>6 DEF RecycleBatch, TypeOK, cardVars
<1>7. CASE RecycleDone
  BY <1>7 DEF RecycleDone, TypeOK, PoolTypeOK, poolVars, cardVars
<1>8. CASE CardFetch
  <2>1. TDH' \in Ring
    BY <1>8, RingAssumption, TxAssumption DEF CardFetch, TypeOK, Ring
  <2>2. (cached \in [Ring -> Buffer \cup {NoBuffer}])'
    BY <1>8 DEF CardFetch, TypeOK
  <2> QED
    BY <2>1, <2>2, <1>8 DEF CardFetch, TypeOK, PoolTypeOK, poolVars, driverVars
<1>9. CASE CardTransmit
  <2>1. written_back' \in Ring
    BY <1>9, RingAssumption, TxAssumption DEF CardTransmit, TypeOK, Ring
  <2>2. wire' \in Frame \cup {NoFrame}
    BY <1>9 DEF CardTransmit, FrameAt, TypeOK, PoolTypeOK
  <2>3. (cached \in [Ring -> Buffer \cup {NoBuffer}])'
    BY <1>9 DEF CardTransmit, TypeOK
  <2>4. (descriptors \in [Ring -> [addr : Buffer \cup {NoBuffer}, dd : BOOLEAN]])'
    BY <1>9 DEF CardTransmit, TypeOK
  <2> QED
    BY <2>1, <2>2, <2>3, <2>4, <1>9
    DEF CardTransmit, TypeOK, PoolTypeOK, poolVars, driverVars
<1>10. CASE UNCHANGED vars
  BY <1>10 DEF vars, TypeOK, PoolTypeOK, poolVars, driverVars, cardVars
<1> QED
  BY <1>1, <1>2, <1>3, <1>4, <1>5, <1>6, <1>7, <1>8, <1>9, <1>10
  DEF Next, Driver, Card

\* Every index and register stays in the ring and every other variable keeps
\* to its type, for every ring size, batch and pool: no access of send,
\* recycle_tx_buffers or the card is out of bounds.
THEOREM TypeCorrect == Spec => []TypeOK
<1> QED
  BY TypeInit, TypeStep, PTL DEF Spec

-----------------------------------------------------------------------------
(* Arithmetic of the ring.                                                 *)

\* cleanable is the distance from the first to the second index, and a batch
\* that fits into the ring ends TX_CLEAN_BATCH - 1 descriptors further on.
LEMMA BatchArithmetic ==
  ASSUME NEW c \in Ring, NEW i \in Ring
  PROVE  /\ cleanable(i, c) = Distance(c, i)
         /\ TX_CLEAN_BATCH < QS =>
              /\ cleanup_to(c) \in Ring
              /\ Distance(c, cleanup_to(c)) = TX_CLEAN_BATCH - 1
              /\ wrap_ring(cleanup_to(c)) \in Ring
              /\ Distance(c, wrap_ring(cleanup_to(c))) = TX_CLEAN_BATCH
<1>1. cleanable(i, c) = Distance(c, i)
  BY RingAssumption, TxAssumption DEF cleanable, Distance, Ring
<1>2. ASSUME TX_CLEAN_BATCH < QS
      PROVE  cleanup_to(c) \in Ring /\ Distance(c, cleanup_to(c)) = TX_CLEAN_BATCH - 1
  BY <1>2, RingAssumption, TxAssumption DEF cleanup_to, Distance, Ring
<1> QED
  BY <1>1, <1>2, DistanceNext, RingAssumption, TxAssumption

-----------------------------------------------------------------------------
(* The inductive invariant.  The entries of bufs_in_use only name buffers  *)
(* if they all come from one pool, which is the documented use of a queue. *)

OnePool == \A p, q \in Pool : p = q

\* Offsets are less than the size of the ring, and tell its indices apart.
LEMMA OffsetRange ==
  ASSUME TypeOK, NEW i \in Ring, NEW j \in Ring
  PROVE  /\ CleanIndex \in Ring
         /\ Offset(i) \in 0 .. QS - 1
         /\ Offset(i) = Offset(j) => i = j
<1>1. CleanIndex \in Ring
  BY DEF TypeOK, CleanIndex
<1> QED
  BY <1>1, DistanceRange DEF Offset

\* After start_tx_queue the ring is empty.
LEMMA InvInit == Init => Inv
<1> SUFFICES ASSUME Init PROVE Inv
  OBVIOUS
<1>1. TypeOK
  BY TypeInit
<1>2. ToSet(bufs_in_use) = {} /\ IsInjective(bufs_in_use) /\ Len(bufs_in_use) = 0
  BY DEF Init, ToSet, IsInjective
<1>3. OneOwner
  <2>1. ASSUME NEW p \in Pool
        PROVE  IsInjective(free_stack[p]) /\ ToSet(free_stack[p]) = Entry
    <3>1. free_stack[p] = [k \in 1 .. NumEntries |-> k - 1]
      BY DEF Init
    <3>2. IsInjective(free_stack[p])
      BY <3>1 DEF IsInjective
    <3>3. ToSet(free_stack[p]) = {k - 1 : k \in 1 .. NumEntries}
      BY <3>1 DEF ToSet
    <3>4. {k - 1 : k \in 1 .. NumEntries} = Entry
      <4>1. \A n \in Entry : n + 1 \in 1 .. NumEntries /\ n = (n + 1) - 1
        BY PoolAssumption DEF Entry
      <4>2. \A k \in 1 .. NumEntries : k - 1 \in Entry
        BY PoolAssumption DEF Entry
      <4> QED
        BY <4>1, <4>2
    <3> QED
      BY <3>2, <3>3, <3>4
  <2>2. \A b \in Buffer : IsFree(b) /\ b \notin held /\ b \notin QueueBuffers
    BY <1>2, <2>1, BufferPair DEF Init, IsFree, QueueBuffers
  <2> QED
    BY <1>2, <2>1, <2>2 DEF OneOwner, OwnedOnce
<1>4. 0 \in Ring /\ Distance(0, 0) = 0
  BY RingAssumption, TxAssumption DEF Ring, Distance
<1>5. \A i \in Ring : Offset(i) = Distance(0, i)
  BY DEF Init, Offset, CleanIndex
<1>6. RingInOrder
  BY <1>2, <1>4, <1>5 DEF Init, RingInOrder
<1>7. SlotsMatch
  BY <1>4, <1>5, DistanceRange DEF Init, SlotsMatch
<1> QED
  BY <1>1, <1>3, <1>6, <1>7 DEF Inv, NoPanic, Init

\* What the application does leaves the ring alone, and send does nothing more
\* to a full one than drop the packet.
LEMMA InvApplication ==
  ASSUME Inv, TypeOK', Application \/ \E b \in held : SendQueueFull(b)
  PROVE  Inv'
<1>1. UNCHANGED <<driverVars, cardVars, descriptors, TDT>>
  BY DEF Application, SendQueueFull
<1>2. OneOwner' /\ NoPanic'
  <2>1. PICK Q : Q = QueueBuffers
    OBVIOUS
  <2>2. OwnedOnce(Q) /\ PoolTypeOK /\ ~panicked
    BY <2>1 DEF Inv, OneOwner, TypeOK, NoPanic
  <2>3. \/ \E p \in Pool, f \in Frame : AllocPkt(p, f)
        \/ \E b \in held : DropPkt(b)
    BY DEF Application, SendQueueFull
  <2>4. OwnedOnce(Q)' /\ ~panicked'
    <3>1. CASE \E p \in Pool, f \in Frame : AllocPkt(p, f)
      <4>1. PICK p \in Pool, f \in Frame : AllocPkt(p, f)
        BY <3>1
      <4>2. OwnedOnce(Q)'
        BY <4>1, <2>2, AllocPktOwned
      <4> QED
        BY <4>1, <4>2, <2>2 DEF AllocPkt
    <3>2. CASE \E b \in held : DropPkt(b)
      BY <3>2, <2>2, DropPktOwned
    <3> QED
      BY <2>3, <3>1, <3>2
  <2>5. QueueBuffers' = Q
    BY <1>1, <2>1 DEF QueueBuffers, driverVars
  <2>6. IsInjective(bufs_in_use)'
    BY <1>1 DEF Inv, OneOwner, driverVars
  <2> QED
    BY <2>4, <2>5, <2>6 DEF OneOwner, OwnedOnce, NoPanic
<1>3. RingInOrder'
  BY <1>1 DEF Inv, RingInOrder, Offset, CleanIndex, driverVars, cardVars
<1>4. SlotsMatch'
  BY <1>1 DEF Inv, SlotsMatch, Offset, CleanIndex, CardBuffer, driverVars, cardVars
<1> QED
  BY <1>2, <1>3, <1>4 DEF Inv

\* The steps of a call that change neither the pool nor the ring.
LEMMA InvCall ==
  ASSUME Inv, TypeOK', SendTail \/ RecycleStart \/ RecycleDone
  PROVE  Inv'
<1>1. /\ UNCHANGED <<poolVars, tx_index, bufs_in_use, tx_pool, cardVars, descriptors>>
      /\ CleanIndex' = CleanIndex
  BY DEF SendTail, RecycleStart, RecycleDone, CleanIndex
<1>2. OneOwner' /\ NoPanic'
  BY <1>1 DEF Inv, OneOwner, OwnedOnce, QueueBuffers, IsFree, NoPanic, poolVars
<1>3. \A i \in Ring : Offset(i)' = Offset(i)
  BY <1>1 DEF Offset
<1>4. {tx_index, TDT, TDH, written_back} \subseteq Ring
  BY DEF Inv, TypeOK
<1>5. RingInOrder'
  <2>1. /\ Offset(written_back)' = Offset(written_back)
        /\ Offset(TDH)' = Offset(TDH)
        /\ Offset(tx_index)' = Offset(tx_index)
    BY <1>1 DEF Offset, cardVars
  <2>2. CASE SendTail
    <3>1. TDT' = tx_index' /\ Offset(TDT)' = Offset(tx_index)
      BY <1>1, <2>2 DEF SendTail, Offset
    <3>2. Offset(TDH) <= Offset(tx_index) /\ Offset(tx_index) <= Offset(tx_index)
      BY <1>4, OffsetRange DEF Inv, RingInOrder
    <3> QED
      BY <1>1, <2>1, <3>1, <3>2 DEF Inv, RingInOrder
  <2>3. CASE RecycleStart \/ RecycleDone
    <3>1. TDT' = TDT /\ call # "send" /\ Offset(TDT)' = Offset(TDT)
      BY <1>1, <2>3 DEF RecycleStart, RecycleDone, Offset
    <3> QED
      BY <1>1, <2>1, <3>1 DEF Inv, RingInOrder
  <2> QED
    BY <2>2, <2>3
<1>6. SlotsMatch'
  BY <1>1 DEF Inv, SlotsMatch, Offset, CardBuffer, cardVars
<1> QED
  BY <1>2, <1>5, <1>6 DEF Inv

\* send fills the descriptor after the last one in flight, and the packet's
\* buffer moves from the application to the queue.
LEMMA InvSendFill ==
  ASSUME OnePool, Inv, TypeOK', NEW b \in held, SendFill(b)
  PROVE  Inv'
<1> DEFINE c == clean_index
           t == tx_index
<1>1. b \in Buffer /\ b[1] \in Pool /\ b[2] \in Entry /\ b = <<b[1], b[2]>>
  BY BufferPair DEF Inv, TypeOK, PoolTypeOK
<1>2. TypeOK /\ c \in Ring /\ {t, TDT, TDH, written_back} \subseteq Ring
  BY DEF Inv, TypeOK
<1>3. CleanIndex = c /\ CleanIndex' = c /\ \A i : Offset(i) = Distance(c, i)
  BY DEF SendFill, CleanIndex, Offset
<1>4. /\ Offset(t) < QS - 1
      /\ Distance(c, wrap_ring(t)) = Offset(t) + 1
  <2>1. wrap_ring(t) # c
    BY DEF SendFill, can_send
  <2>2. Distance(c, t) \in 0 .. QS - 1 /\ Distance(c, t) # QS - 1
    BY <2>1, <1>2, DistanceRange, DistanceNext
  <2>3. QS \in Nat /\ Distance(c, t) < QS - 1
    BY <2>2, RingAssumption, TxAssumption
  <2> QED
    BY <2>3, <1>2, <1>3, DistanceNext
<1>5. /\ tx_index' = wrap_ring(t) /\ UNCHANGED <<TDT, TDH, written_back, cached>>
      /\ TDT = t
      /\ \A i : Offset(i)' = Distance(c, i')
  BY <1>3 DEF SendFill, Inv, RingInOrder, cardVars, Offset
<1>6. bufs_in_use # << >> => tx_pool = b[1]
  BY <1>1 DEF OnePool, Inv, RingInOrder
<1>7. /\ bufs_in_use \in Seq(Entry) /\ Len(bufs_in_use) = Offset(t)
      /\ bufs_in_use' = Append(bufs_in_use, b[2])
      /\ tx_pool' = b[1]
  BY DEF SendFill, Inv, TypeOK, RingInOrder
<1>8. /\ Len(bufs_in_use') = Offset(t) + 1
      /\ \A k \in 1 .. Offset(t) : bufs_in_use'[k] = bufs_in_use[k]
      /\ bufs_in_use'[Offset(t) + 1] = b[2]
  BY <1>1, <1>7, AppendProperties
<1>9. OneOwner'
  <2>1. QueueBuffers = {<<b[1], n>> : n \in ToSet(bufs_in_use)}
    <3>1. CASE bufs_in_use = << >>
      BY <3>1 DEF QueueBuffers, ToSet
    <3>2. CASE bufs_in_use # << >>
      BY <3>2, <1>6 DEF QueueBuffers
    <3> QED
      BY <3>1, <3>2
  <2>2. b \notin QueueBuffers /\ OwnedOnce(QueueBuffers) /\ IsInjective(bufs_in_use)
    BY <1>1 DEF Inv, OneOwner, OwnedOnce
  <2>3. b[2] \notin ToSet(bufs_in_use)
    BY <1>1, <2>1, <2>2
  <2>4. IsInjective(bufs_in_use') /\ ToSet(bufs_in_use') = ToSet(bufs_in_use) \cup {b[2]}
    BY <1>1, <1>7, <2>2, <2>3, AppendDistinct
  <2>5. QueueBuffers' = QueueBuffers \cup {b}
    BY <1>1, <1>7, <2>1, <2>4 DEF QueueBuffers
  <2>6. held' = held \ {b} /\ UNCHANGED free_stack
    BY DEF SendFill
  <2>7. \A x : IsFree(x)' = IsFree(x)
    BY <2>6 DEF IsFree
  <2> QED
    BY <1>1, <2>2, <2>4, <2>5, <2>6, <2>7 DEF OneOwner, OwnedOnce
<1>10. RingInOrder'
  <2>1. /\ Offset(written_back)' = Offset(written_back)
        /\ Offset(TDH)' = Offset(TDH)
        /\ Offset(TDT)' = Offset(t)
        /\ Offset(tx_index)' = Offset(t) + 1
    BY <1>3, <1>4, <1>5
  <2>2. call' = "send" /\ tx_index' = wrap_ring(TDT')
    BY <1>5 DEF SendFill
  <2>3. Offset(t) \in Int
    BY <1>2, OffsetRange
  <2> QED
    BY <1>1, <1>5, <1>7, <1>8, <2>1, <2>2, <2>3 DEF Inv, RingInOrder
<1>11. SlotsMatch'
  <2> SUFFICES ASSUME NEW i \in Ring
      PROVE  /\ (Offset(written_back) <= Offset(i) /\ Offset(i) < Offset(t) + 1) =>
                  /\ ~descriptors'[i].dd
                  /\ CardBuffer(i)' = <<b[1], bufs_in_use'[Offset(i) + 1]>>
             /\ cached[i] # NoBuffer =>
                  Offset(written_back) <= Offset(i) /\ Offset(i) < Offset(TDH)
    BY <1>3, <1>4, <1>5, <1>7 DEF SlotsMatch
  <2>1. /\ Offset(i) \in 0 .. QS - 1 /\ Offset(t) \in 0 .. QS - 1
        /\ Offset(TDH) \in 0 .. QS - 1 /\ Offset(TDH) <= Offset(t)
        /\ Offset(i) = Offset(t) => i = t
    BY <1>2, <1>5, OffsetRange DEF Inv, RingInOrder
  <2>2. descriptors' = [descriptors EXCEPT ![t] = [addr |-> b, dd |-> FALSE]]
    BY DEF SendFill, FillDescriptor
  <2>3. descriptors'[t] = [addr |-> b, dd |-> FALSE]
        /\ (i # t => descriptors'[i] = descriptors[i])
    BY <1>2, <2>2 DEF TypeOK
  <2>4. cached[i] # NoBuffer =>
          Offset(written_back) <= Offset(i) /\ Offset(i) < Offset(TDH)
    BY DEF Inv, SlotsMatch
  <2>5. CASE i = t
    <3>1. cached[t] = NoBuffer
      BY <2>1, <2>4, <2>5
    <3>2. CardBuffer(i)' = b
      BY <3>1, <2>3, <2>5, <1>5 DEF CardBuffer
    <3>3. ~descriptors'[i].dd /\ bufs_in_use'[Offset(i) + 1] = b[2]
      BY <1>8, <2>3, <2>5
    <3> QED
      BY <1>1, <2>4, <3>2, <3>3
  <2>6. CASE i # t
    <3>1. CardBuffer(i)' = CardBuffer(i)
      BY <2>3, <2>6, <1>5 DEF CardBuffer
    <3>2. ASSUME Offset(written_back) <= Offset(i), Offset(i) < Offset(t) + 1
          PROVE  /\ ~descriptors'[i].dd
                 /\ CardBuffer(i)' = <<b[1], bufs_in_use'[Offset(i) + 1]>>
      <4>1. Offset(i) < Offset(t) /\ Offset(i) + 1 \in 1 .. Offset(t)
        BY <2>1, <2>6, <3>2
      <4>2. /\ ~descriptors[i].dd
            /\ CardBuffer(i) = <<tx_pool, bufs_in_use[Offset(i) + 1]>>
        BY <3>2, <4>1 DEF Inv, SlotsMatch
      <4>3. tx_pool = b[1]
        <5>1. Len(bufs_in_use) # 0
          BY <4>1, <2>1, <1>7
        <5> QED
          BY <5>1, <1>6
      <4> QED
        BY <4>1, <4>2, <4>3, <3>1, <2>3, <2>6, <1>8
    <3> QED
      BY <3>2, <2>4
  <2> QED
    BY <2>5, <2>6
<1> QED
  BY <1>9, <1>10, <1>11 DEF Inv, NoPanic, SendFill

\* recycle_tx_buffers cleans a batch only when the card is done with all of it:
\* the DD bit of its last descriptor is from this lap of the ring.
LEMMA InvRecycleBatch ==
  ASSUME Inv, TypeOK', RecycleBatch
  PROVE  Inv'
<1> DEFINE c == clean_local
           d == wrap_ring(cleanup_to(clean_local))
           B == TX_CLEAN_BATCH
           freed == SubSeq(bufs_in_use, 1, B)
<1>1. /\ TypeOK /\ c \in Ring /\ {tx_index, TDT, TDH, written_back} \subseteq Ring
      /\ bufs_in_use \in Seq(Entry) /\ B \in Nat \ {0} /\ QS \in Nat \ {0}
  BY RingAssumption, TxAssumption DEF Inv, TypeOK
<1>2. CleanIndex = c /\ CleanIndex' = d
  BY DEF RecycleBatch, CleanIndex
<1>3. \A i \in Ring : Offset(i) = Distance(c, i) /\ Offset(i) \in 0 .. QS - 1
  BY <1>1, <1>2, OffsetRange DEF Offset
<1>4. Len(bufs_in_use) = Offset(tx_index) /\ Offset(tx_index) >= B
  BY <1>1, <1>3, BatchArithmetic DEF RecycleBatch, BatchDone, Inv, RingInOrder
<1>5. B < QS
  BY <1>1, <1>3, <1>4
<1>6. /\ cleanup_to(c) \in Ring /\ Offset(cleanup_to(c)) = B - 1
      /\ d \in Ring /\ Distance(c, d) = B
  BY <1>1, <1>3, <1>5, BatchArithmetic
<1>7. Offset(written_back) >= B
  <2>1. descriptors[cleanup_to(c)].dd
    BY DEF RecycleBatch, BatchDone
  <2>2. ~(/\ Offset(written_back) <= Offset(cleanup_to(c))
          /\ Offset(cleanup_to(c)) < Offset(tx_index))
    BY <1>6, <2>1 DEF Inv, SlotsMatch
  <2>3. Offset(written_back) \in Int /\ Offset(tx_index) \in Int
    BY <1>1, <1>3
  <2> QED
    BY <1>1, <1>4, <1>6, <2>2, <2>3
<1>8. ASSUME NEW i \in Ring
      PROVE  Offset(i)' = IF B <= Offset(i) THEN Offset(i) - B ELSE Offset(i) - B + QS
  <2>1. Offset(i)' = Distance(d, i)
    BY <1>2 DEF Offset
  <2>2. Distance(d, i) = IF Distance(c, d) <= Distance(c, i)
                           THEN Distance(c, i) - Distance(c, d)
                           ELSE Distance(c, i) - Distance(c, d) + QS
    BY <1>1, <1>6, DistanceShift
  <2>3. Distance(c, i) = Offset(i) /\ Distance(c, d) = B
    BY <1>3, <1>6
  <2> HIDE DEF d, c, B
  <2> QED
    BY <2>1, <2>2, <2>3
<1>9. /\ Drained = B /\ tx_pool \in Pool
      /\ free_stack' = Pushed(tx_pool, freed)
      /\ bufs_in_use' = SubSeq(bufs_in_use, B + 1, Len(bufs_in_use))
      /\ UNCHANGED <<held, panicked, tx_index, tx_pool, TDT, cardVars, descriptors>>
  <2>1. Len(bufs_in_use) \in Nat /\ Len(bufs_in_use) >= B
    BY <1>1, <1>3, <1>4
  <2>2. Drained = B
    BY <1>1, <2>1 DEF Drained
  <2>3. bufs_in_use # << >>
    BY <1>1, <2>1
  <2>4. tx_pool \in Pool /\ tx_pool # NoPool
    BY <2>3, PoolAssumption DEF Inv, RingInOrder
  <2> QED
    BY <2>2, <2>4 DEF RecycleBatch
<1>10. /\ freed \in Seq(Entry)
       /\ Len(bufs_in_use') = Offset(tx_index) - B
       /\ \A k \in 1 .. Offset(tx_index) - B : bufs_in_use'[k] = bufs_in_use[B + k]
       /\ ToSet(bufs_in_use) = ToSet(freed) \cup ToSet(bufs_in_use')
       /\ IsInjective(freed) /\ IsInjective(bufs_in_use')
       /\ ToSet(freed) \cap ToSet(bufs_in_use') = {}
  <2>1. B \in 0 .. Len(bufs_in_use)
    BY <1>1, <1>3, <1>4
  <2>2. IsInjective(bufs_in_use)
    BY DEF Inv, OneOwner
  <2> QED
    BY <1>1, <1>4, <1>9, <2>1, <2>2, SplitDistinct
<1>11. OneOwner'
  <2>1. OwnedOnce(QueueBuffers) /\ PoolTypeOK
    BY DEF Inv, OneOwner, TypeOK
  <2>2. \A n \in ToSet(freed) : ~IsFree(<<tx_pool, n>>)
    <3>1. ASSUME NEW n \in ToSet(freed)
          PROVE  <<tx_pool, n>> \in Buffer /\ <<tx_pool, n>> \in QueueBuffers
      <4>1. n \in Entry
        BY <1>10, Elements
      <4> QED
        BY <4>1, <1>9, <1>10 DEF QueueBuffers, Buffer
    <3> QED
      BY <2>1, <3>1 DEF OwnedOnce
  <2>3. /\ \A q \in Pool : IsInjective(free_stack'[q])
        /\ \A b \in Buffer :
             IsFree(b)' <=> IsFree(b) \/ (b[1] = tx_pool /\ b[2] \in ToSet(freed))
    BY <1>9, <1>10, <2>1, <2>2, PushedOwned DEF OwnedOnce
  <2>4. \A b \in Buffer :
          /\ b \in QueueBuffers <=> b[1] = tx_pool /\ b[2] \in ToSet(bufs_in_use)
          /\ b \in QueueBuffers' <=> b[1] = tx_pool /\ b[2] \in ToSet(bufs_in_use')
    BY <1>9, BufferPair DEF QueueBuffers
  <2> QED
    BY <1>9, <1>10, <2>1, <2>3, <2>4 DEF OneOwner, OwnedOnce
<1>12. RingInOrder'
  <2>1. /\ Offset(written_back)' = Offset(written_back) - B
        /\ Offset(TDH)' = Offset(TDH) - B
        /\ Offset(TDT)' = Offset(TDT) - B
        /\ Offset(tx_index)' = Offset(tx_index) - B
    <3>1. /\ Offset(TDH) >= B /\ Offset(TDT) >= B
      BY <1>1, <1>3, <1>7 DEF Inv, RingInOrder
    <3>2. /\ Offset(written_back)' = Distance(CleanIndex', written_back)
          /\ Offset(TDH)' = Distance(CleanIndex', TDH)
          /\ Offset(TDT)' = Distance(CleanIndex', TDT)
          /\ Offset(tx_index)' = Distance(CleanIndex', tx_index)
      BY <1>9 DEF Offset, cardVars
    <3>3. \A i \in Ring : Offset(i)' = Distance(CleanIndex', i)
      BY DEF Offset
    <3>4. ASSUME NEW i \in Ring, B <= Offset(i)
          PROVE  Distance(CleanIndex', i) = Offset(i) - B
      BY <1>8, <3>3, <3>4
    <3> QED
      BY <1>1, <1>4, <1>7, <3>1, <3>2, <3>4
  <2>2. call = "recycle" /\ call' = "recycle"
    BY DEF RecycleBatch
  <2> QED
    BY <1>1, <1>3, <1>9, <1>10, <2>1, <2>2 DEF Inv, RingInOrder
<1>13. SlotsMatch'
  <2>1. /\ Offset(written_back)' = Offset(written_back) - B
        /\ Offset(TDH)' = Offset(TDH) - B
        /\ Offset(tx_index)' = Offset(tx_index) - B
    <3>1. Offset(TDH) >= B
      BY <1>1, <1>3, <1>7 DEF Inv, RingInOrder
    <3>2. /\ Offset(written_back)' = Distance(CleanIndex', written_back)
          /\ Offset(TDH)' = Distance(CleanIndex', TDH)
          /\ Offset(tx_index)' = Distance(CleanIndex', tx_index)
      BY <1>9 DEF Offset, cardVars
    <3>3. \A i \in Ring : Offset(i)' = Distance(CleanIndex', i)
      BY DEF Offset
    <3>4. ASSUME NEW i \in Ring, B <= Offset(i)
          PROVE  Distance(CleanIndex', i) = Offset(i) - B
      BY <1>8, <3>3, <3>4
    <3> QED
      BY <1>1, <1>4, <1>7, <3>1, <3>2, <3>4
  <2> SUFFICES ASSUME NEW i \in Ring
      PROVE  /\ (/\ Offset(written_back) - B <= Offset(i)'
                 /\ Offset(i)' < Offset(tx_index) - B) =>
                  /\ ~descriptors[i].dd
                  /\ CardBuffer(i) = <<tx_pool, bufs_in_use'[Offset(i)' + 1]>>
             /\ cached[i] # NoBuffer =>
                  /\ Offset(written_back) - B <= Offset(i)'
                  /\ Offset(i)' < Offset(TDH) - B
    BY <1>9, <2>1 DEF SlotsMatch, CardBuffer, cardVars
  <2>2. /\ Offset(i) \in 0 .. QS - 1 /\ Offset(tx_index) \in 0 .. QS - 1
        /\ Offset(TDH) \in 0 .. QS - 1 /\ Offset(written_back) \in 0 .. QS - 1
    BY <1>1, <1>3
  <2>3. /\ (Offset(written_back) <= Offset(i) /\ Offset(i) < Offset(tx_index)) =>
             /\ ~descriptors[i].dd
             /\ CardBuffer(i) = <<tx_pool, bufs_in_use[Offset(i) + 1]>>
        /\ cached[i] # NoBuffer =>
             Offset(written_back) <= Offset(i) /\ Offset(i) < Offset(TDH)
    BY DEF Inv, SlotsMatch
  <2>4. CASE B <= Offset(i)
    <3>1. Offset(i)' = Offset(i) - B
      BY <1>8, <2>4
    <3>2. Offset(i) < Offset(tx_index) =>
            bufs_in_use'[Offset(i) - B + 1] = bufs_in_use[Offset(i) + 1]
      <4>1. ASSUME Offset(i) < Offset(tx_index)
            PROVE  /\ Offset(i) - B + 1 \in 1 .. Offset(tx_index) - B
                   /\ B + (Offset(i) - B + 1) = Offset(i) + 1
        BY <1>1, <2>2, <2>4, <4>1
      <4> QED
        BY <1>10, <4>1
    <3> QED
      BY <1>1, <2>2, <2>3, <2>4, <3>1, <3>2
  <2>5. CASE ~(B <= Offset(i))
    <3>1. Offset(i)' = Offset(i) - B + QS
      BY <1>8, <2>5
    <3> QED
      BY <1>1, <1>7, <2>2, <2>3, <2>5, <3>1
  <2> QED
    BY <2>4, <2>5
<1> QED
  BY <1>9, <1>11, <1>12, <1>13 DEF Inv, NoPanic

\* The card fetches the address that it will read.
LEMMA InvCardFetch ==
  ASSUME Inv, TypeOK', CardFetch
  PROVE  Inv'
<1> DEFINE h == TDH
<1>1. /\ TypeOK /\ {tx_index, TDT, TDH, written_back} \subseteq Ring
      /\ CleanIndex \in Ring /\ QS \in Nat \ {0}
  BY OffsetRange, RingAssumption, TxAssumption DEF Inv, TypeOK
<1>2. /\ UNCHANGED <<poolVars, driverVars, descriptors, TDT, written_back>>
      /\ TDH' = wrap_ring(h)
      /\ CleanIndex' = CleanIndex
  BY DEF CardFetch, wrap_ring, CleanIndex, driverVars
<1>3. \A i \in Ring : Offset(i)' = Offset(i) /\ Offset(i) \in 0 .. QS - 1
  BY <1>1, <1>2, OffsetRange DEF Offset
<1>4. Offset(h) < Offset(TDT) /\ Offset(TDT) <= Offset(tx_index)
  <2>1. Offset(h) # Offset(TDT)
    BY <1>1, OffsetRange DEF CardFetch
  <2>2. Offset(h) <= Offset(TDT) /\ Offset(TDT) <= Offset(tx_index)
    BY DEF Inv, RingInOrder
  <2> QED
    BY <1>1, <1>3, <2>1, <2>2
<1>5. /\ Offset(written_back)' = Offset(written_back)
      /\ Offset(TDH)' = Offset(h) + 1
      /\ Offset(TDT)' = Offset(TDT)
      /\ Offset(tx_index)' = Offset(tx_index)
  <2>1. Distance(CleanIndex, h) < QS - 1
    BY <1>1, <1>3, <1>4 DEF Offset
  <2>2. Distance(CleanIndex, wrap_ring(h)) = Distance(CleanIndex, h) + 1
    BY <1>1, <2>1, DistanceNext
  <2> QED
    BY <1>2, <2>2 DEF Offset, driverVars
<1>6. OneOwner' /\ NoPanic'
  BY <1>2 DEF Inv, OneOwner, OwnedOnce, QueueBuffers, IsFree, NoPanic, poolVars,
              driverVars
<1>7. RingInOrder'
  <2>1. Offset(written_back) <= Offset(h) + 1 /\ Offset(h) + 1 <= Offset(TDT)
    BY <1>1, <1>3, <1>4 DEF Inv, RingInOrder
  <2> QED
    BY <1>2, <1>5, <2>1 DEF Inv, RingInOrder, driverVars
<1>8. SlotsMatch'
  <2> SUFFICES ASSUME NEW i \in Ring
      PROVE  /\ (Offset(written_back) <= Offset(i) /\ Offset(i) < Offset(tx_index)) =>
                  /\ ~descriptors[i].dd
                  /\ CardBuffer(i)' = <<tx_pool, bufs_in_use[Offset(i) + 1]>>
             /\ cached'[i] # NoBuffer =>
                  Offset(written_back) <= Offset(i) /\ Offset(i) < Offset(h) + 1
    BY <1>2, <1>3, <1>5 DEF SlotsMatch, driverVars
  <2>1. cached' = [cached EXCEPT ![h] = descriptors[h].addr]
    BY DEF CardFetch
  <2>2. cached'[h] = descriptors[h].addr /\ (i # h => cached'[i] = cached[i])
    BY <1>1, <2>1 DEF TypeOK
  <2>3. /\ (Offset(written_back) <= Offset(i) /\ Offset(i) < Offset(tx_index)) =>
             /\ ~descriptors[i].dd
             /\ CardBuffer(i) = <<tx_pool, bufs_in_use[Offset(i) + 1]>>
        /\ cached[i] # NoBuffer =>
             Offset(written_back) <= Offset(i) /\ Offset(i) < Offset(h)
    BY DEF Inv, SlotsMatch
  <2>4. Offset(written_back) <= Offset(h)
    BY DEF Inv, RingInOrder
  <2>5. Offset(i) \in Int /\ Offset(h) \in Int
    BY <1>1, <1>3
  <2>6. CASE i = h
    <3>1. cached[i] = NoBuffer
      BY <2>3, <2>5, <2>6
    <3>2. CardBuffer(i) = descriptors[i].addr
      BY <3>1 DEF CardBuffer
    <3>3. CardBuffer(i)' = CardBuffer(i)
      BY <3>2, <2>2, <2>6, <1>2 DEF CardBuffer
    <3> QED
      BY <3>3, <2>3, <2>4, <2>5, <2>6
  <2>7. CASE i # h
    <3>1. CardBuffer(i)' = CardBuffer(i)
      BY <2>2, <2>7, <1>2 DEF CardBuffer
    <3> QED
      BY <3>1, <2>2, <2>3, <2>5, <2>7
  <2> QED
    BY <2>6, <2>7
<1> QED
  BY <1>6, <1>7, <1>8 DEF Inv

\* The card marks done the descriptor of the oldest packet in flight, which is
\* in flight no longer.
LEMMA InvCardTransmit ==
  ASSUME Inv, TypeOK', CardTransmit
  PROVE  Inv'
<1> DEFINE w == written_back
<1>1. /\ TypeOK /\ {tx_index, TDT, TDH, written_back} \subseteq Ring
      /\ CleanIndex \in Ring /\ QS \in Nat \ {0}
  BY OffsetRange, RingAssumption, TxAssumption DEF Inv, TypeOK
<1>2. /\ UNCHANGED <<poolVars, driverVars, TDT, TDH>>
      /\ written_back' = wrap_ring(w)
      /\ CleanIndex' = CleanIndex
  BY DEF CardTransmit, wrap_ring, CleanIndex, driverVars
<1>3. \A i \in Ring : Offset(i)' = Offset(i) /\ Offset(i) \in 0 .. QS - 1
  BY <1>1, <1>2, OffsetRange DEF Offset
<1>4. Offset(w) < Offset(TDH)
  <2>1. Offset(w) # Offset(TDH)
    BY <1>1, OffsetRange DEF CardTransmit
  <2>2. Offset(w) <= Offset(TDH)
    BY DEF Inv, RingInOrder
  <2> QED
    BY <1>1, <1>3, <2>1, <2>2
<1>5. /\ Offset(written_back)' = Offset(w) + 1
      /\ Offset(TDH)' = Offset(TDH)
      /\ Offset(TDT)' = Offset(TDT)
      /\ Offset(tx_index)' = Offset(tx_index)
  <2>1. Distance(CleanIndex, w) < QS - 1
    BY <1>1, <1>3, <1>4 DEF Offset
  <2>2. Distance(CleanIndex, wrap_ring(w)) = Distance(CleanIndex, w) + 1
    BY <1>1, <2>1, DistanceNext
  <2> QED
    BY <1>2, <2>2 DEF Offset, driverVars
<1>6. OneOwner' /\ NoPanic'
  BY <1>2 DEF Inv, OneOwner, OwnedOnce, QueueBuffers, IsFree, NoPanic, poolVars,
              driverVars
<1>7. RingInOrder'
  <2>1. Offset(w) + 1 <= Offset(TDH)
    BY <1>1, <1>3, <1>4
  <2> QED
    BY <1>2, <1>5, <2>1 DEF Inv, RingInOrder, driverVars
<1>8. SlotsMatch'
  <2> SUFFICES ASSUME NEW i \in Ring
      PROVE  /\ (Offset(w) + 1 <= Offset(i) /\ Offset(i) < Offset(tx_index)) =>
                  /\ ~descriptors'[i].dd
                  /\ CardBuffer(i)' = <<tx_pool, bufs_in_use[Offset(i) + 1]>>
             /\ cached'[i] # NoBuffer =>
                  Offset(w) + 1 <= Offset(i) /\ Offset(i) < Offset(TDH)
    BY <1>2, <1>3, <1>5 DEF SlotsMatch, driverVars
  <2>1. /\ cached' = [cached EXCEPT ![w] = NoBuffer]
        /\ descriptors' = [descriptors EXCEPT ![w] = [addr |-> NoBuffer, dd |-> TRUE]]
    BY DEF CardTransmit
  <2>2. /\ cached'[w] = NoBuffer
        /\ i # w => cached'[i] = cached[i] /\ descriptors'[i] = descriptors[i]
    BY <1>1, <2>1 DEF TypeOK
  <2>3. /\ (Offset(w) <= Offset(i) /\ Offset(i) < Offset(tx_index)) =>
             /\ ~descriptors[i].dd
             /\ CardBuffer(i) = <<tx_pool, bufs_in_use[Offset(i) + 1]>>
        /\ cached[i] # NoBuffer =>
             Offset(w) <= Offset(i) /\ Offset(i) < Offset(TDH)
    BY DEF Inv, SlotsMatch
  <2>4. Offset(i) \in Int /\ Offset(w) \in Int /\ (Offset(i) = Offset(w) => i = w)
    BY <1>1, <1>3, OffsetRange
  <2>5. CASE i = w
    BY <2>2, <2>4, <2>5
  <2>6. CASE i # w
    <3>1. CardBuffer(i)' = CardBuffer(i)
      BY <2>2, <2>6 DEF CardBuffer
    <3> QED
      BY <3>1, <2>2, <2>3, <2>4, <2>6
  <2> QED
    BY <2>5, <2>6
<1> QED
  BY <1>6, <1>7, <1>8 DEF Inv

\* Every step keeps the invariant.
LEMMA InvStep ==
  ASSUME OnePool
  PROVE  Inv /\ [Next]_vars => Inv'
<1> SUFFICES ASSUME Inv, [Next]_vars PROVE Inv'
  OBVIOUS
<1>1. TypeOK'
  BY TypeStep DEF Inv
<1>2. CASE UNCHANGED vars
  BY <1>2 DEF vars, Inv, TypeOK, PoolTypeOK, NoPanic, OneOwner, OwnedOnce, IsFree,
              QueueBuffers, RingInOrder, SlotsMatch, Offset, CleanIndex, CardBuffer,
              poolVars, driverVars, cardVars
<1>3. CASE Application \/ \E b \in held : SendQueueFull(b)
  BY <1>1, <1>3, InvApplication
<1>4. CASE \E b \in held : SendFill(b)
  BY <1>1, <1>4, InvSendFill
<1>5. CASE SendTail \/ RecycleStart \/ RecycleDone
  BY <1>1, <1>5, InvCall
<1>6. CASE RecycleBatch
  BY <1>1, <1>6, InvRecycleBatch
<1>7. CASE CardFetch
  BY <1>1, <1>7, InvCardFetch
<1>8. CASE CardTransmit
  BY <1>1, <1>8, InvCardTransmit
<1> QED
  BY <1>2, <1>3, <1>4, <1>5, <1>6, <1>7, <1>8 DEF Next, Driver, Card

\* The invariant holds always.
LEMMA InvCorrect ==
  ASSUME OnePool
  PROVE  Spec => []Inv
<1>1. Inv /\ [Next]_vars => Inv'
  BY InvStep
<1> QED
  BY <1>1, InvInit, PTL DEF Spec

-----------------------------------------------------------------------------
(* What the invariant implies.                                             *)

\* The descriptors in flight are those between written_back and tx_index, and
\* their buffers are in the queue.
LEMMA InFlightSlots ==
  ASSUME Inv, NEW i \in Ring, InFlight(i)
  PROVE  /\ Offset(written_back) <= Offset(i) /\ Offset(i) < Offset(tx_index)
         /\ CardBuffer(i) = <<tx_pool, bufs_in_use[Offset(i) + 1]>>
         /\ CardBuffer(i) \in Buffer /\ CardBuffer(i) \in QueueBuffers
<1>1. /\ TypeOK /\ {tx_index, written_back} \subseteq Ring
      /\ CleanIndex \in Ring /\ QS \in Nat \ {0}
  BY OffsetRange, RingAssumption, TxAssumption DEF Inv, TypeOK
<1>2. /\ Offset(i) \in 0 .. QS - 1
      /\ Offset(written_back) \in 0 .. QS - 1
      /\ Offset(tx_index) \in 0 .. QS - 1
  BY <1>1, OffsetRange
<1>3. Offset(written_back) <= Offset(tx_index)
  <2>1. Offset(TDH) \in Int /\ Offset(TDT) \in Int
    BY OffsetRange DEF Inv, TypeOK
  <2> QED
    BY <1>2, <2>1 DEF Inv, RingInOrder
<1>4. Distance(written_back, tx_index) = Offset(tx_index) - Offset(written_back)
  BY <1>1, <1>3, DistanceShift DEF Offset
<1>5. Distance(written_back, i) = IF Offset(written_back) <= Offset(i)
                                    THEN Offset(i) - Offset(written_back)
                                    ELSE Offset(i) - Offset(written_back) + QS
  BY <1>1, DistanceShift DEF Offset
<1>6. Offset(written_back) <= Offset(i) /\ Offset(i) < Offset(tx_index)
  BY <1>1, <1>2, <1>4, <1>5 DEF InFlight
<1>7. CardBuffer(i) = <<tx_pool, bufs_in_use[Offset(i) + 1]>>
  BY <1>6 DEF Inv, SlotsMatch
<1>8. /\ bufs_in_use \in Seq(Entry)
      /\ Offset(i) + 1 \in 1 .. Len(bufs_in_use)
  BY <1>1, <1>2, <1>6 DEF Inv, TypeOK, RingInOrder
<1>9. bufs_in_use[Offset(i) + 1] \in ToSet(bufs_in_use) /\ ToSet(bufs_in_use) \subseteq Entry
  BY <1>8, Elements
<1>10. tx_pool \in Pool
  <2>1. bufs_in_use # << >>
    BY <1>8
  <2> QED
    BY <2>1 DEF Inv, RingInOrder
<1> QED
  BY <1>6, <1>7, <1>9, <1>10 DEF Buffer, QueueBuffers

\* A buffer in flight is in bufs_in_use, and so neither free nor in a packet.
LEMMA InvDmaSafe == Inv => DmaSafe
<1> SUFFICES ASSUME Inv, NEW i \in Ring, InFlight(i)
             PROVE  /\ CardBuffer(i) \in Buffer
                    /\ CardBuffer(i) \notin held
                    /\ ~IsFree(CardBuffer(i))
  BY DEF DmaSafe
<1>1. CardBuffer(i) \in Buffer /\ CardBuffer(i) \in QueueBuffers
  BY InFlightSlots
<1> QED
  BY <1>1 DEF Inv, OneOwner, OwnedOnce

\* The double-free check of free_buf never fires if the queue's packets come
\* from one pool, for every ring size, batch, and number of packets.
THEOREM NeverPanics ==
  ASSUME OnePool
  PROVE  Spec => []NoPanic
<1>1. Inv => NoPanic
  BY DEF Inv
<1> QED
  BY <1>1, InvCorrect, PTL

\* No entry of the pool is lost or has two owners, although
\* recycle_tx_buffers gives entries back without the check of free_buf.
THEOREM BuffersHaveOneOwner ==
  ASSUME OnePool
  PROVE  Spec => []OneOwner
<1>1. Inv => OneOwner
  BY DEF Inv
<1> QED
  BY <1>1, InvCorrect, PTL

\* The card only reads buffers that send gave it and that nobody else can
\* write to or allocate.
THEOREM DmaIsSafe ==
  ASSUME OnePool
  PROVE  Spec => []DmaSafe
BY InvDmaSafe, InvCorrect, PTL

\* The card and the two indices of the driver never overtake one another, and
\* bufs_in_use stays in step with them.
THEOREM RingStaysInOrder ==
  ASSUME OnePool
  PROVE  Spec => []RingInOrder
<1>1. Inv => RingInOrder
  BY DEF Inv
<1> QED
  BY <1>1, InvCorrect, PTL

\* A descriptor that send filled and the card is not done with has the address
\* of its entry in bufs_in_use and no DD bit, not even one of an earlier lap.
THEOREM SlotsStayMatched ==
  ASSUME OnePool
  PROVE  Spec => []SlotsMatch
<1>1. Inv => SlotsMatch
  BY DEF Inv
<1> QED
  BY <1>1, InvCorrect, PTL

-----------------------------------------------------------------------------
(* The queue implements FrameFifo: frames leave the card as they were sent *)
(* and in that order.                                                      *)

\* The card has the address of every descriptor that it fetched, and may read
\* its buffer without looking at the descriptor again.
Fetched ==
  \A i \in Ring :
    Distance(written_back, i) < Distance(written_back, TDH) => cached[i] # NoBuffer

FifoInv == Inv /\ Fetched

\* The place of the k-th packet in flight.
Nth(k) == (written_back + (k - 1)) % QS

\* What PendingFrames has.
PendingInRing ==
  /\ PendingFrames \in Seq(Frame)
  /\ Len(PendingFrames) = Distance(written_back, tx_index)
  /\ \A k \in 1 .. Len(PendingFrames) :
       /\ Nth(k) \in Ring /\ InFlight(Nth(k))
       /\ Distance(written_back, Nth(k)) = k - 1
       /\ PendingFrames[k] = FrameAt(CardBuffer(Nth(k)))

\* How far the card got with the packets in flight.
LEMMA CardDistances ==
  ASSUME Inv
  PROVE  /\ TypeOK /\ {tx_index, TDT, TDH, written_back} \subseteq Ring /\ QS \in Nat \ {0}
         /\ Distance(written_back, TDH) <= Distance(written_back, TDT)
         /\ Distance(written_back, TDT) <= Distance(written_back, tx_index)
         /\ Distance(written_back, tx_index) = Offset(tx_index) - Offset(written_back)
         /\ \A i \in {tx_index, TDT, TDH, written_back} :
              Distance(written_back, i) \in 0 .. QS - 1 /\ Offset(i) \in 0 .. QS - 1
<1>1. /\ TypeOK /\ {tx_index, TDT, TDH, written_back} \subseteq Ring
      /\ CleanIndex \in Ring /\ QS \in Nat \ {0}
  BY OffsetRange, RingAssumption, TxAssumption DEF Inv, TypeOK
<1>2. \A i \in {tx_index, TDT, TDH, written_back} :
        Distance(written_back, i) \in 0 .. QS - 1 /\ Offset(i) \in 0 .. QS - 1
  BY <1>1, OffsetRange, DistanceRange
<1>3. /\ Offset(written_back) <= Offset(TDH)
      /\ Offset(TDH) <= Offset(TDT)
      /\ Offset(TDT) <= Offset(tx_index)
  BY DEF Inv, RingInOrder
<1>4. ASSUME NEW i \in {tx_index, TDT, TDH}
      PROVE  Distance(written_back, i) = Offset(i) - Offset(written_back)
  <2>1. i \in Ring /\ written_back \in Ring /\ Offset(written_back) <= Offset(i)
    BY <1>1, <1>2, <1>3
  <2> QED
    BY <1>1, <2>1, DistanceShift DEF Offset
<1> QED
  BY <1>1, <1>2, <1>3, <1>4

\* PendingFrames are the payloads of the descriptors in flight, in ring order.
LEMMA PendingSlots == Inv => PendingInRing
<1> SUFFICES ASSUME Inv PROVE PendingInRing
  OBVIOUS
<1>1. PICK D : D = Distance(written_back, tx_index)
  OBVIOUS
<1>2. TypeOK /\ written_back \in Ring /\ D \in 0 .. QS - 1 /\ QS \in Nat \ {0}
  BY <1>1, CardDistances
<1>3. ASSUME NEW k \in 1 .. D
      PROVE  /\ Nth(k) = (written_back + k - 1) % QS
             /\ Nth(k) \in Ring /\ InFlight(Nth(k))
             /\ Distance(written_back, Nth(k)) = k - 1
             /\ FrameAt(CardBuffer(Nth(k))) \in Frame
  <2>1. Nth(k) = (written_back + k - 1) % QS
    BY <1>2 DEF Nth, Ring
  <2>2. k - 1 \in Ring /\ k - 1 < D
    BY <1>2 DEF Ring
  <2>3. Nth(k) \in Ring /\ Distance(written_back, Nth(k)) = k - 1
    BY <1>2, <2>2, DistanceAhead DEF Nth
  <2>4. InFlight(Nth(k))
    BY <1>1, <2>2, <2>3 DEF InFlight
  <2>5. CardBuffer(Nth(k)) \in Buffer
    BY <2>3, <2>4, InFlightSlots
  <2>6. FrameAt(CardBuffer(Nth(k))) \in Frame
    BY <1>2, <2>5 DEF FrameAt, TypeOK, PoolTypeOK
  <2> QED
    BY <2>1, <2>3, <2>4, <2>6
<1>4. PendingFrames = [k \in 1 .. D |-> FrameAt(CardBuffer(Nth(k)))]
  BY <1>1, <1>3 DEF PendingFrames
<1>5. PendingFrames \in Seq(Frame) /\ Len(PendingFrames) = D
  BY <1>2, <1>3, <1>4
<1> QED
  BY <1>1, <1>3, <1>4, <1>5 DEF PendingInRing

\* Nothing enters or leaves the queue as long as neither end moves and the
\* buffers in flight are left alone.
LEMMA PendingKept ==
  ASSUME Inv, Inv', UNCHANGED <<written_back, tx_index>>,
         \A i \in Ring : InFlight(i) => FrameAt(CardBuffer(i))' = FrameAt(CardBuffer(i))
  PROVE  PendingFrames' = PendingFrames
<1>1. PendingInRing /\ PendingInRing'
  BY PendingSlots, PTL
<1>3. Len(PendingFrames') = Len(PendingFrames)
  BY <1>1 DEF PendingInRing
<1>4. ASSUME NEW k \in 1 .. Len(PendingFrames)
      PROVE  PendingFrames'[k] = PendingFrames[k]
  <2>1. Nth(k)' = Nth(k)
    BY DEF Nth
  <2>2. PendingFrames'[k] = FrameAt(CardBuffer(Nth(k)))'
    BY <1>1, <1>3 DEF PendingInRing
  <2>3. FrameAt(CardBuffer(Nth(k)))' = FrameAt(CardBuffer(Nth(k)))
    BY <1>1, <2>1 DEF PendingInRing
  <2> QED
    BY <1>1, <2>2, <2>3 DEF PendingInRing
<1>5. PendingFrames \in Seq(Frame) /\ PendingFrames' \in Seq(Frame)
  BY <1>1 DEF PendingInRing
<1> QED
  BY <1>3, <1>4, <1>5, SeqEqual

\* send puts the packet's frame behind those that the card was given before.
LEMMA SendIsPut ==
  ASSUME Inv, Inv', NEW b \in held, SendFill(b)
  PROVE  \E f \in Frame : Fifo!Put(f)
<1>1. PICK t, w, n : t = tx_index /\ w = written_back /\ n = Distance(written_back, tx_index)
  OBVIOUS
<1>2. /\ TypeOK /\ t \in Ring /\ w \in Ring /\ QS \in Nat \ {0}
      /\ n \in 0 .. QS - 1 /\ n = Offset(t) - Offset(w)
      /\ Offset(t) \in 0 .. QS - 1 /\ Offset(w) \in 0 .. QS - 1
  BY <1>1, CardDistances
<1>3. /\ tx_index' = wrap_ring(t) /\ UNCHANGED <<written_back, TDH, cached, payload, wire>>
      /\ b \in Buffer /\ payload[b] \in Frame /\ clean_index \in Ring
      /\ descriptors' = [descriptors EXCEPT ![t] = [addr |-> b, dd |-> FALSE]]
  BY <1>1, <1>2 DEF SendFill, FillDescriptor, cardVars, TypeOK, PoolTypeOK
<1>4. n < QS - 1
  <2>1. wrap_ring(t) # clean_index /\ Offset(t) = Distance(clean_index, t)
    BY <1>1 DEF SendFill, can_send, Offset, CleanIndex
  <2>2. Offset(t) # QS - 1
    BY <1>2, <1>3, <2>1, DistanceNext
  <2> QED
    BY <1>2, <2>2
<1>5. Distance(w, wrap_ring(t)) = n + 1
  <2>1. w \in Ring /\ t \in Ring /\ Distance(w, t) = n /\ Distance(w, t) < QS - 1
    BY <1>1, <1>2, <1>4
  <2> QED
    BY <2>1, DistanceNext
<1>6. PendingInRing /\ PendingInRing'
  BY PendingSlots, PTL
<1>7. /\ PendingFrames \in Seq(Frame) /\ Len(PendingFrames) = n
      /\ PendingFrames' \in Seq(Frame) /\ Len(PendingFrames') = n + 1
  BY <1>1, <1>3, <1>5, <1>6 DEF PendingInRing
<1>9. ASSUME NEW k \in 1 .. n
      PROVE  PendingFrames'[k] = PendingFrames[k]
  <2>1. /\ Nth(k) \in Ring /\ Distance(w, Nth(k)) = k - 1
        /\ PendingFrames[k] = FrameAt(CardBuffer(Nth(k)))
    BY <1>1, <1>6, <1>7 DEF PendingInRing
  <2>2. Nth(k) # t
    <3>1. Distance(w, t) = n
      BY <1>1
    <3>2. Distance(w, Nth(k)) # n
      BY <1>2, <2>1
    <3> QED
      BY <3>1, <3>2
  <2>3. descriptors'[Nth(k)] = descriptors[Nth(k)]
    BY <1>2, <1>3, <2>1, <2>2 DEF TypeOK
  <2>4. PendingFrames'[k] = FrameAt(CardBuffer(Nth(k)))'
    BY <1>2, <1>6, <1>7 DEF PendingInRing
  <2>5. Nth(k)' = Nth(k)
    BY <1>3 DEF Nth
  <2>6. CardBuffer(Nth(k))' = CardBuffer(Nth(k))
    BY <1>3, <2>3, <2>5 DEF CardBuffer
  <2> QED
    BY <2>1, <2>4, <2>6, <1>3 DEF FrameAt
<1>10. PendingFrames'[n + 1] = payload[b]
  <2>1. PICK k : k = n + 1
    OBVIOUS
  <2>2. /\ Nth(k)' \in Ring /\ Distance(w, Nth(k)') = n
        /\ PendingFrames'[k] = FrameAt(CardBuffer(Nth(k)))'
    <3>1. k \in 1 .. Len(PendingFrames') /\ k - 1 = n
      BY <1>2, <1>7, <2>1
    <3>2. /\ Nth(k)' \in Ring /\ Distance(written_back, Nth(k))' = k - 1
          /\ PendingFrames'[k] = FrameAt(CardBuffer(Nth(k)))'
      BY <3>1, <1>6 DEF PendingInRing
    <3>3. Distance(written_back, Nth(k))' = Distance(w, Nth(k)')
      BY <1>1, <1>3 DEF Distance
    <3> QED
      BY <3>1, <3>2, <3>3
  <2>3. Nth(k)' = t
    <3>1. Distance(w, t) = n
      BY <1>1
    <3> QED
      BY <1>2, <2>2, <3>1, DistanceRange
  <2>4. cached[t] = NoBuffer
    <3>1. Offset(TDH) <= Offset(TDT) /\ Offset(TDT) <= Offset(t)
      BY <1>1 DEF Inv, RingInOrder
    <3>2. Offset(TDH) \in Int /\ Offset(TDT) \in Int
      BY CardDistances
    <3>3. ~(Offset(t) < Offset(TDH))
      BY <1>2, <3>1, <3>2
    <3> QED
      BY <1>2, <3>3 DEF Inv, SlotsMatch
  <2>5. descriptors'[t].addr = b
    BY <1>2, <1>3 DEF TypeOK
  <2>6. CardBuffer(Nth(k))' = b
    BY <1>3, <2>3, <2>4, <2>5 DEF CardBuffer
  <2>7. FrameAt(CardBuffer(Nth(k)))' = payload[b]
    BY <1>3, <2>6 DEF FrameAt
  <2> QED
    BY <2>1, <2>2, <2>7
<1>11. PendingFrames' = Append(PendingFrames, payload[b])
  BY <1>3, <1>7, <1>9, <1>10, IsAppended
<1> QED
  BY <1>3, <1>4, <1>7, <1>11 DEF Fifo!Put

\* The card transmits the frame that was sent first.
LEMMA TransmitIsTake ==
  ASSUME FifoInv, Inv', CardTransmit
  PROVE  Fifo!Take
<1>1. PICK w, n : w = written_back /\ n = Distance(written_back, tx_index)
  OBVIOUS
<1>2. /\ TypeOK /\ tx_index \in Ring /\ w \in Ring /\ QS \in Nat \ {0} /\ n \in 0 .. QS - 1
      /\ TDH \in Ring /\ Distance(w, TDH) \in 0 .. QS - 1 /\ Distance(w, TDH) <= n
  BY <1>1, CardDistances DEF FifoInv
<1>3. /\ written_back' = wrap_ring(w) /\ UNCHANGED <<payload, tx_index>>
      /\ wire' = FrameAt(cached[w])
      /\ cached' = [cached EXCEPT ![w] = NoBuffer]
      /\ descriptors' = [descriptors EXCEPT ![w] = [addr |-> NoBuffer, dd |-> TRUE]]
  BY <1>1 DEF CardTransmit, wrap_ring, poolVars, driverVars
<1>4. Distance(w, w) = 0 /\ Distance(w, TDH) > 0 /\ n > 0
  <2>1. Distance(w, w) = 0 /\ Distance(w, TDH) # 0
    BY <1>1, <1>2, DistanceRange DEF CardTransmit
  <2> QED
    BY <1>2, <2>1
<1>5. cached[w] # NoBuffer
  BY <1>1, <1>2, <1>4 DEF FifoInv, Fetched
<1>6. Distance(wrap_ring(w), tx_index) = n - 1
  <2>1. wrap_ring(w) \in Ring /\ Distance(w, wrap_ring(w)) = 1
    BY <1>2, <1>4, DistanceNext
  <2> QED
    BY <1>1, <1>2, <1>4, <2>1, DistanceShift
<1>7. PendingInRing /\ PendingInRing'
  BY PendingSlots, PTL DEF FifoInv
<1>8. /\ PendingFrames \in Seq(Frame) /\ Len(PendingFrames) = n
      /\ PendingFrames' \in Seq(Frame) /\ Len(PendingFrames') = n - 1
  BY <1>1, <1>3, <1>6, <1>7 DEF PendingInRing
<1>9. PendingFrames[1] = FrameAt(cached[w])
  <2>1. /\ Nth(1) \in Ring /\ Distance(w, Nth(1)) = 0
        /\ PendingFrames[1] = FrameAt(CardBuffer(Nth(1)))
    BY <1>1, <1>2, <1>4, <1>7, <1>8 DEF PendingInRing
  <2>2. Nth(1) = w
    BY <1>2, <1>4, <2>1, DistanceRange
  <2> QED
    BY <1>5, <2>1, <2>2 DEF CardBuffer
<1>10. ASSUME NEW k \in 1 .. n - 1
       PROVE  PendingFrames'[k] = PendingFrames[k + 1]
  <2>1. k + 1 \in 1 .. n /\ k \in Ring /\ k - 1 \in Ring /\ k - 1 + 1 = k
    BY <1>2 DEF Ring
  <2>2. /\ Nth(k + 1) \in Ring /\ Distance(w, Nth(k + 1)) = k
        /\ PendingFrames[k + 1] = FrameAt(CardBuffer(Nth(k + 1)))
    BY <1>1, <1>2, <1>7, <1>8, <2>1 DEF PendingInRing
  <2>3. Nth(k)' = Nth(k + 1)
    <3>1. Nth(k)' = (wrap_ring(w) + (k - 1)) % QS
      BY <1>3 DEF Nth
    <3>2. Nth(k + 1) = (w + k) % QS
      BY <1>1, <2>1 DEF Nth
    <3> QED
      BY <3>1, <3>2, <1>2, <2>1, DistanceAheadNext
  <2>4. Nth(k + 1) # w
    BY <1>4, <2>1, <2>2
  <2>5. cached'[Nth(k + 1)] = cached[Nth(k + 1)]
        /\ descriptors'[Nth(k + 1)] = descriptors[Nth(k + 1)]
    BY <1>2, <1>3, <2>2, <2>4 DEF TypeOK
  <2>6. PendingFrames'[k] = FrameAt(CardBuffer(Nth(k)))'
    BY <1>7, <1>8 DEF PendingInRing
  <2>7. CardBuffer(Nth(k))' = CardBuffer(Nth(k + 1))
    BY <2>3, <2>5 DEF CardBuffer
  <2> QED
    BY <1>3, <2>2, <2>6, <2>7 DEF FrameAt
<1>11. PendingFrames # << >> /\ Head(PendingFrames) = PendingFrames[1]
       /\ PendingFrames' = Tail(PendingFrames)
  BY <1>2, <1>8, <1>10, IsTail
<1> QED
  BY <1>3, <1>9, <1>11 DEF Fifo!Take

\* A fetch adds the descriptor at TDH, which has a buffer; completing one takes
\* the first away.
LEMMA FetchedStep ==
  ASSUME FifoInv, [Next]_vars
  PROVE  Fetched'
<1>1. PICK w, h : w = written_back /\ h = TDH
  OBVIOUS
<1>2. /\ TypeOK /\ w \in Ring /\ h \in Ring /\ TDT \in Ring /\ tx_index \in Ring
      /\ QS \in Nat \ {0} /\ Distance(w, h) \in 0 .. QS - 1
      /\ Distance(w, TDT) \in 0 .. QS - 1 /\ Distance(w, tx_index) \in 0 .. QS - 1
      /\ Distance(w, h) <= Distance(w, TDT) /\ Distance(w, TDT) <= Distance(w, tx_index)
  BY <1>1, CardDistances DEF FifoInv
<1>3. \A i \in Ring : Distance(w, i) < Distance(w, h) => cached[i] # NoBuffer
  BY <1>1 DEF FifoInv, Fetched
<1>4. CASE UNCHANGED cardVars
  BY <1>4 DEF FifoInv, Fetched, cardVars
<1>5. CASE CardFetch
  <2>1. /\ written_back' = w /\ TDH' = wrap_ring(h) /\ h # TDT
        /\ cached' = [cached EXCEPT ![h] = descriptors[h].addr]
    BY <1>1, <1>5 DEF CardFetch, wrap_ring
  <2>2. Distance(w, h) < Distance(w, TDT)
    <3>1. Distance(w, h) # Distance(w, TDT)
      BY <1>2, <2>1, DistanceRange
    <3> QED
      BY <1>2, <3>1
  <2>3. Distance(w, wrap_ring(h)) = Distance(w, h) + 1
    <3>1. Distance(w, h) < QS - 1
      BY <1>2, <2>2
    <3> QED
      BY <1>2, <3>1, DistanceNext
  <2>4. descriptors[h].addr # NoBuffer
    <3>1. Distance(w, h) < Distance(w, tx_index)
      BY <1>2, <2>2
    <3>2. InFlight(h)
      BY <1>1, <3>1 DEF InFlight
    <3>3. CardBuffer(h) \in Buffer
      BY <1>2, <3>2, InFlightSlots DEF FifoInv
    <3>4. cached[h] = NoBuffer
      <4>1. ~(Offset(h) < Offset(TDH))
        BY <1>1, CardDistances DEF FifoInv
      <4> QED
        BY <1>2, <4>1 DEF FifoInv, Inv, SlotsMatch
    <3>5. CardBuffer(h) = descriptors[h].addr
      BY <3>4 DEF CardBuffer
    <3>6. NoBuffer \notin Buffer
      BY PoolAssumption DEF NoBuffer, Buffer
    <3> QED
      BY <3>3, <3>5, <3>6
  <2>5. ASSUME NEW i \in Ring, Distance(w, i) < Distance(w, h) + 1
        PROVE  cached'[i] # NoBuffer
    <3>1. CASE i = h
      BY <1>2, <2>1, <2>4, <3>1 DEF TypeOK
    <3>2. CASE i # h
      <4>1. Distance(w, i) # Distance(w, h) /\ Distance(w, i) \in 0 .. QS - 1
        BY <1>2, <3>2, DistanceRange
      <4>2. Distance(w, i) < Distance(w, h)
        BY <1>2, <2>5, <4>1
      <4> QED
        BY <1>2, <1>3, <2>1, <3>2, <4>2 DEF TypeOK
    <3> QED
      BY <3>1, <3>2
  <2> QED
    BY <2>1, <2>3, <2>5 DEF Fetched
<1>6. CASE CardTransmit
  <2>1. /\ written_back' = wrap_ring(w) /\ TDH' = h /\ w # h
        /\ cached' = [cached EXCEPT ![w] = NoBuffer]
    BY <1>1, <1>6 DEF CardTransmit, wrap_ring
  <2>2. Distance(w, w) = 0 /\ Distance(w, h) > 0 /\ QS > 1
    <3>1. Distance(w, w) = 0 /\ Distance(w, h) # Distance(w, w)
      BY <1>2, <2>1, DistanceRange
    <3> QED
      BY <1>2, <3>1
  <2>3. wrap_ring(w) \in Ring /\ Distance(w, wrap_ring(w)) = 1
    BY <1>2, <2>2, DistanceNext
  <2>4. Distance(wrap_ring(w), h) = Distance(w, h) - 1
    BY <1>2, <2>2, <2>3, DistanceShift
  <2>5. ASSUME NEW i \in Ring, Distance(wrap_ring(w), i) < Distance(w, h) - 1
        PROVE  cached'[i] # NoBuffer
    <3>1. Distance(w, i) \in 0 .. QS - 1
      BY <1>2, DistanceRange
    <3>2. Distance(wrap_ring(w), i) = IF 1 <= Distance(w, i)
                                        THEN Distance(w, i) - 1
                                        ELSE Distance(w, i) - 1 + QS
      BY <1>2, <2>3, DistanceShift
    <3>3. Distance(w, i) > 0 /\ Distance(w, i) < Distance(w, h)
      BY <1>2, <2>5, <3>1, <3>2
    <3>4. i # w
      BY <2>2, <3>3
    <3> QED
      BY <1>2, <1>3, <2>1, <3>3, <3>4 DEF TypeOK
  <2> QED
    BY <2>1, <2>4, <2>5 DEF Fetched
<1>7. UNCHANGED cardVars \/ CardFetch \/ CardTransmit
  BY DEF Next, Application, Driver, Card, SendQueueFull, SendFill, SendTail, RecycleStart,
         RecycleBatch, RecycleDone, vars
<1> QED
  BY <1>4, <1>5, <1>6, <1>7

\* Every other step leaves the frames in flight alone: the application only
\* writes to buffers that it has just taken off the free stack.
LEMMA OthersStutter ==
  ASSUME FifoInv, Inv', [Next]_vars,
         ~CardTransmit, ~(\E b \in held : SendFill(b))
  PROVE  UNCHANGED Fifo!fifoVars
<1>1. TypeOK /\ {written_back, tx_index, TDH} \subseteq Ring
  BY CardDistances DEF FifoInv
<1>2. UNCHANGED <<written_back, tx_index, wire>>
  BY DEF Next, Application, Driver, Card, SendQueueFull, SendTail, RecycleStart,
         RecycleBatch, RecycleDone, CardFetch, vars, driverVars, cardVars
<1>3. ASSUME NEW i \in Ring, InFlight(i)
      PROVE  FrameAt(CardBuffer(i))' = FrameAt(CardBuffer(i))
  <2>1. CardBuffer(i) \in Buffer /\ ~IsFree(CardBuffer(i))
    <3>1. DmaSafe
      BY InvDmaSafe DEF FifoInv
    <3> QED
      BY <1>3, <3>1 DEF DmaSafe
  <2>2. CASE CardFetch
    <3>1. /\ cached' = [cached EXCEPT ![TDH] = descriptors[TDH].addr]
          /\ UNCHANGED <<descriptors, payload>>
      BY <2>2 DEF CardFetch, poolVars
    <3>2. CardBuffer(i)' = CardBuffer(i)
      <4>1. CASE i = TDH
        <5>1. ~(Offset(i) < Offset(TDH))
          BY <4>1, CardDistances DEF FifoInv
        <5>2. cached[i] = NoBuffer
          BY <5>1 DEF FifoInv, Inv, SlotsMatch
        <5>3. cached'[i] = descriptors[i].addr
          BY <1>1, <3>1, <4>1 DEF TypeOK
        <5> QED
          BY <3>1, <5>2, <5>3 DEF CardBuffer
      <4>2. CASE i # TDH
        <5>1. cached'[i] = cached[i]
          BY <1>1, <3>1, <4>2 DEF TypeOK
        <5> QED
          BY <3>1, <5>1 DEF CardBuffer
      <4> QED
        BY <4>1, <4>2
    <3> QED
      BY <3>1, <3>2 DEF FrameAt
  <2>3. CASE \E p \in Pool, f \in Frame : AllocPkt(p, f) /\ UNCHANGED <<cached, descriptors>>
    <3>1. PICK p \in Pool, f \in Frame : AllocPkt(p, f) /\ UNCHANGED <<cached, descriptors>>
      BY <2>3
    <3>2. Top(p) \in Buffer /\ IsFree(Top(p))
      BY <1>1, <3>1, TopIsFree DEF AllocPkt, TypeOK
    <3>3. payload'[CardBuffer(i)] = payload[CardBuffer(i)]
      BY <1>1, <2>1, <3>1, <3>2 DEF AllocPkt, TypeOK, PoolTypeOK
    <3>4. CardBuffer(i)' = CardBuffer(i)
      BY <3>1 DEF CardBuffer
    <3> QED
      BY <3>3, <3>4 DEF FrameAt
  <2>4. CASE UNCHANGED <<cached, descriptors, payload>>
    BY <2>4 DEF FrameAt, CardBuffer
  <2>5. \/ CardFetch
        \/ \E p \in Pool, f \in Frame : AllocPkt(p, f) /\ UNCHANGED <<cached, descriptors>>
        \/ UNCHANGED <<cached, descriptors, payload>>
    BY DEF Next, Application, Driver, Card, SendQueueFull, SendTail, RecycleStart,
           RecycleBatch, RecycleDone, DropPkt, vars, driverVars, cardVars, poolVars
  <2> QED
    BY <2>2, <2>3, <2>4, <2>5
<1>4. PendingFrames' = PendingFrames
  BY <1>2, <1>3, PendingKept DEF FifoInv
<1> QED
  BY <1>2, <1>4 DEF Fifo!fifoVars

\* The queue keeps the promise of FrameFifo, as far as it is one of safety, if
\* its packets come from one pool: the card transmits the frames that were sent,
\* each one once, unaltered and in order, however driver, application and card
\* interleave.
THEOREM TransmitsInOrder ==
  ASSUME OnePool
  PROVE  Spec => Fifo!Spec
<1>1. Init => FifoInv /\ Fifo!Init
  <2> SUFFICES ASSUME Init PROVE FifoInv /\ Fifo!Init
    OBVIOUS
  <2>1. Inv
    BY InvInit
  <2>2. PendingInRing
    BY <2>1, PendingSlots
  <2>3. Distance(0, 0) = 0 /\ written_back = 0 /\ TDH = 0 /\ tx_index = 0
    BY DEF Init, Distance
  <2>4. Fetched
    <3>1. ASSUME NEW i \in Ring PROVE ~(Distance(0, i) < Distance(0, 0))
      <4>1. 0 \in Ring /\ Distance(0, i) \in 0 .. QS - 1
        BY RingAssumption, DistanceRange DEF Ring
      <4> QED
        BY <2>3, <4>1
    <3> QED
      BY <2>3, <3>1 DEF Fetched
  <2>5. PendingFrames = << >>
    BY <2>2, <2>3, EmptySeq DEF PendingInRing
  <2> QED
    BY <2>1, <2>4, <2>5 DEF FifoInv, Fifo!Init, Init
<1>2. FifoInv /\ [Next]_vars => FifoInv' /\ [Fifo!Next]_(Fifo!fifoVars)
  <2> SUFFICES ASSUME FifoInv, [Next]_vars PROVE FifoInv' /\ [Fifo!Next]_(Fifo!fifoVars)
    OBVIOUS
  <2>1. Inv /\ Inv'
    BY InvStep DEF FifoInv
  <2>2. FifoInv'
    BY <2>1, FetchedStep DEF FifoInv
  <2>3. CASE CardTransmit
    BY <2>1, <2>2, <2>3, TransmitIsTake DEF Fifo!Next
  <2>4. CASE \E b \in held : SendFill(b)
    BY <2>1, <2>2, <2>4, SendIsPut DEF Fifo!Next
  <2>5. CASE ~CardTransmit /\ ~(\E b \in held : SendFill(b))
    BY <2>1, <2>2, <2>5, OthersStutter
  <2> QED
    BY <2>2, <2>3, <2>4, <2>5
<1> QED
  BY <1>1, <1>2, PTL DEF Spec, Fifo!Spec
=============================================================================
