--------------------------- MODULE DeviceInitProofs ---------------------------
(***************************************************************************)
(* Proofs about reset and initialisation in DeviceInit, for every ring     *)
(* size, number of queues and pool.                                        *)
(***************************************************************************)
EXTENDS DeviceInit, PoolProofs

-----------------------------------------------------------------------------
(* The inductive invariant: types, how far init is, what the registers and *)
(* the descriptors show at that point, what a device that was dropped left *)
(* behind, and who owns the buffers.                                       *)

Status == {"start", "reset", "wait_reset", "init_link", "wait_read", "wait_write",
           "init_rx", "init_tx", "start_rx", "wait_rx", "start_tx", "wait_tx",
           "wait_link", "done", "failed"}

Descriptor == [addr : Buffer \cup {NoBuffer}, dd : BOOLEAN]
Base       == {"none", "foreign", "driver"}
Enable     == {"off", "asked", "on"}
RxRegister == [base : Base, enable : Enable, RDH : Ring, RDT : Ring]
TxRegister == [base : Base, enable : Enable]
Mdic       == {"OP_READ", "OP_WRITE", "READY", "POWER_DOWN"}
Register   == [RX : [Queue -> RxRegister], TX : [Queue -> TxRegister],
               RXEN : BOOLEAN, TE : BOOLEAN, SLU : BOOLEAN, IMS : BOOLEAN,
               link : BOOLEAN, RST : BOOLEAN, CTRL_EXT : Enable, MDIC : SUBSET Mdic]

\* What the actions keep in their types.
Types ==
  /\ PoolTypeOK
  /\ num_descriptors \in RingSizes
  /\ num_rx_queues \in 0 .. MaxQueues /\ num_tx_queues \in 0 .. MaxQueues
  /\ rx_queues \in Seq(Seq(Entry)) /\ tx_queues \in Nat /\ leaked \subseteq Buffer
  /\ pc \in Status /\ queue_id \in Nat /\ polls \in Nat
  /\ result \in {"none", "ok", "NoMemory", "QueueNotAligned"}
  /\ memory \in [Queue -> [Ring -> Descriptor]]
  /\ reg \in Register
  /\ mdi_busy \in BOOLEAN /\ power_down \in BOOLEAN

\* How many queues of each kind have a ring, and how many were started.
RxBuilt == IF pc = "init_rx" THEN queue_id
           ELSE IF pc \in {"init_tx", "start_rx", "wait_rx", "start_tx", "wait_tx",
                           "wait_link", "done"} THEN num_rx_queues ELSE 0
RxStarted == IF pc \in {"start_rx", "wait_rx"} THEN queue_id
             ELSE IF pc \in {"start_tx", "wait_tx", "wait_link", "done"}
                    THEN num_rx_queues ELSE 0
TxBuilt == IF pc = "init_tx" THEN queue_id
           ELSE IF pc \in {"start_rx", "wait_rx", "start_tx", "wait_tx", "wait_link",
                           "done"} THEN num_tx_queues ELSE 0
TxStarted == IF pc \in {"start_tx", "wait_tx"} THEN queue_id
             ELSE IF pc \in {"wait_link", "done"} THEN num_tx_queues ELSE 0

\* What is built when init is at pc.
Progress ==
  /\ Len(rx_queues) = RxBuilt /\ RxBuilt <= num_rx_queues
  /\ tx_queues = TxBuilt /\ TxBuilt <= num_tx_queues
  /\ RxStarted <= num_rx_queues /\ TxStarted <= num_tx_queues
  /\ pc = "wait_rx" => queue_id < num_rx_queues
  /\ pc = "wait_tx" => queue_id < num_tx_queues
  /\ result = "ok" => pc = "done"
  /\ \A i \in 1 .. Len(rx_queues) :
       /\ Len(rx_queues[i]) <= num_descriptors
       /\ i <= RxStarted => Len(rx_queues[i]) = num_descriptors
  /\ pc = "wait_rx" => Len(rx_queues[queue_id + 1]) = num_descriptors

\* The card is not reset yet, and may run rings of a device that was dropped.
Left == pc \in {"failed", "start", "reset"} \/ (pc = "wait_reset" /\ reg.RST)

\* Which registers init has programmed by then.
Programmed ==
  /\ reg.RST => pc = "wait_reset"
  /\ \A i \in Queue : reg.RX[i].RDH <= reg.RX[i].RDT
  /\ \A i \in Queue : i < RxBuilt => reg.RX[i].base = "driver"
  /\ \A i \in Queue : i < RxStarted => /\ reg.RX[i].enable = "on"
                                       /\ reg.RX[i].RDT = num_descriptors - 1
  /\ ~Left => \A i \in Queue : i >= RxStarted => reg.RX[i].RDT = 0
  /\ \A i \in Queue : i < TxBuilt => reg.TX[i].base = "driver"
  /\ \A i \in Queue : i < TxStarted => reg.TX[i].enable = "on"
  /\ pc \in {"init_tx", "start_rx", "wait_rx", "start_tx", "wait_tx", "wait_link",
             "done"} => reg.RXEN
  /\ pc \in {"start_rx", "wait_rx", "start_tx", "wait_tx", "wait_link", "done"}
       => reg.TE

\* Descriptor k of queue i while the device is built: the card has filled it, or
\* it has the buffer of bufs_in_use.
Filled ==
  \A i \in Queue : i < RxBuilt =>
    \A k \in Ring : k < Len(rx_queues[i + 1]) =>
      memory[i][k] = IF k < reg.RX[i].RDH
        THEN [addr |-> NoBuffer, dd |-> TRUE]
        ELSE [addr |-> <<InitPool, rx_queues[i + 1][k + 1]>>, dd |-> FALSE]

\* The descriptors between head and tail, of queues that run or not.
Posted == {x \in Queue \X Ring : reg.RX[x[1]].RDH <= x[2] /\ x[2] < reg.RX[x[1]].RDT}

\* A card that still runs rings of a dropped device has only lost buffers in
\* them, and none of them twice.
LeftBehind ==
  Left => /\ \A x \in Posted : memory[x[1]][x[2]].addr \in leaked
          /\ \A x, y \in Posted :
               memory[x[1]][x[2]].addr = memory[y[1]][y[2]].addr => x = y

\* No double free, and one owner for each buffer.
Owners == ~panicked /\ OneOwner

\* The inductive invariant.
Inv == Types /\ Progress /\ Programmed /\ Filled /\ LeftBehind /\ Owners

-----------------------------------------------------------------------------
(* Types.                                                                  *)

\* A ring has a first and a last descriptor.
LEMMA RingEnds ==
  ASSUME num_descriptors \in RingSizes
  PROVE  /\ num_descriptors \in Nat \ {0}
         /\ 0 \in Ring /\ num_descriptors - 1 \in Ring
BY DeviceAssumption DEF Ring

\* The registers after a reset and at power-up.
LEMMA RegistersType ==
  ASSUME num_descriptors \in RingSizes,
         NEW base \in Base, NEW Enabled, NEW on \in BOOLEAN
  PROVE  Registers(base, Enabled, on) \in Register
BY RingEnds DEF Registers, Register, RxRegister, TxRegister, Enable

\* The types hold before init, whatever used the card earlier.
LEMMA TypesInit == Init => Types
<1> SUFFICES ASSUME Init PROVE Types
  OBVIOUS
<1>1. PoolTypeOK
  <2>1. [k \in 1 .. NumEntries |-> k - 1] \in Seq(Entry)
    BY PoolAssumption DEF Entry
  <2>2. (CHOOSE f \in Frame : TRUE) \in Frame
    BY PoolAssumption
  <2> QED
    BY <2>1, <2>2 DEF Init, PoolTypeOK
<1>2. reg \in Register
  <2>1. "none" \in Base /\ "foreign" \in Base
    BY DEF Base
  <2> QED
    BY <2>1, RegistersType DEF Init
<1>3. memory \in [Queue -> [Ring -> Descriptor]]
  BY DEF Init, Descriptor
<1>4. << >> \in Seq(Seq(Entry))
  BY EmptySeq
<1> QED
  BY <1>1, <1>2, <1>3, <1>4 DEF Init, Types, Status

\* What the queue that a loop is at says of its bound.
LEMMA AtQueue ==
  ASSUME Types, Progress
  PROVE  /\ pc \in {"init_rx", "start_rx"} /\ queue_id < num_rx_queues => queue_id \in Queue
         /\ pc \in {"init_tx", "start_tx"} /\ queue_id < num_tx_queues => queue_id \in Queue
         /\ pc \in {"wait_rx", "wait_tx"} => queue_id \in Queue
         /\ pc \in {"start_rx", "wait_rx"} /\ queue_id < num_rx_queues =>
              /\ queue_id + 1 \in 1 .. Len(rx_queues)
              /\ rx_queues[queue_id + 1] \in Seq(Entry)
              /\ Len(rx_queues[queue_id + 1]) \in 0 .. num_descriptors
<1>1. num_rx_queues \in 0 .. MaxQueues /\ num_tx_queues \in 0 .. MaxQueues
  BY DEF Types
<1>2. \A n \in 0 .. MaxQueues : queue_id < n => queue_id \in Queue
  BY DeviceAssumption DEF Types, Queue
<1>3. ASSUME pc \in {"start_rx", "wait_rx"}, queue_id < num_rx_queues
      PROVE  /\ queue_id + 1 \in 1 .. Len(rx_queues)
             /\ rx_queues[queue_id + 1] \in Seq(Entry)
             /\ Len(rx_queues[queue_id + 1]) \in 0 .. num_descriptors
  <2>1. Len(rx_queues) = num_rx_queues
    BY <1>3 DEF Progress, RxBuilt
  <2>2. queue_id + 1 \in 1 .. Len(rx_queues)
    BY <2>1, <1>1, <1>3 DEF Types
  <2>3. rx_queues[queue_id + 1] \in Seq(Entry)
    BY <2>2, ElementOfSeq DEF Types
  <2>4. Len(rx_queues[queue_id + 1]) \in Nat
    BY <2>3, LenProperties
  <2>5. Len(rx_queues[queue_id + 1]) <= num_descriptors /\ num_descriptors \in Nat
    BY <2>2, RingEnds DEF Progress, Types
  <2> QED
    BY <2>2, <2>3, <2>4, <2>5
<1> QED
  BY <1>1, <1>2, <1>3 DEF Progress

\* The registers of one receive queue are replaced.
LEMMA RxRegisterUpdate ==
  ASSUME reg \in Register, NEW i \in Queue, NEW r \in RxRegister
  PROVE  [reg EXCEPT !.RX[i] = r] \in Register
<1>1. [reg.RX EXCEPT ![i] = r] \in [Queue -> RxRegister]
  BY DEF Register
<1> QED
  BY <1>1 DEF Register

\* A queue is asked to be enabled, or shows that it is.
LEMMA EnableUpdate ==
  ASSUME reg \in Register, NEW i \in Queue, NEW e \in Enable
  PROVE  /\ [reg EXCEPT !.RX[i].enable = e] \in Register
         /\ [reg EXCEPT !.TX[i].enable = e] \in Register
<1>1. [reg EXCEPT !.RX[i].enable = e] \in Register
  <2>1. reg.RX[i] \in RxRegister
    BY DEF Register
  <2>2. [reg.RX[i] EXCEPT !.enable = e] \in RxRegister
    BY <2>1 DEF RxRegister
  <2> QED
    BY <2>2, RxRegisterUpdate
<1>2. [reg EXCEPT !.TX[i].enable = e] \in Register
  <2>1. [reg.TX[i] EXCEPT !.enable = e] \in TxRegister
    BY DEF Register, TxRegister
  <2>2. [reg.TX EXCEPT ![i] = [reg.TX[i] EXCEPT !.enable = e]] \in [Queue -> TxRegister]
    BY <2>1 DEF Register
  <2> QED
    BY <2>2 DEF Register
<1> QED
  BY <1>1, <1>2

\* Registers that change one by one keep to their types.
LEMMA RegisterUpdates ==
  ASSUME reg \in Register, num_descriptors \in RingSizes, NEW b \in BOOLEAN
  PROVE  /\ [reg EXCEPT !.IMS = b] \in Register
         /\ [reg EXCEPT !.RST = b] \in Register
         /\ [reg EXCEPT !.RXEN = b] \in Register
         /\ [reg EXCEPT !.TE = b] \in Register
         /\ [reg EXCEPT !.IMS = b, !.SLU = TRUE] \in Register
         /\ \A e \in Enable : /\ [reg EXCEPT !.CTRL_EXT = e] \in Register
                              /\ [reg EXCEPT !.IMS = b, !.CTRL_EXT = e] \in Register
         /\ [reg EXCEPT !.link = ~@] \in Register
         /\ \A m \in SUBSET Mdic : [reg EXCEPT !.MDIC = m] \in Register
         /\ \A i \in Queue : [reg EXCEPT !.TX[i].base = "driver"] \in Register
         /\ \A i \in Queue, r \in RxRegister : [reg EXCEPT !.RX[i] = r] \in Register
         /\ \A i \in Queue, h \in Ring : [reg EXCEPT !.RX[i].RDH = h] \in Register
<1>1. [reg EXCEPT !.IMS = b] \in Register
  BY DEF Register, RxRegister, TxRegister, Base
<1>2. [reg EXCEPT !.RST = b] \in Register
  BY DEF Register, RxRegister, TxRegister, Base
<1>3. [reg EXCEPT !.RXEN = b] \in Register
  BY DEF Register, RxRegister, TxRegister, Base
<1>4. [reg EXCEPT !.TE = b] \in Register
  BY DEF Register, RxRegister, TxRegister, Base
<1>5. [reg EXCEPT !.IMS = b, !.SLU = TRUE] \in Register
  BY DEF Register, RxRegister, TxRegister, Base
<1>6. [reg EXCEPT !.link = ~@] \in Register
  BY DEF Register, RxRegister, TxRegister, Base
<1>7. \A m \in SUBSET Mdic : [reg EXCEPT !.MDIC = m] \in Register
  BY DEF Register, RxRegister, TxRegister, Base
<1>8. ASSUME NEW i \in Queue, NEW r \in TxRegister
      PROVE  [reg EXCEPT !.TX[i] = r] \in Register
  <2>1. [reg.TX EXCEPT ![i] = r] \in [Queue -> TxRegister]
    BY DEF Register
  <2> QED
    BY <2>1 DEF Register
<1>10. ASSUME NEW i \in Queue PROVE [reg EXCEPT !.TX[i].base = "driver"] \in Register
  <2>1. [reg.TX[i] EXCEPT !.base = "driver"] \in TxRegister
    BY DEF Register, TxRegister, Base
  <2> QED
    BY <2>1, <1>8
<1>11. ASSUME NEW i \in Queue, NEW r \in RxRegister
       PROVE  [reg EXCEPT !.RX[i] = r] \in Register
  BY <1>11, RxRegisterUpdate
<1>12. \A i \in Queue : reg.RX[i] \in RxRegister
  BY DEF Register
<1>13. ASSUME NEW i \in Queue, NEW h \in Ring
       PROVE  [reg EXCEPT !.RX[i].RDH = h] \in Register
  <2>1. [reg.RX[i] EXCEPT !.RDH = h] \in RxRegister
    BY <1>12 DEF RxRegister
  <2> QED
    BY <2>1, <1>11
<1>14. \A e \in Enable : /\ [reg EXCEPT !.CTRL_EXT = e] \in Register
                         /\ [reg EXCEPT !.IMS = b, !.CTRL_EXT = e] \in Register
  BY DEF Register, RxRegister, TxRegister, Base, Enable
<1> QED
  BY <1>1, <1>2, <1>3, <1>4, <1>5, <1>6, <1>7, <1>10, <1>11, <1>13, <1>14, Zenon

\* A step that leaves the pool alone keeps the pool's types.
LEMMA PoolUnchanged ==
  ASSUME PoolTypeOK, UNCHANGED poolVars
  PROVE  PoolTypeOK'
BY DEF PoolTypeOK, poolVars

\* What a failure leaves behind.
LEMMA FailsTypes ==
  ASSUME Types, NEW error \in {"NoMemory", "QueueNotAligned"}, Fails(error)
  PROVE  Types'
<1>1. BuffersOf(rx_queues) \subseteq Buffer
  <2> SUFFICES ASSUME NEW i \in DOMAIN rx_queues, NEW id \in ToSet(rx_queues[i])
               PROVE  <<InitPool, id>> \in Buffer
    BY DEF BuffersOf
  <2>1. rx_queues[i] \in Seq(Entry)
    BY ElementOfSeq, LenProperties DEF Types
  <2>2. id \in Entry
    BY <2>1, Elements
  <2> QED
    BY <2>2, DeviceAssumption DEF Buffer
<1>2. << >> \in Seq(Seq(Entry))
  BY EmptySeq
<1>3. PoolTypeOK'
  BY PoolUnchanged DEF Fails, Types
<1> QED
  BY <1>1, <1>2, <1>3
  DEF Fails, Types, Status, fields, loops, phyVars, Ring, Register, RxRegister

\* The card's index steps to the next descriptor, without wrapping around.
LEMMA HeadStep ==
  ASSUME Types, Programmed, NEW i \in Queue, CardReceive(i)
  PROVE  LET h == reg.RX[i].RDH
         IN  /\ h \in Ring /\ h + 1 \in Ring /\ h < reg.RX[i].RDT
             /\ (h + 1) % num_descriptors = h + 1
             /\ reg' = [reg EXCEPT !.RX[i].RDH = h + 1]
<1> DEFINE h == reg.RX[i].RDH
           t == reg.RX[i].RDT
<1>1. h \in Ring /\ t \in Ring
  BY DEF Types, Register, RxRegister
<1>2. h <= t /\ h # t
  BY DEF Programmed, CardReceive
<1>3. reg' = [reg EXCEPT !.RX[i].RDH = (h + 1) % num_descriptors]
  BY DEF CardReceive
<1>4. num_descriptors \in Nat \ {0}
  BY RingEnds DEF Types
<1> HIDE DEF h, t
<1>5. h + 1 \in Ring /\ h < t
  BY <1>1, <1>2, <1>4 DEF Ring
<1>6. (h + 1) % num_descriptors = h + 1
  BY <1>4, <1>5 DEF Ring
<1> QED
  BY <1>1, <1>3, <1>5, <1>6 DEF h, t

\* Every step keeps them, as init never goes past the queues it was asked for.
LEMMA TypesStep == Types /\ Progress /\ Programmed /\ [Next]_vars => Types'
<1> SUFFICES ASSUME Types, Progress, Programmed, [Next]_vars PROVE Types'
  OBVIOUS
<1>pool. PoolTypeOK /\ (UNCHANGED poolVars => PoolTypeOK')
  BY PoolUnchanged DEF Types
<1>reg. reg \in Register /\ num_descriptors \in RingSizes
  BY DEF Types
<1>ring. UNCHANGED fields => UNCHANGED <<num_descriptors, Ring, Register, RxRegister>>
  BY DEF fields, Ring, Register, RxRegister
<1>1. CASE Start
  <2>1. reg' \in Register
    BY <1>1, <1>reg, RegisterUpdates DEF Start
  <2> QED
    BY <2>1, <1>1, <1>pool, <1>ring DEF Start, Types, Status, fields, queues, loops, phyVars
<1>2. CASE GlobalReset
  <2>1. reg' \in Register
    BY <1>2, <1>reg, RegisterUpdates DEF GlobalReset
  <2> QED
    BY <2>1, <1>2, <1>pool, <1>ring
    DEF GlobalReset, Types, Status, fields, queues, loops, phyVars
<1>3. CASE AfterReset
  <2>1. Asked(reg.CTRL_EXT) \in Enable
    BY DEF Asked, Enable
  <2>2. reg' = [reg EXCEPT !.IMS = FALSE, !.CTRL_EXT = Asked(reg.CTRL_EXT)]
    BY <1>3, <1>reg DEF AfterReset, Register
  <2>3. reg' \in Register
    BY <2>1, <2>2, <1>reg, RegisterUpdates
  <2> QED
    BY <2>3, <1>3, <1>pool, <1>ring
    DEF AfterReset, Types, Status, fields, queues, loops, phyVars
<1>4. CASE ReadPhy
  <2>1. reg.MDIC \cup {"OP_READ"} \in SUBSET Mdic
    BY <1>reg DEF Register, Mdic
  <2>2. reg' \in Register
    BY <2>1, <1>4, <1>reg, RegisterUpdates DEF ReadPhy, AccessPhy
  <2> QED
    BY <2>2, <1>4, <1>pool, <1>ring
    DEF ReadPhy, AccessPhy, Types, Status, fields, queues, loops, phyVars
<1>5. CASE WritePhy
  <2> DEFINE flags == ((reg.MDIC \cap {"POWER_DOWN"}) \ {"POWER_DOWN"}) \cup {"OP_WRITE"}
  <2>1. reg.MDIC \cup flags \in SUBSET Mdic
    BY <1>reg DEF Register, Mdic
  <2>2. reg' \in Register
    BY <2>1, <1>5, <1>reg, RegisterUpdates DEF WritePhy, AccessPhy
  <2> QED
    BY <2>2, <1>5, <1>pool, <1>ring
    DEF WritePhy, AccessPhy, Types, Status, fields, queues, loops, phyVars
<1>6. CASE InitRx
  <2>1. reg' \in Register
    BY <1>6, <1>reg, RegisterUpdates DEF InitRx
  <2> QED
    BY <2>1, <1>6, <1>pool, <1>ring DEF InitRx, Types, Status, fields, queues, phyVars
<1>7. CASE InitRxQueue
  <2>1. queue_id \in Queue
    BY <1>7, AtQueue DEF InitRxQueue
  <2>2. [reg.RX[queue_id] EXCEPT !.base = "driver", !.RDH = 0, !.RDT = 0] \in RxRegister
    <3>1. reg.RX[queue_id] \in RxRegister
      BY <2>1, <1>reg DEF Register
    <3>2. 0 \in Ring /\ "driver" \in Base
      BY <1>reg, RingEnds DEF Base
    <3> QED
      BY <3>1, <3>2 DEF RxRegister
  <2>3. reg' \in Register
    BY <2>1, <2>2, <1>7, <1>reg, RegisterUpdates DEF InitRxQueue
  <2>4. rx_queues' \in Seq(Seq(Entry))
    <3>1. << >> \in Seq(Entry)
      BY EmptySeq
    <3> QED
      BY <3>1, <1>7, AppendProperties DEF InitRxQueue, Types
  <2>5. memory' \in [Queue -> [Ring -> Descriptor]]
    BY <1>7 DEF InitRxQueue, Types, Descriptor
  <2>6. queue_id' \in Nat
    BY <1>7 DEF InitRxQueue, Types
  <2> QED
    BY <2>3, <2>4, <2>5, <2>6, <1>7, <1>pool, <1>ring
    DEF InitRxQueue, Types, fields, phyVars
<1>8. CASE InitTx
  <2>1. reg' \in Register
    BY <1>8, <1>reg, RegisterUpdates DEF InitTx
  <2> QED
    BY <2>1, <1>8, <1>pool, <1>ring DEF InitTx, Types, Status, fields, queues, phyVars
<1>9. CASE InitTxQueue
  <2>1. queue_id \in Queue
    BY <1>9, AtQueue DEF InitTxQueue
  <2>2. reg' \in Register
    BY <2>1, <1>9, <1>reg, RegisterUpdates DEF InitTxQueue
  <2> QED
    BY <2>2, <1>9, <1>pool, <1>ring DEF InitTxQueue, Types, fields, phyVars
<1>10. CASE InitTxDone
  <2>1. reg' \in Register
    BY <1>10, <1>reg, RegisterUpdates DEF InitTxDone
  <2> QED
    BY <2>1, <1>10, <1>pool, <1>ring DEF InitTxDone, Types, Status, fields, queues, phyVars
<1>11. CASE QueueNotAligned
  BY <1>11, FailsTypes DEF QueueNotAligned
<1>12. CASE NoMemory
  BY <1>12, FailsTypes DEF NoMemory
<1>13. CASE FillDescriptor
  <2> DEFINE q == rx_queues[queue_id + 1]
  <2>1. /\ queue_id \in Queue /\ queue_id + 1 \in 1 .. Len(rx_queues)
        /\ q \in Seq(Entry) /\ Len(q) \in 0 .. num_descriptors
        /\ Len(q) < num_descriptors
    BY <1>13, AtQueue DEF FillDescriptor, Filling
  <2>2. Len(q) \in Ring
    BY <2>1, <1>reg, RingEnds DEF Ring
  <2>3. Top(InitPool) \in Buffer /\ Popped(InitPool) \in [Pool -> Seq(Entry)]
    BY <1>13, <1>pool, PoppedType, DeviceAssumption DEF FillDescriptor
  <2>4. PoolTypeOK'
    BY <2>3, <1>13, <1>pool DEF FillDescriptor, PoolTypeOK
  <2>5. rx_queues' \in Seq(Seq(Entry))
    <3>1. Append(q, Top(InitPool)[2]) \in Seq(Entry)
      BY <2>1, <2>3, BufferPair, AppendProperties
    <3> QED
      BY <3>1, <2>1, <1>13, ExceptSeq DEF FillDescriptor, Types
  <2>6. memory' \in [Queue -> [Ring -> Descriptor]]
    <3>1. [addr |-> Top(InitPool), dd |-> FALSE] \in Descriptor
      BY <2>3 DEF Descriptor
    <3>2. memory' = [memory EXCEPT ![queue_id][Len(q)] = [addr |-> Top(InitPool), dd |-> FALSE]]
      BY <1>13 DEF FillDescriptor
    <3> QED
      BY <3>1, <3>2, <2>1, <2>2 DEF Types
  <2> QED
    BY <2>4, <2>5, <2>6, <1>13, <1>ring DEF FillDescriptor, Types, fields, loops, phyVars
<1>14. CASE EnableRxQueue
  <2>1. queue_id \in Queue
    BY <1>14, AtQueue DEF EnableRxQueue
  <2>2. Asked(reg.RX[queue_id].enable) \in Enable
    BY DEF Asked, Enable
  <2>3. reg' = [reg EXCEPT !.RX[queue_id].enable = Asked(reg.RX[queue_id].enable)]
    BY <1>14 DEF EnableRxQueue
  <2>4. reg' \in Register
    BY <2>1, <2>2, <2>3, <1>reg, EnableUpdate
  <2> QED
    BY <2>4, <1>14, <1>pool, <1>ring
    DEF EnableRxQueue, Types, Status, fields, queues, loops, phyVars
<1>15. CASE SetRxTail
  <2>1. queue_id \in Queue
    BY <1>15, AtQueue DEF SetRxTail
  <2>2. [reg.RX[queue_id] EXCEPT !.RDH = 0, !.RDT = num_descriptors - 1] \in RxRegister
    <3>1. reg.RX[queue_id] \in RxRegister
      BY <2>1, <1>reg DEF Register
    <3>2. 0 \in Ring /\ num_descriptors - 1 \in Ring
      BY RingEnds DEF Types
    <3> QED
      BY <3>1, <3>2 DEF RxRegister
  <2>3. PICK r \in RxRegister : reg' = [reg EXCEPT !.RX[queue_id] = r]
    BY <2>2, <1>15 DEF SetRxTail
  <2>4. reg' \in Register
    BY <2>1, <2>3, <1>reg, RxRegisterUpdate
  <2> QED
    BY <2>4, <1>15, <1>pool, <1>ring
    DEF SetRxTail, Types, Status, fields, queues, loops, phyVars
<1>16. CASE StartRxDone
  BY <1>16, <1>pool, <1>ring DEF StartRxDone, Types, Status, fields, queues, phyVars
<1>17. CASE StartTxQueue
  <2>1. queue_id \in Queue
    BY <1>17, AtQueue DEF StartTxQueue
  <2>2. Asked(reg.TX[queue_id].enable) \in Enable
    BY DEF Asked, Enable
  <2>3. reg' = [reg EXCEPT !.TX[queue_id].enable = Asked(reg.TX[queue_id].enable)]
    BY <1>17 DEF StartTxQueue
  <2>4. reg' \in Register
    BY <2>1, <2>2, <2>3, <1>reg, EnableUpdate
  <2> QED
    BY <2>4, <1>17, <1>pool, <1>ring
    DEF StartTxQueue, Types, Status, fields, queues, loops, phyVars
<1>18. CASE TxQueueStarted
  BY <1>18, <1>pool, <1>ring DEF TxQueueStarted, Types, Status, fields, queues, phyVars
<1>19. CASE SetLinkUp
  <2>1. reg' \in Register
    BY <1>19, <1>reg, RegisterUpdates DEF SetLinkUp
  <2> QED
    BY <2>1, <1>19, <1>pool, <1>ring DEF SetLinkUp, Types, Status, fields, queues, phyVars
<1>20. CASE PollLink
  BY <1>20, <1>pool, <1>ring DEF PollLink, Types, fields, queues, phyVars
<1>21. CASE InitDone
  BY <1>21, <1>pool, <1>ring DEF InitDone, Types, Status, fields, queues, loops, phyVars
<1>22. CASE Retry
  BY <1>22, <1>pool, <1>ring DEF Retry, Types, Status, fields, queues, loops, phyVars
<1>23. CASE Application
  <2>1. PoolTypeOK'
    BY <1>23, <1>pool, AllocPktType, DropPktType DEF Application
  <2> QED
    BY <2>1, <1>23, <1>ring
    DEF Application, Types, driverVars, fields, queues, loops, phyVars
<1>24. CASE ResetDone
  <2>1. "none" \in Base
    BY DEF Base
  <2>2. reg' \in Register
    BY <2>1, <1>24, <1>reg, RegistersType DEF ResetDone
  <2> QED
    BY <2>2, <1>24, <1>pool, <1>ring
    DEF ResetDone, Types, driverVars, fields, queues, loops
<1>25. CASE QueueEnabled
  <2>1. reg' \in Register
    <3>1. "on" \in Enable
      BY DEF Enable
    <3>2. ASSUME NEW i \in Queue, reg' = [reg EXCEPT !.RX[i].enable = "on"]
          PROVE  reg' \in Register
      BY <3>1, <3>2, <1>reg, EnableUpdate
    <3>3. ASSUME NEW i \in Queue, reg' = [reg EXCEPT !.TX[i].enable = "on"]
          PROVE  reg' \in Register
      BY <3>1, <3>3, <1>reg, EnableUpdate
    <3> QED
      BY <3>2, <3>3, <1>25 DEF QueueEnabled
  <2> QED
    BY <2>1, <1>25, <1>pool, <1>ring
    DEF QueueEnabled, Types, driverVars, fields, queues, loops, phyVars
<1>26. CASE PhyAccessed
  <2>1. \E m \in SUBSET Mdic : reg' = [reg EXCEPT !.MDIC = m]
    <3>1. reg.MDIC \in SUBSET Mdic
      BY <1>reg DEF Register
    <3>2. /\ (reg.MDIC \ {"POWER_DOWN"}) \cup {"READY"}
               \cup (IF power_down THEN {"POWER_DOWN"} ELSE {}) \in SUBSET Mdic
          /\ reg.MDIC \cup {"READY"} \in SUBSET Mdic
      BY <3>1 DEF Mdic
    <3> QED
      BY <3>2, <1>26 DEF PhyAccessed
  <2>2. reg' \in Register
    BY <2>1, <1>reg, RegisterUpdates
  <2>3. power_down' \in BOOLEAN
    <3>1. power_down' = power_down \/ power_down' = ("POWER_DOWN" \in reg.MDIC)
      BY <1>26 DEF PhyAccessed
    <3>2. power_down \in BOOLEAN /\ ("POWER_DOWN" \in reg.MDIC) \in BOOLEAN
      BY DEF Types
    <3> QED
      BY <3>1, <3>2
  <2> QED
    BY <2>2, <2>3, <1>26, <1>pool, <1>ring
    DEF PhyAccessed, Types, driverVars, fields, queues, loops
<1>27. CASE LinkChanges
  <2>1. reg' \in Register
    BY <1>27, <1>reg, RegisterUpdates DEF LinkChanges
  <2> QED
    BY <2>1, <1>27, <1>pool, <1>ring
    DEF LinkChanges, Types, driverVars, fields, queues, loops, phyVars
<1>28. ASSUME NEW i \in Queue, CardReceive(i) PROVE Types'
  <2>1. reg.RX[i].RDH \in Ring /\ reg.RX[i].RDH + 1 \in Ring
        /\ reg' = [reg EXCEPT !.RX[i].RDH = reg.RX[i].RDH + 1]
    BY <1>28, HeadStep
  <2>2. reg' \in Register
    BY <2>1, <1>reg, RegisterUpdates
  <2>3. memory' \in [Queue -> [Ring -> Descriptor]]
    <3>1. [addr |-> NoBuffer, dd |-> TRUE] \in Descriptor
      BY DEF Descriptor
    <3> QED
      BY <3>1, <2>1, <1>28 DEF CardReceive, Types
  <2> QED
    BY <2>2, <2>3, <1>28, <1>pool, <1>ring
    DEF CardReceive, Types, driverVars, fields, queues, loops, phyVars
<1>29. CASE UNCHANGED vars
  BY <1>29, <1>pool, <1>ring DEF vars, Types, driverVars, fields, queues, loops, phyVars
<1>30. CASE LoadShown
  <2>1. "on" \in Enable
    BY DEF Enable
  <2>2. reg' \in Register
    BY <2>1, <1>30, <1>reg, RegisterUpdates DEF LoadShown
  <2> QED
    BY <2>2, <1>30, <1>pool, <1>ring
    DEF LoadShown, Types, driverVars, fields, queues, loops, phyVars
<1> QED
  BY <1>1, <1>2, <1>3, <1>4, <1>5, <1>6, <1>7, <1>8, <1>9, <1>10, <1>11, <1>12,
     <1>13, <1>14, <1>15, <1>16, <1>17, <1>18, <1>19, <1>20, <1>21, <1>22, <1>23,
     <1>24, <1>25, <1>26, <1>27, <1>28, <1>29, <1>30
  DEF Next, Driver, Card

-----------------------------------------------------------------------------
(* How far init is.                                                        *)

\* Before init nothing is built.
LEMMA ProgressInit == Init => Progress
BY EmptySeq DEF Init, Progress, RxBuilt, RxStarted, TxBuilt, TxStarted

\* Every step leaves as many queues built and started as pc says.
LEMMA ProgressStep == Types /\ Progress /\ [Next]_vars => Progress'
<1> SUFFICES ASSUME Types, Progress, [Next]_vars PROVE Progress'
  OBVIOUS
<1> USE DEF Progress, RxBuilt, RxStarted, TxBuilt, TxStarted, fields, queues, loops
<1>num. /\ num_rx_queues \in Nat /\ num_tx_queues \in Nat /\ queue_id \in Nat
        /\ Len(rx_queues) \in Nat /\ tx_queues \in Nat
        /\ num_descriptors \in Nat \ {0}
  BY RingEnds, LenProperties, DeviceAssumption DEF Types
<1>len. \A i \in 1 .. Len(rx_queues) : Len(rx_queues[i]) \in Nat
  BY ElementOfSeq, LenProperties DEF Types
<1>1. CASE Start \/ GlobalReset \/ AfterReset \/ ReadPhy \/ WritePhy \/ InitRx
  BY <1>1, <1>num DEF Start, GlobalReset, AfterReset, ReadPhy, WritePhy, InitRx
<1>2. CASE InitRxQueue
  <2>1. /\ Len(rx_queues') = Len(rx_queues) + 1
        /\ \A i \in 1 .. Len(rx_queues) : rx_queues'[i] = rx_queues[i]
        /\ rx_queues'[Len(rx_queues) + 1] = << >>
    <3>1. << >> \in Seq(Entry)
      BY EmptySeq
    <3> QED
      BY <3>1, <1>2, AppendProperties DEF InitRxQueue, Types
  <2>2. \A i \in 1 .. Len(rx_queues') : Len(rx_queues'[i]) <= num_descriptors
    BY <2>1, <1>num, EmptySeq
  <2> QED
    BY <2>1, <2>2, <1>2, <1>num DEF InitRxQueue
<1>3. CASE InitTx \/ InitTxQueue \/ InitTxDone
  BY <1>3, <1>num DEF InitTx, InitTxQueue, InitTxDone
<1>4. CASE QueueNotAligned \/ NoMemory
  BY <1>4, <1>num, EmptySeq DEF QueueNotAligned, NoMemory, Fails
<1>5. CASE FillDescriptor
  <2> DEFINE q == rx_queues[queue_id + 1]
             e == Top(InitPool)[2]
  <2>1. /\ queue_id + 1 \in 1 .. Len(rx_queues)
        /\ q \in Seq(Entry) /\ Len(q) < num_descriptors
    BY <1>5, AtQueue DEF FillDescriptor, Filling
  <2>2. e \in Entry
    BY <1>5, PoppedType, BufferPair, DeviceAssumption DEF FillDescriptor, Types
  <2>3. Append(q, e) \in Seq(Entry) /\ Len(Append(q, e)) = Len(q) + 1
    BY <2>1, <2>2, AppendProperties
  <2>4. /\ Len(rx_queues') = Len(rx_queues)
        /\ \A i \in 1 .. Len(rx_queues) :
             rx_queues'[i] = IF i = queue_id + 1 THEN Append(q, e) ELSE rx_queues[i]
    BY <2>1, <2>3, <1>5, ExceptSeq DEF FillDescriptor, Types
  <2>5. pc = "start_rx" /\ pc' = pc /\ queue_id' = queue_id
    BY <1>5 DEF FillDescriptor, Filling
  <2> HIDE DEF q, e
  <2>6. ASSUME NEW i \in 1 .. Len(rx_queues')
        PROVE  /\ Len(rx_queues'[i]) <= num_descriptors
               /\ i <= queue_id => Len(rx_queues'[i]) = num_descriptors
    <3>1. i \in 1 .. Len(rx_queues) /\ i \in Nat /\ queue_id \in Nat
      BY <2>4, <1>num
    <3>2. CASE i = queue_id + 1
      <4>1. rx_queues'[i] = Append(q, e) /\ Len(q) \in Nat
        BY <3>1, <3>2, <2>1, <2>4, LenProperties
      <4> QED
        BY <4>1, <3>1, <3>2, <2>1, <2>3, <1>num
    <3>3. CASE i # queue_id + 1
      <4>1. rx_queues'[i] = rx_queues[i]
        BY <3>1, <3>3, <2>4
      <4> QED
        BY <4>1, <3>1, <2>5, <1>num
    <3> QED
      BY <3>2, <3>3
  <2> QED
    BY <2>4, <2>5, <2>6, <1>5, <1>num DEF FillDescriptor
<1>6. CASE EnableRxQueue
  <2>1. Len(rx_queues[queue_id + 1]) = num_descriptors
    BY <1>6, <1>num, AtQueue DEF EnableRxQueue, Filling
  <2> QED
    BY <2>1, <1>6, <1>num DEF EnableRxQueue
<1>7. CASE SetRxTail
  BY <1>7, <1>num DEF SetRxTail
<1>8. CASE StartRxDone \/ StartTxQueue \/ TxQueueStarted \/ SetLinkUp
  BY <1>8, <1>num DEF StartRxDone, StartTxQueue, TxQueueStarted, SetLinkUp
<1>9. CASE PollLink \/ InitDone \/ Retry
  BY <1>9, <1>num DEF PollLink, InitDone, Retry
<1>10. CASE Application \/ Card \/ UNCHANGED vars
  BY <1>10, <1>num
  DEF Application, Card, ResetDone, QueueEnabled, LoadShown, PhyAccessed, LinkChanges,
      CardReceive, vars, driverVars
<1> QED
  BY <1>1, <1>2, <1>3, <1>4, <1>5, <1>6, <1>7, <1>8, <1>9, <1>10 DEF Next, Driver

-----------------------------------------------------------------------------
(* What the registers show.                                                *)

\* Before init the registers may be as another driver left them.
LEMMA ProgrammedInit == Init => Programmed
<1> SUFFICES ASSUME Init PROVE Programmed
  OBVIOUS
<1>1. /\ \A i \in Queue : reg.RX[i].RDH = 0 /\ reg.RX[i].RDT = 0
      /\ ~reg.RST
  BY DEF Init, Registers
<1>2. \A i \in Queue : i \in Nat
  BY DeviceAssumption DEF Queue
<1> QED
  BY <1>1, <1>2 DEF Init, Programmed, Left, RxBuilt, RxStarted, TxBuilt, TxStarted

\* The waits for a reset, for the PHY and for the link, and the failures, change
\* only how far init is; no queue is programmed meanwhile.
LEMMA ProgrammedStep == Types /\ Progress /\ Programmed /\ [Next]_vars => Programmed'
<1> SUFFICES ASSUME Types, Progress, Programmed, [Next]_vars PROVE Programmed'
  OBVIOUS
<1> USE DEF Programmed, Left, RxBuilt, RxStarted, TxBuilt, TxStarted, fields, queues, loops
<1>num. /\ num_rx_queues \in Nat /\ num_tx_queues \in Nat /\ queue_id \in Nat
        /\ num_descriptors \in Nat \ {0}
  BY RingEnds, DeviceAssumption DEF Types
<1>id. \A i \in Queue : i \in Nat
  BY DeviceAssumption DEF Queue
<1>reg. /\ reg \in Register
        /\ \A i \in Queue : reg.RX[i] \in RxRegister /\ reg.TX[i] \in TxRegister
        /\ \A i \in Queue : reg.RX[i].RDH \in Int /\ reg.RX[i].RDT \in Int
  BY DEF Types, Register, RxRegister, Ring
<1>1. CASE Start \/ GlobalReset \/ AfterReset
  <2>1. /\ reg'.TE = reg.TE /\ reg'.RXEN = reg.RXEN
        /\ reg'.RX = reg.RX /\ reg'.TX = reg.TX
        /\ ~GlobalReset => reg'.RST = reg.RST
    BY <1>1, <1>reg DEF Start, GlobalReset, AfterReset, Register
  <2>2. CASE Start
    BY <2>1, <2>2, <1>num, <1>reg, <1>id DEF Start, GlobalReset
  <2>3. CASE GlobalReset
    BY <2>1, <2>3, <1>num, <1>reg, <1>id DEF GlobalReset
  <2>4. CASE AfterReset
    BY <2>1, <2>4, <1>num, <1>reg, <1>id DEF AfterReset, GlobalReset
  <2> QED
    BY <1>1, <2>2, <2>3, <2>4
<1>2. CASE ReadPhy \/ WritePhy \/ InitRx
  <2>1. /\ reg'.RST = reg.RST /\ reg'.TE = reg.TE
        /\ reg'.RX = reg.RX /\ reg'.TX = reg.TX
    BY <1>2, <1>reg DEF ReadPhy, WritePhy, AccessPhy, InitRx, Register
  <2> QED
    BY <2>1, <1>2, <1>num, <1>reg, <1>id DEF ReadPhy, WritePhy, InitRx
<1>3. CASE InitRxQueue
  <2>1. queue_id \in Queue
    BY <1>3, AtQueue DEF InitRxQueue
  <2>2. /\ reg'.RST = reg.RST /\ reg'.TX = reg.TX
        /\ \A i \in Queue : i # queue_id => reg'.RX[i] = reg.RX[i]
        /\ reg'.RX[queue_id].base = "driver"
        /\ reg'.RX[queue_id].RDH = 0 /\ reg'.RX[queue_id].RDT = 0
    BY <2>1, <1>3, <1>reg DEF InitRxQueue, Register, RxRegister
  <2> QED
    BY <2>1, <2>2, <1>3, <1>num, <1>reg, <1>id DEF InitRxQueue
<1>4. CASE InitTx
  BY <1>4, <1>num, <1>reg, <1>id DEF InitTx, Register, Progress
<1>5. CASE InitTxQueue
  <2>1. queue_id \in Queue
    BY <1>5, AtQueue DEF InitTxQueue
  <2>2. /\ reg'.RST = reg.RST /\ reg'.RX = reg.RX /\ reg'.RXEN = reg.RXEN
        /\ \A i \in Queue : i # queue_id => reg'.TX[i] = reg.TX[i]
        /\ reg'.TX[queue_id].base = "driver"
    BY <2>1, <1>5, <1>reg DEF InitTxQueue, Register, TxRegister
  <2> QED
    BY <2>1, <2>2, <1>5, <1>num, <1>reg, <1>id DEF InitTxQueue
<1>6. CASE InitTxDone
  BY <1>6, <1>num, <1>reg, <1>id DEF InitTxDone, Register
<1>7. CASE QueueNotAligned \/ NoMemory
  BY <1>7, <1>num, <1>reg, <1>id DEF QueueNotAligned, NoMemory, Fails, Filling
<1>8. CASE FillDescriptor \/ StartRxDone \/ PollLink \/ InitDone \/ Retry
  BY <1>8, <1>num, <1>reg, <1>id
  DEF FillDescriptor, StartRxDone, PollLink, InitDone, Retry
<1>9. CASE EnableRxQueue
  <2>1. queue_id \in Queue
    BY <1>9, AtQueue DEF EnableRxQueue
  <2>2. /\ reg'.RST = reg.RST /\ reg'.TX = reg.TX /\ reg'.RXEN = reg.RXEN
        /\ reg'.TE = reg.TE
        /\ \A i \in Queue : i # queue_id => reg'.RX[i] = reg.RX[i]
        /\ reg'.RX[queue_id].base = reg.RX[queue_id].base
        /\ reg'.RX[queue_id].RDH = reg.RX[queue_id].RDH
        /\ reg'.RX[queue_id].RDT = reg.RX[queue_id].RDT
    BY <2>1, <1>9, <1>reg DEF EnableRxQueue, Register, RxRegister
  <2> QED
    BY <2>1, <2>2, <1>9, <1>num, <1>reg, <1>id DEF EnableRxQueue
<1>10. CASE SetRxTail
  <2>1. queue_id \in Queue
    BY <1>10, AtQueue DEF SetRxTail
  <2>2. /\ reg'.RST = reg.RST /\ reg'.TX = reg.TX /\ reg'.RXEN = reg.RXEN
        /\ reg'.TE = reg.TE
        /\ \A i \in Queue : i # queue_id => reg'.RX[i] = reg.RX[i]
        /\ reg'.RX[queue_id].base = reg.RX[queue_id].base
        /\ reg'.RX[queue_id].enable = "on"
        /\ reg'.RX[queue_id].RDH = 0
        /\ reg'.RX[queue_id].RDT = num_descriptors - 1
    BY <2>1, <1>10, <1>reg DEF SetRxTail, Register, RxRegister
  <2> QED
    BY <2>1, <2>2, <1>10, <1>num, <1>reg, <1>id DEF SetRxTail
<1>11. CASE StartTxQueue
  <2>1. queue_id \in Queue
    BY <1>11, AtQueue DEF StartTxQueue
  <2>2. /\ reg'.RST = reg.RST /\ reg'.RX = reg.RX /\ reg'.RXEN = reg.RXEN
        /\ reg'.TE = reg.TE
        /\ \A i \in Queue : i # queue_id => reg'.TX[i] = reg.TX[i]
        /\ reg'.TX[queue_id].base = reg.TX[queue_id].base
    BY <2>1, <1>11, <1>reg DEF StartTxQueue, Register, TxRegister
  <2> QED
    BY <2>1, <2>2, <1>11, <1>num, <1>reg, <1>id DEF StartTxQueue
<1>12. CASE TxQueueStarted
  BY <1>12, <1>num, <1>reg, <1>id DEF TxQueueStarted
<1>13. CASE SetLinkUp
  BY <1>13, <1>num, <1>reg, <1>id DEF SetLinkUp, Register
<1>14. CASE ResetDone
  <2>1. /\ ~reg'.RST /\ pc = "wait_reset"
        /\ \A i \in Queue : reg'.RX[i].RDH = 0 /\ reg'.RX[i].RDT = 0
    BY <1>14 DEF ResetDone, Registers
  <2>2. pc' = pc
    BY <1>14 DEF ResetDone, driverVars
  <2> QED
    BY <2>1, <2>2, <1>id
<1>15. CASE QueueEnabled
  <2> DEFINE Rest == /\ reg'.RST = reg.RST /\ reg'.RXEN = reg.RXEN /\ reg'.TE = reg.TE
  <2>1. ASSUME NEW n \in Queue, reg.RX[n].enable = "asked",
               reg' = [reg EXCEPT !.RX[n].enable = "on"]
        PROVE  Programmed'
    <3>1. /\ Rest /\ reg'.TX = reg.TX
          /\ \A i \in Queue : /\ reg'.RX[i].base = reg.RX[i].base
                              /\ reg'.RX[i].RDH = reg.RX[i].RDH
                              /\ reg'.RX[i].RDT = reg.RX[i].RDT
                              /\ reg.RX[i].enable = "on" => reg'.RX[i].enable = "on"
      BY <2>1, <1>reg DEF Register, RxRegister
    <3> QED
      BY <3>1, <1>15, <1>num, <1>reg, <1>id DEF QueueEnabled, driverVars
  <2>2. ASSUME NEW n \in Queue, reg.TX[n].enable = "asked",
               reg' = [reg EXCEPT !.TX[n].enable = "on"]
        PROVE  Programmed'
    <3>1. /\ Rest /\ reg'.RX = reg.RX
          /\ \A i \in Queue : /\ reg'.TX[i].base = reg.TX[i].base
                              /\ reg.TX[i].enable = "on" => reg'.TX[i].enable = "on"
      BY <2>2, <1>reg DEF Register, TxRegister
    <3> QED
      BY <3>1, <1>15, <1>num, <1>reg, <1>id DEF QueueEnabled, driverVars
  <2> QED
    BY <2>1, <2>2, <1>15 DEF QueueEnabled
<1>16. CASE LoadShown \/ PhyAccessed \/ LinkChanges
  <2>1. /\ reg'.RST = reg.RST /\ reg'.RXEN = reg.RXEN /\ reg'.TE = reg.TE
        /\ reg'.RX = reg.RX /\ reg'.TX = reg.TX
    BY <1>16, <1>reg DEF LoadShown, PhyAccessed, LinkChanges, Register
  <2> QED
    BY <2>1, <1>16, <1>num, <1>reg, <1>id
    DEF LoadShown, PhyAccessed, LinkChanges, driverVars
<1>17. ASSUME NEW n \in Queue, CardReceive(n) PROVE Programmed'
  <2>1. /\ reg.RX[n].RDH \in Ring /\ reg.RX[n].RDH < reg.RX[n].RDT
        /\ reg' = [reg EXCEPT !.RX[n].RDH = reg.RX[n].RDH + 1]
    BY <1>17, HeadStep
  <2>2. /\ reg'.RST = reg.RST /\ reg'.RXEN = reg.RXEN /\ reg'.TE = reg.TE
        /\ reg'.TX = reg.TX
        /\ \A i \in Queue : /\ reg'.RX[i].base = reg.RX[i].base
                            /\ reg'.RX[i].enable = reg.RX[i].enable
                            /\ reg'.RX[i].RDT = reg.RX[i].RDT
        /\ \A i \in Queue : i # n => reg'.RX[i].RDH = reg.RX[i].RDH
        /\ reg'.RX[n].RDH = reg.RX[n].RDH + 1
    BY <2>1, <1>reg DEF Register, RxRegister
  <2>3. \A i \in Queue : reg'.RX[i].RDH <= reg'.RX[i].RDT
    BY <2>1, <2>2, <1>reg
  <2>4. UNCHANGED <<num_descriptors, num_rx_queues, num_tx_queues, queue_id, pc>>
    BY <1>17 DEF CardReceive, driverVars
  <2>5. UNCHANGED <<RxBuilt, RxStarted, TxBuilt, TxStarted, Left, Queue>>
    BY <2>2, <2>4 DEF Queue
  <2> HIDE DEF RxBuilt, RxStarted, TxBuilt, TxStarted, Left
  <2> QED
    BY <2>2, <2>3, <2>4, <2>5
<1>18. CASE Application \/ UNCHANGED vars
  BY <1>18, <1>num, <1>reg, <1>id DEF Application, vars, driverVars
<1> QED
  BY <1>1, <1>2, <1>3, <1>4, <1>5, <1>6, <1>7, <1>8, <1>9, <1>10, <1>11, <1>12,
     <1>13, <1>14, <1>15, <1>16, <1>17, <1>18 DEF Next, Driver, Card

-----------------------------------------------------------------------------
(* What the descriptors show.                                              *)

\* No queue is built yet.
LEMMA FilledInit == Init => Filled
BY DeviceAssumption DEF Init, Filled, RxBuilt, Queue

\* While the device is built the card writes only to the descriptor at the head
\* of a queue that was started, and the driver to one behind those it filled.
LEMMA FilledStep ==
  Types /\ Progress /\ Programmed /\ Filled /\ [Next]_vars => Filled'
<1> SUFFICES ASSUME Types, Progress, Programmed, Filled, [Next]_vars PROVE Filled'
  OBVIOUS
<1> USE DEF Filled, RxBuilt, fields, queues, loops
<1>num. /\ num_rx_queues \in Nat /\ queue_id \in Nat
        /\ num_descriptors \in Nat \ {0} /\ Len(rx_queues) = RxBuilt
  BY RingEnds, DeviceAssumption DEF Types, Progress
<1>id. \A i \in Queue : i \in Nat
  BY DeviceAssumption DEF Queue
<1>ring. \A k \in Ring : k \in Nat
  BY DEF Ring
<1>reg. /\ reg \in Register
        /\ \A i \in Queue : reg.RX[i] \in RxRegister
  BY DEF Types, Register
<1>head. pc \in {"start_rx", "wait_rx"} /\ queue_id \in Queue => reg.RX[queue_id].RDH = 0
  <2> SUFFICES ASSUME pc \in {"start_rx", "wait_rx"}, queue_id \in Queue
               PROVE  reg.RX[queue_id].RDH = 0
    OBVIOUS
  <2>1. reg.RX[queue_id].RDT = 0
    BY <1>num DEF Programmed, RxStarted, Left
  <2>2. reg.RX[queue_id].RDH <= reg.RX[queue_id].RDT
    BY DEF Programmed
  <2>3. reg.RX[queue_id].RDH \in Ring
    BY <1>reg DEF RxRegister
  <2> QED
    BY <2>1, <2>2, <2>3 DEF Ring
<1> DEFINE Shown(i, k) == IF k < reg.RX[i].RDH
              THEN [addr |-> NoBuffer, dd |-> TRUE]
              ELSE [addr |-> <<InitPool, rx_queues[i + 1][k + 1]>>, dd |-> FALSE]
<1>1. CASE \/ Start \/ GlobalReset \/ AfterReset \/ ReadPhy \/ WritePhy \/ InitRx
           \/ QueueNotAligned \/ NoMemory \/ Retry
  <2>1. RxBuilt' = 0
    BY <1>1 DEF Start, GlobalReset, AfterReset, ReadPhy, WritePhy, InitRx,
                QueueNotAligned, NoMemory, Fails, Retry
  <2> QED
    BY <2>1, <1>id DEF Queue
<1>2. CASE InitRxQueue
  <2>1. queue_id \in Queue /\ pc = "init_rx" /\ RxBuilt' = queue_id + 1
    BY <1>2, AtQueue DEF InitRxQueue
  <2>2. /\ rx_queues'[queue_id + 1] = << >>
        /\ \A i \in Queue : i < queue_id => rx_queues'[i + 1] = rx_queues[i + 1]
    <3>1. << >> \in Seq(Entry)
      BY EmptySeq
    <3> QED
      BY <3>1, <2>1, <1>2, <1>num, <1>id, AppendProperties DEF InitRxQueue, Types
  <2>3. \A i \in Queue : i # queue_id =>
          memory'[i] = memory[i] /\ reg'.RX[i] = reg.RX[i]
    BY <2>1, <1>2, <1>reg DEF InitRxQueue, Types, Register
  <2>4. UNCHANGED <<Ring, Queue>>
    BY <1>2 DEF InitRxQueue, Ring, Queue
  <2>5. Len(<< >>) = 0
    BY EmptySeq
  <2> SUFFICES ASSUME NEW i \in Queue, i < queue_id + 1,
                      NEW k \in Ring, k < Len(rx_queues'[i + 1])
               PROVE  memory'[i][k] = Shown(i, k)'
    BY <2>1, <2>4
  <2>6. i # queue_id /\ i < queue_id
    BY <2>2, <2>5, <1>num, <1>id, <1>ring
  <2> QED
    BY <2>1, <2>2, <2>3, <2>6
<1>3. CASE FillDescriptor
  <2> DEFINE q == rx_queues[queue_id + 1]
             b == Top(InitPool)
  <2>1. /\ queue_id \in Queue /\ pc = "start_rx" /\ queue_id + 1 \in 1 .. Len(rx_queues)
        /\ q \in Seq(Entry) /\ Len(q) \in 0 .. num_descriptors
        /\ Len(q) < num_descriptors /\ queue_id < num_rx_queues
    BY <1>3, AtQueue DEF FillDescriptor, Filling
  <2>2. Len(q) \in Ring
    BY <2>1, <1>num DEF Ring
  <2>3. b \in Buffer /\ b = <<InitPool, b[2]>> /\ b[2] \in Entry
    BY <1>3, PoppedType, BufferPair, DeviceAssumption DEF FillDescriptor, Types, Top
  <2>4. /\ Append(q, b[2]) \in Seq(Entry) /\ Len(Append(q, b[2])) = Len(q) + 1
        /\ Append(q, b[2])[Len(q) + 1] = b[2]
        /\ \A k \in 1 .. Len(q) : Append(q, b[2])[k] = q[k]
    BY <2>1, <2>3, AppendProperties
  <2>5. \A i \in Queue : i < RxBuilt =>
          rx_queues'[i + 1] = IF i = queue_id THEN Append(q, b[2]) ELSE rx_queues[i + 1]
    BY <2>1, <2>4, <1>3, <1>num, <1>id, ExceptSeq DEF FillDescriptor, Types
  <2>6. /\ \A i \in Queue : i # queue_id => memory'[i] = memory[i]
        /\ \A k \in Ring : k # Len(q) => memory'[queue_id][k] = memory[queue_id][k]
        /\ memory'[queue_id][Len(q)] = [addr |-> b, dd |-> FALSE]
    BY <2>1, <2>2, <1>3 DEF FillDescriptor, Types
  <2>7. reg.RX[queue_id].RDH = 0
    BY <2>1, <1>head
  <2>8. UNCHANGED <<Ring, Queue, RxBuilt, reg>>
    BY <1>3 DEF FillDescriptor, Ring, Queue
  <2> HIDE DEF q, b
  <2>9. \A k \in Ring : k < Len(q) + 1 => k = Len(q) \/ (k < Len(q) /\ k + 1 \in 1 .. Len(q))
    BY <2>1, <1>ring
  <2>10. ASSUME NEW k \in Ring, k < Len(q) + 1
         PROVE  memory'[queue_id][k] = [addr |-> <<InitPool, Append(q, b[2])[k + 1]>>, dd |-> FALSE]
    <3>1. CASE k = Len(q)
      BY <3>1, <2>3, <2>4, <2>6
    <3>2. CASE k < Len(q) /\ k + 1 \in 1 .. Len(q)
      BY <3>2, <2>1, <2>4, <2>6, <2>7, <1>num, <1>ring DEF q
    <3> QED
      BY <3>1, <3>2, <2>9, <2>10
  <2> HIDE DEF RxBuilt
  <2> SUFFICES ASSUME NEW i \in Queue, i < RxBuilt,
                      NEW k \in Ring, k < Len(rx_queues'[i + 1])
               PROVE  memory'[i][k] = Shown(i, k)'
    BY <2>8
  <2>11. CASE i = queue_id
    <3>1. rx_queues'[i + 1] = Append(q, b[2])
      BY <2>11, <2>5
    <3>2. k < Len(q) + 1
      BY <3>1, <2>4
    <3>3. memory'[i][k] = [addr |-> <<InitPool, rx_queues'[i + 1][k + 1]>>, dd |-> FALSE]
      BY <3>1, <3>2, <2>10, <2>11
    <3>4. reg'.RX[i].RDH = 0 /\ ~(k < 0)
      BY <2>7, <2>8, <2>11, <1>ring
    <3> QED
      BY <3>3, <3>4
  <2>12. CASE i # queue_id
    BY <2>12, <2>5, <2>6, <2>8
  <2> QED
    BY <2>11, <2>12
<1>4. CASE SetRxTail
  <2>1. queue_id \in Queue /\ pc = "wait_rx" /\ RxBuilt' = RxBuilt
    BY <1>4, AtQueue DEF SetRxTail
  <2>2. /\ reg.RX[queue_id].RDH = 0
    BY <2>1, <1>head
  <2>3. \A i \in Queue : reg'.RX[i].RDH = reg.RX[i].RDH
    BY <2>1, <2>2, <1>4, <1>reg DEF SetRxTail, Register, RxRegister
  <2> QED
    BY <2>1, <2>3, <1>4 DEF SetRxTail, Ring
<1>5. CASE \/ InitTx \/ InitTxQueue \/ InitTxDone \/ EnableRxQueue \/ StartTxQueue
           \/ SetLinkUp
  <2>1. \A i \in Queue : reg'.RX[i].RDH = reg.RX[i].RDH
    <3>1. CASE InitTx \/ InitTxQueue \/ InitTxDone \/ StartTxQueue \/ SetLinkUp
      BY <3>1, <1>reg DEF InitTx, InitTxQueue, InitTxDone, StartTxQueue, SetLinkUp, Register
    <3>2. CASE EnableRxQueue
      <4>1. queue_id \in Queue
        BY <3>2, AtQueue DEF EnableRxQueue
      <4> QED
        BY <4>1, <3>2, <1>reg DEF EnableRxQueue, Register, RxRegister
    <3> QED
      BY <3>1, <3>2, <1>5
  <2>2. RxBuilt' = RxBuilt /\ UNCHANGED <<rx_queues, memory, Ring, Queue>>
    BY <1>5 DEF InitTx, InitTxQueue, InitTxDone, EnableRxQueue, StartTxQueue, SetLinkUp,
                Ring, Queue
  <2> QED
    BY <2>1, <2>2
<1>6. CASE StartRxDone \/ TxQueueStarted \/ PollLink \/ InitDone
  BY <1>6 DEF StartRxDone, TxQueueStarted, PollLink, InitDone, Ring
<1>7. CASE ResetDone
  <2>1. pc' = pc /\ pc = "wait_reset"
    BY <1>7 DEF ResetDone, driverVars, Programmed
  <2> QED
    BY <2>1, <1>id DEF Queue
<1>8. CASE QueueEnabled \/ LoadShown \/ PhyAccessed \/ LinkChanges
  <2>1. \A i \in Queue : reg'.RX[i].RDH = reg.RX[i].RDH
    BY <1>8, <1>reg
    DEF QueueEnabled, LoadShown, PhyAccessed, LinkChanges, Register, RxRegister
  <2>2. UNCHANGED <<pc, rx_queues, memory, Ring, Queue, queue_id, num_rx_queues>>
    BY <1>8 DEF QueueEnabled, LoadShown, PhyAccessed, LinkChanges, Ring, Queue, driverVars
  <2> QED
    BY <2>1, <2>2
<1>9. ASSUME NEW n \in Queue, CardReceive(n) PROVE Filled'
  <2> DEFINE h == reg.RX[n].RDH
  <2>1. /\ h \in Ring /\ reg' = [reg EXCEPT !.RX[n].RDH = h + 1]
    BY <1>9, HeadStep
  <2>2. /\ \A i \in Queue : i # n => reg'.RX[i].RDH = reg.RX[i].RDH
        /\ reg'.RX[n].RDH = h + 1
    BY <2>1, <1>reg DEF Register, RxRegister
  <2>3. /\ \A i \in Queue : i # n => memory'[i] = memory[i]
        /\ \A k \in Ring : k # h => memory'[n][k] = memory[n][k]
        /\ memory'[n][h] = [addr |-> NoBuffer, dd |-> TRUE]
    BY <2>1, <1>9 DEF CardReceive, Types
  <2>4. UNCHANGED <<pc, rx_queues, Ring, Queue, queue_id, num_rx_queues>>
    BY <1>9 DEF CardReceive, Ring, Queue, driverVars
  <2> HIDE DEF h
  <2>5. \A k \in Ring : k < h + 1 <=> k < h \/ k = h
    BY <2>1, <1>ring
  <2> SUFFICES ASSUME NEW i \in Queue, i < RxBuilt,
                      NEW k \in Ring, k < Len(rx_queues[i + 1])
               PROVE  memory'[i][k] = Shown(i, k)'
    BY <2>4
  <2>6. CASE i = n
    BY <2>6, <2>2, <2>3, <2>4, <2>5 DEF h
  <2>7. CASE i # n
    <3>1. /\ memory'[i] = memory[i] /\ reg'.RX[i].RDH = reg.RX[i].RDH
          /\ rx_queues' = rx_queues
      BY <2>7, <2>2, <2>3, <2>4
    <3>2. i < RxBuilt /\ k < Len(rx_queues[i + 1]) /\ i \in Queue /\ k \in Ring
      BY <2>4
    <3>3. memory[i][k] = Shown(i, k)
      BY <3>2
    <3> QED
      BY <3>1, <3>3
  <2> QED
    BY <2>6, <2>7
<1>10. CASE Application \/ UNCHANGED vars
  BY <1>10 DEF Application, vars, driverVars, Ring
<1> QED
  BY <1>1, <1>2, <1>3, <1>4, <1>5, <1>6, <1>7, <1>8, <1>9, <1>10 DEF Next, Driver, Card

-----------------------------------------------------------------------------
(* Who owns the buffers.                                                   *)

\* The entries in the queues of the device that is being built.
LEMMA BuffersOfQueues ==
  ASSUME NEW seqs \in Seq(Seq(Entry))
  PROVE  \A b : b \in BuffersOf(seqs) <=>
           \E i \in 1 .. Len(seqs) : \E k \in 1 .. Len(seqs[i]) : b = <<InitPool, seqs[i][k]>>
<1> TAKE b
<1>1. DOMAIN seqs = 1 .. Len(seqs)
  BY LenProperties
<1>2. \A i \in 1 .. Len(seqs) : ToSet(seqs[i]) = {seqs[i][k] : k \in 1 .. Len(seqs[i])}
  BY ElementOfSeq, Elements
<1> DEFINE ids == UNION {ToSet(seqs[i]) : i \in DOMAIN seqs}
<1>3. b \in BuffersOf(seqs) <=> \E id \in ids : b = <<InitPool, id>>
  BY DEF BuffersOf
<1>4. \A id : id \in ids <=> \E i \in 1 .. Len(seqs) : id \in ToSet(seqs[i])
  BY <1>1
<1> HIDE DEF ids
<1>5. ASSUME NEW id \in ids, b = <<InitPool, id>>
      PROVE  \E i \in 1 .. Len(seqs) : \E k \in 1 .. Len(seqs[i]) : b = <<InitPool, seqs[i][k]>>
  <2>1. PICK i \in 1 .. Len(seqs) : id \in ToSet(seqs[i])
    BY <1>4
  <2>2. PICK k \in 1 .. Len(seqs[i]) : id = seqs[i][k]
    BY <1>2, <2>1
  <2> QED
    BY <1>5, <2>1, <2>2
<1>6. ASSUME NEW i \in 1 .. Len(seqs), NEW k \in 1 .. Len(seqs[i]), b = <<InitPool, seqs[i][k]>>
      PROVE  \E id \in ids : b = <<InitPool, id>>
  BY <1>2, <1>4, <1>6
<1> QED
  BY <1>3, <1>5, <1>6

\* All entries are in the pool.
LEMMA OwnersInit == Init => Owners
<1> SUFFICES ASSUME Init PROVE Owners
  OBVIOUS
<1>1. \A p \in Pool : /\ free_stack[p] \in Seq(Entry) /\ IsInjective(free_stack[p])
                      /\ ToSet(free_stack[p]) = Entry
  <2> DEFINE s == [k \in 1 .. NumEntries |-> k - 1]
  <2>1. s \in Seq(Entry) /\ Len(s) = NumEntries
    BY PoolAssumption DEF Entry
  <2>2. IsInjective(s)
    <3>1. \A i, j \in 1 .. Len(s) : s[i] = s[j] => i = j
      BY <2>1, PoolAssumption
    <3> HIDE DEF s
    <3> QED
      BY <3>1, <2>1, Elements
  <2>3. Entry \subseteq ToSet(s)
    <3> SUFFICES ASSUME NEW e \in Entry PROVE e \in ToSet(s)
      OBVIOUS
    <3>1. e + 1 \in 1 .. NumEntries /\ s[e + 1] = e
      BY PoolAssumption DEF Entry
    <3> HIDE DEF s
    <3> QED
      BY <3>1, <2>1, Elements
  <2>4. ToSet(s) \subseteq Entry
    BY <2>1, Elements
  <2>5. \A p \in Pool : free_stack[p] = s
    BY DEF Init
  <2> HIDE DEF s
  <2> QED
    BY <2>1, <2>2, <2>3, <2>4, <2>5
<1>2. rx_queues = << >> /\ leaked = {} /\ held = {} /\ ~panicked
  BY DEF Init
<1>3. BuffersOf(rx_queues) = {}
  BY <1>2, EmptySeq DEF BuffersOf
<1>4. \A b \in Buffer : IsFree(b)
  BY <1>1, BufferPair DEF IsFree
<1> QED
  BY <1>1, <1>2, <1>3, <1>4, EmptySeq DEF Owners, OneOwner, OwnedOnce

\* A failure moves the buffers of all queues to what is lost; a buffer that a
\* descriptor gets was free and is in no other place.
LEMMA OwnersStep == Types /\ Types' /\ Progress /\ Owners /\ [Next]_vars => Owners'
<1> SUFFICES ASSUME Types, Types', Progress, Owners, [Next]_vars PROVE Owners'
  OBVIOUS
<1> USE DEF Owners, OneOwner
<1>pool. PoolTypeOK /\ rx_queues \in Seq(Seq(Entry)) /\ rx_queues' \in Seq(Seq(Entry))
  BY DEF Types
<1>dom. /\ DOMAIN rx_queues = 1 .. Len(rx_queues) /\ Len(rx_queues) \in Nat
        /\ \A i \in 1 .. Len(rx_queues) :
             rx_queues[i] \in Seq(Entry) /\ DOMAIN rx_queues[i] = 1 .. Len(rx_queues[i])
  BY <1>pool, LenProperties, ElementOfSeq
<1>1. CASE UNCHANGED <<poolVars, rx_queues, leaked>>
  <2>1. BuffersOf(rx_queues)' = BuffersOf(rx_queues)
    BY <1>1 DEF BuffersOf
  <2>2. \A b \in Buffer : IsFree(b)' <=> IsFree(b)
    BY <1>1 DEF IsFree, poolVars
  <2> QED
    BY <2>1, <2>2, <1>1 DEF OwnedOnce, poolVars
<1>2. CASE InitRxQueue
  <2>1. /\ Len(rx_queues') = Len(rx_queues) + 1
        /\ \A i \in 1 .. Len(rx_queues) : rx_queues'[i] = rx_queues[i]
        /\ rx_queues'[Len(rx_queues) + 1] = << >>
    <3>1. << >> \in Seq(Entry)
      BY EmptySeq
    <3> QED
      BY <3>1, <1>2, <1>pool, AppendProperties DEF InitRxQueue
  <2>2. DOMAIN rx_queues' = 1 .. Len(rx_queues) + 1
    BY <2>1, <1>pool, LenProperties
  <2>3. BuffersOf(rx_queues') = BuffersOf(rx_queues)
    <3>1. ASSUME NEW b PROVE b \in BuffersOf(rx_queues') <=> b \in BuffersOf(rx_queues)
      <4> DEFINE In(seqs) == \E i \in 1 .. Len(seqs) : \E k \in 1 .. Len(seqs[i]) :
                               b = <<InitPool, seqs[i][k]>>
      <4>1. b \in BuffersOf(rx_queues') <=> In(rx_queues')
        <5>1. rx_queues' \in Seq(Seq(Entry))
          BY <1>pool
        <5>2. PICK s : s = rx_queues'
          OBVIOUS
        <5>3. b \in BuffersOf(s) <=> In(s)
          BY <5>1, <5>2, BuffersOfQueues
        <5> QED
          BY <5>2, <5>3
      <4>4. b \in BuffersOf(rx_queues) <=> In(rx_queues)
        BY <1>pool, BuffersOfQueues
      <4>2. In(rx_queues) => In(rx_queues')
        BY <2>1, <1>dom
      <4>3. In(rx_queues') => In(rx_queues)
        BY <2>1, <1>dom, EmptySeq
      <4> QED
        BY <4>1, <4>2, <4>3, <4>4, Zenon
    <3> QED
      BY <3>1
  <2>4. \A b \in Buffer : IsFree(b)' <=> IsFree(b)
    BY <1>2 DEF InitRxQueue, IsFree, poolVars
  <2>5. BuffersOf(rx_queues)' = BuffersOf(rx_queues')
    BY DEF BuffersOf
  <2>6. DOMAIN << >> = {}
    BY EmptySeq
  <2>7. \A i, j \in DOMAIN rx_queues' :
          \A k \in DOMAIN rx_queues'[i], l \in DOMAIN rx_queues'[j] :
            rx_queues'[i][k] = rx_queues'[j][l] => i = j /\ k = l
    <3>1. \A i \in DOMAIN rx_queues' : DOMAIN rx_queues'[i] # {} =>
            i \in DOMAIN rx_queues /\ rx_queues'[i] = rx_queues[i]
      BY <2>1, <2>2, <2>6, <1>dom
    <3> QED
      BY <3>1
  <2>8. UNCHANGED <<held, panicked, leaked>> /\ free_stack' = free_stack
    BY <1>2 DEF InitRxQueue, poolVars
  <2> QED
    BY <2>3, <2>4, <2>5, <2>7, <2>8 DEF OwnedOnce
<1>3. CASE QueueNotAligned \/ NoMemory
  <2>1. /\ rx_queues' = << >> /\ leaked' = leaked \cup BuffersOf(rx_queues)
        /\ UNCHANGED poolVars
    BY <1>3 DEF QueueNotAligned, NoMemory, Fails
  <2>2. BuffersOf(rx_queues)' = {} /\ DOMAIN rx_queues' = {}
    BY <2>1, EmptySeq DEF BuffersOf
  <2>3. \A b \in Buffer : IsFree(b)' <=> IsFree(b)
    BY <2>1 DEF IsFree, poolVars
  <2> QED
    BY <2>1, <2>2, <2>3 DEF OwnedOnce, poolVars
<1>4. CASE FillDescriptor
  <2> DEFINE n == queue_id + 1
             q == rx_queues[n]
             t == Top(InitPool)
  <2>1. n \in 1 .. Len(rx_queues) /\ q \in Seq(Entry) /\ Len(q) \in Nat
    BY <1>4, AtQueue, LenProperties DEF FillDescriptor, Filling
  <2>2. /\ \A p \in Pool : IsInjective(free_stack'[p])
        /\ t \in Buffer /\ IsFree(t)
        /\ \A b \in Buffer : IsFree(b)' <=> IsFree(b) /\ b # t
    BY <1>4, <1>pool, PoppedOwned, DeviceAssumption DEF FillDescriptor, OwnedOnce
  <2>3. t = <<InitPool, t[2]>> /\ t[2] \in Entry
    BY <2>2, BufferPair DEF Top
  <2>4. /\ Append(q, t[2]) \in Seq(Entry) /\ Len(Append(q, t[2])) = Len(q) + 1
        /\ Append(q, t[2])[Len(q) + 1] = t[2]
        /\ \A k \in 1 .. Len(q) : Append(q, t[2])[k] = q[k]
    BY <2>1, <2>3, AppendProperties
  <2>5. /\ Len(rx_queues') = Len(rx_queues)
        /\ rx_queues'[n] = Append(q, t[2])
        /\ \A i \in 1 .. Len(rx_queues) : i # n => rx_queues'[i] = rx_queues[i]
    BY <2>1, <2>4, <1>4, <1>pool, ExceptSeq DEF FillDescriptor
  <2>6. /\ DOMAIN rx_queues' = 1 .. Len(rx_queues)
        /\ \A i \in 1 .. Len(rx_queues) : DOMAIN rx_queues'[i] = 1 .. Len(rx_queues'[i])
    BY <2>5, <1>pool, LenProperties, ElementOfSeq
  <2> HIDE DEF n, q, t
  <2>7. \A b : b \in BuffersOf(rx_queues') <=> b \in BuffersOf(rx_queues) \/ b = t
    <3> SUFFICES ASSUME NEW b
                 PROVE  b \in BuffersOf(rx_queues') <=> b \in BuffersOf(rx_queues) \/ b = t
      OBVIOUS
    <3>1. ASSUME NEW i \in 1 .. Len(rx_queues), NEW k \in 1 .. Len(rx_queues'[i]),
                 b = <<InitPool, rx_queues'[i][k]>>
          PROVE  b \in BuffersOf(rx_queues) \/ b = t
      <4>1. CASE i = n /\ k = Len(q) + 1
        BY <4>1, <3>1, <2>3, <2>4, <2>5
      <4>2. CASE i = n /\ k # Len(q) + 1
        <5>1. k \in 1 .. Len(q) /\ b = <<InitPool, rx_queues[i][k]>>
          BY <4>2, <3>1, <2>1, <2>4, <2>5 DEF q
        <5> QED
          BY <5>1, <4>2, <1>pool, BuffersOfQueues DEF q
      <4>3. CASE i # n
        BY <4>3, <3>1, <2>5, <1>pool, BuffersOfQueues
      <4> QED
        BY <4>1, <4>2, <4>3
    <3>2. ASSUME NEW i \in 1 .. Len(rx_queues), NEW k \in 1 .. Len(rx_queues[i]),
                 b = <<InitPool, rx_queues[i][k]>>
          PROVE  b \in BuffersOf(rx_queues')
      <4>1. k \in 1 .. Len(rx_queues'[i]) /\ rx_queues'[i][k] = rx_queues[i][k]
        <5>1. CASE i = n
          <6>1. q = rx_queues[i] /\ k \in 1 .. Len(q) /\ rx_queues'[i] = Append(q, t[2])
            BY <5>1, <3>2, <2>5 DEF q
          <6> QED
            BY <6>1, <2>1, <2>4
        <5>2. CASE i # n
          BY <5>2, <3>2, <2>5
        <5> QED
          BY <5>1, <5>2
      <4> QED
        BY <4>1, <3>2, <2>5, <1>pool, BuffersOfQueues
    <3>3. t \in BuffersOf(rx_queues')
      <4>1. /\ n \in 1 .. Len(rx_queues') /\ Len(q) + 1 \in 1 .. Len(rx_queues'[n])
            /\ t = <<InitPool, rx_queues'[n][Len(q) + 1]>>
        BY <2>1, <2>3, <2>4, <2>5
      <4> QED
        BY <4>1, <1>pool, BuffersOfQueues
    <3>4. b \in BuffersOf(rx_queues') =>
            \E i \in 1 .. Len(rx_queues) : \E k \in 1 .. Len(rx_queues'[i]) :
              b = <<InitPool, rx_queues'[i][k]>>
      <4>1. b \in BuffersOf(rx_queues') =>
              \E i \in 1 .. Len(rx_queues') : \E k \in 1 .. Len(rx_queues'[i]) :
                b = <<InitPool, rx_queues'[i][k]>>
        BY <1>pool, BuffersOfQueues
      <4> QED
        BY <4>1, <2>5
    <3>5. b \in BuffersOf(rx_queues) =>
            \E i \in 1 .. Len(rx_queues) : \E k \in 1 .. Len(rx_queues[i]) :
              b = <<InitPool, rx_queues[i][k]>>
      BY <1>pool, BuffersOfQueues
    <3> QED
      BY <3>1, <3>2, <3>3, <3>4, <3>5
  <2>8. BuffersOf(rx_queues)' = BuffersOf(rx_queues) \cup {t}
    BY <2>7 DEF BuffersOf
  <2>9. /\ t \notin BuffersOf(rx_queues) /\ t \notin leaked /\ t \notin held
    BY <2>2 DEF OwnedOnce
  <2>10. ASSUME NEW i \in 1 .. Len(rx_queues), NEW j \in 1 .. Len(rx_queues),
                NEW k \in 1 .. Len(rx_queues'[i]), NEW l \in 1 .. Len(rx_queues'[j]),
                rx_queues'[i][k] = rx_queues'[j][l]
         PROVE  i = j /\ k = l
    <3> DEFINE Old(a, c) == a # n \/ c # Len(q) + 1
    <3>1. ASSUME NEW a \in 1 .. Len(rx_queues), NEW c \in 1 .. Len(rx_queues'[a])
          PROVE  /\ Old(a, c) => c \in 1 .. Len(rx_queues[a])
                                 /\ rx_queues'[a][c] = rx_queues[a][c]
                                 /\ rx_queues'[a][c] # t[2]
                 /\ ~Old(a, c) => rx_queues'[a][c] = t[2]
      <4>1. ASSUME Old(a, c)
            PROVE  c \in 1 .. Len(rx_queues[a]) /\ rx_queues'[a][c] = rx_queues[a][c]
        <5>1. CASE a = n
          <6>1. /\ q = rx_queues[a] /\ rx_queues'[a] = Append(q, t[2])
                /\ c \in 1 .. Len(q) + 1 /\ c # Len(q) + 1
            BY <5>1, <4>1, <2>4, <2>5 DEF q
          <6>2. c \in 1 .. Len(q)
            BY <6>1, <2>1
          <6> QED
            BY <6>1, <6>2, <2>4
        <5>2. CASE a # n
          BY <5>2, <2>5
        <5> QED
          BY <5>1, <5>2
      <4>2. ASSUME Old(a, c) PROVE rx_queues[a][c] # t[2]
        <5>1. <<InitPool, rx_queues[a][c]>> \in BuffersOf(rx_queues)
          BY <4>1, <4>2, <1>pool, BuffersOfQueues
        <5> QED
          BY <5>1, <2>3, <2>9
      <4>3. ~Old(a, c) => rx_queues'[a][c] = t[2]
        BY <2>4, <2>5
      <4> QED
        BY <4>1, <4>2, <4>3
    <3>2. CASE Old(i, k) /\ Old(j, l)
      <4>2. /\ k \in 1 .. Len(rx_queues[i]) /\ rx_queues'[i][k] = rx_queues[i][k]
            /\ l \in 1 .. Len(rx_queues[j]) /\ rx_queues'[j][l] = rx_queues[j][l]
        BY <3>1, <3>2, Zenon
      <4>1. /\ k \in DOMAIN rx_queues[i] /\ l \in DOMAIN rx_queues[j]
            /\ rx_queues[i][k] = rx_queues[j][l]
            /\ i \in DOMAIN rx_queues /\ j \in DOMAIN rx_queues
        BY <4>2, <2>10, <1>dom
      <4> QED
        BY <4>1
    <3>3. CASE ~Old(i, k) /\ ~Old(j, l)
      BY <3>3
    <3>4. /\ Old(i, k) => rx_queues'[i][k] # t[2]
          /\ ~Old(i, k) => rx_queues'[i][k] = t[2]
      BY <3>1, Zenon
    <3>5. /\ Old(j, l) => rx_queues'[j][l] # t[2]
          /\ ~Old(j, l) => rx_queues'[j][l] = t[2]
      BY <3>1, Zenon
    <3>6. Old(i, k) <=> Old(j, l)
      <4> HIDE DEF Old
      <4> QED
        BY <3>4, <3>5, <2>10, Zenon
    <3> QED
      BY <3>2, <3>3, <3>6
  <2>11. UNCHANGED <<held, panicked, leaked>>
    BY <1>4 DEF FillDescriptor
  <2>12. OwnedOnce(BuffersOf(rx_queues) \cup leaked)'
    BY <2>2, <2>8, <2>9, <2>11 DEF OwnedOnce
  <2> QED
    BY <2>6, <2>8, <2>9, <2>10, <2>11, <2>12
<1>5. CASE Application
  <2>1. UNCHANGED <<rx_queues, leaked>>
    BY <1>5 DEF Application, driverVars, queues
  <2>2. PICK Q : Q = BuffersOf(rx_queues) \cup leaked
    OBVIOUS
  <2>3. OwnedOnce(Q) /\ ~panicked
    BY <2>2
  <2>4. ASSUME NEW p \in Pool, NEW f \in Frame, AllocPkt(p, f)
        PROVE  OwnedOnce(Q)' /\ ~panicked'
    <3>1. OwnedOnce(Q)'
      BY <2>3, <2>4, <1>pool, AllocPktOwned
    <3> QED
      BY <3>1, <2>3, <2>4 DEF AllocPkt
  <2>5. ASSUME NEW b \in held, DropPkt(b)
        PROVE  OwnedOnce(Q)' /\ ~panicked'
    BY <2>3, <2>5, <1>pool, DropPktOwned
  <2>6. OwnedOnce(Q)' /\ ~panicked'
    BY <2>4, <2>5, <1>5 DEF Application
  <2>7. BuffersOf(rx_queues)' = BuffersOf(rx_queues)
    BY <2>1 DEF BuffersOf
  <2> QED
    BY <2>1, <2>2, <2>6, <2>7 DEF OwnedOnce
<1> QED
  <2>1. CASE Card \/ Retry \/ UNCHANGED vars
    BY <2>1, <1>1
    DEF Card, ResetDone, QueueEnabled, LoadShown, PhyAccessed, LinkChanges, CardReceive,
        Retry, vars, driverVars, queues
  <2>2. CASE Driver
    BY <2>2, <1>1, <1>2, <1>3, <1>4
    DEF Driver, Start, GlobalReset, AfterReset, ReadPhy, WritePhy, InitRx, InitTx,
        InitTxQueue, InitTxDone, EnableRxQueue, SetRxTail, StartRxDone, StartTxQueue,
        TxQueueStarted, SetLinkUp, PollLink, InitDone, queues
  <2> QED
    BY <2>1, <2>2, <1>5 DEF Next

-----------------------------------------------------------------------------
(* What a device that was dropped left behind.                             *)

\* No descriptor is between a head and a tail yet.
LEMMA LeftBehindInit == Init => LeftBehind
<1> SUFFICES ASSUME Init PROVE LeftBehind
  OBVIOUS
<1>1. \A i \in Queue : reg.RX[i].RDH = 0 /\ reg.RX[i].RDT = 0
  BY DEF Init, Registers
<1>2. Posted = {}
  <2> SUFFICES ASSUME NEW x \in Queue \X Ring, 0 <= x[2], x[2] < 0 PROVE FALSE
    BY <1>1 DEF Posted
  <2>1. x[2] \in Int
    BY DEF Ring
  <2> QED
    BY <2>1
<1> QED
  BY <1>2 DEF LeftBehind

\* What is between head and tail while the device is built: the buffers of
\* bufs_in_use.
LEMMA PostedFilled ==
  ASSUME Types, Progress, Programmed, Filled, ~Left, NEW x \in Posted
  PROVE  /\ x[1] + 1 \in DOMAIN rx_queues
         /\ x[2] + 1 \in DOMAIN rx_queues[x[1] + 1]
         /\ memory[x[1]][x[2]].addr = <<InitPool, rx_queues[x[1] + 1][x[2] + 1]>>
         /\ x = <<x[1], x[2]>> /\ x[1] \in Int /\ x[2] \in Int
<1> DEFINE i == x[1]
           k == x[2]
<1>reg. reg.RX[x[1]].RDH \in Int /\ reg.RX[x[1]].RDT \in Int
  BY DEF Types, Register, RxRegister, Ring, Posted
<1>1. /\ i \in Queue /\ k \in Ring /\ x = <<i, k>>
      /\ reg.RX[i].RDH <= k /\ k < reg.RX[i].RDT
  BY DEF Posted
<1> HIDE DEF i, k
<1>2. i \in Nat /\ k \in 0 .. num_descriptors - 1 /\ num_descriptors \in Nat
  BY <1>1, DeviceAssumption, RingEnds DEF Queue, Ring, Types
<1>3. RxStarted \in Nat /\ RxBuilt \in Nat /\ RxStarted <= RxBuilt
  BY DeviceAssumption DEF RxStarted, RxBuilt, Types, Progress
<1>4. i < RxStarted
  <2> SUFFICES ASSUME i >= RxStarted PROVE FALSE
    BY <1>2, <1>3
  <2>1. reg.RX[i].RDT = 0
    BY <1>1 DEF Programmed
  <2> QED
    BY <2>1, <1>1, <1>2
<1>5. i + 1 \in 1 .. Len(rx_queues) /\ i < RxBuilt
  BY <1>2, <1>3, <1>4, DeviceAssumption DEF Progress, Types
<1>6. /\ rx_queues[i + 1] \in Seq(Entry)
      /\ Len(rx_queues[i + 1]) = num_descriptors
  BY <1>2, <1>3, <1>4, <1>5, ElementOfSeq DEF Progress, Types
<1>7. k < Len(rx_queues[i + 1]) /\ k + 1 \in 1 .. Len(rx_queues[i + 1])
  BY <1>2, <1>6
<1>8. ~(k < reg.RX[i].RDH)
  BY <1>1, <1>2, <1>reg
<1>9. memory[i][k] = [addr |-> <<InitPool, rx_queues[i + 1][k + 1]>>, dd |-> FALSE]
  BY <1>1, <1>5, <1>7, <1>8 DEF Filled
<1>10. i + 1 \in DOMAIN rx_queues /\ k + 1 \in DOMAIN rx_queues[i + 1]
  BY <1>5, <1>6, <1>7, LenProperties DEF Types
<1>11. memory[i][k].addr = <<InitPool, rx_queues[i + 1][k + 1]>>
  BY <1>9
<1>12. i \in Int /\ k \in Int
  BY <1>2
<1> QED
  BY <1>1, <1>10, <1>11, <1>12, Zenon DEF i, k

\* When the device is dropped its descriptors have the buffers that are lost
\* with it; until the reset the card only takes descriptors.
LEMMA LeftBehindStep ==
  /\ Types /\ Progress /\ Programmed /\ Filled /\ LeftBehind /\ Owners /\ [Next]_vars
  => LeftBehind'
<1> SUFFICES ASSUME Types, Progress, Programmed, Filled, LeftBehind, Owners, [Next]_vars
             PROVE  LeftBehind'
  OBVIOUS
<1> USE DEF LeftBehind, Left, fields, queues, loops
<1>reg. /\ reg \in Register
        /\ \A i \in Queue : /\ reg.RX[i] \in RxRegister
                            /\ reg.RX[i].RDH \in Int /\ reg.RX[i].RDT \in Int
  BY DEF Types, Register, RxRegister, Ring
<1>1. CASE QueueNotAligned \/ NoMemory
  <2>1. /\ leaked' = leaked \cup BuffersOf(rx_queues) /\ UNCHANGED <<reg, memory>>
        /\ Posted' = Posted /\ ~Left /\ pc \in {"start_rx", "start_tx"}
    BY <1>1 DEF QueueNotAligned, NoMemory, Fails, Posted, Ring, Queue, Filling
  <2>2. ASSUME NEW x \in Posted
        PROVE  /\ x[1] + 1 \in DOMAIN rx_queues
               /\ x[2] + 1 \in DOMAIN rx_queues[x[1] + 1]
               /\ memory[x[1]][x[2]].addr = <<InitPool, rx_queues[x[1] + 1][x[2] + 1]>>
               /\ x = <<x[1], x[2]>> /\ x[1] \in Int /\ x[2] \in Int
    BY <2>1, PostedFilled
  <2>3. ASSUME NEW x \in Posted PROVE memory[x[1]][x[2]].addr \in BuffersOf(rx_queues)
    <3>4. /\ DOMAIN rx_queues = 1 .. Len(rx_queues)
          /\ \A i \in 1 .. Len(rx_queues) : DOMAIN rx_queues[i] = 1 .. Len(rx_queues[i])
      BY LenProperties, ElementOfSeq DEF Types
    <3>1. /\ x[1] + 1 \in 1 .. Len(rx_queues)
          /\ x[2] + 1 \in 1 .. Len(rx_queues[x[1] + 1])
      BY <2>2, <3>4
    <3>2. \E i \in 1 .. Len(rx_queues) : \E k \in 1 .. Len(rx_queues[i]) :
            memory[x[1]][x[2]].addr = <<InitPool, rx_queues[i][k]>>
      BY <3>1, <2>2
    <3>3. rx_queues \in Seq(Seq(Entry))
      BY DEF Types
    <3> QED
      BY <3>2, <3>3, BuffersOfQueues
  <2>4. ASSUME NEW x \in Posted, NEW y \in Posted,
               memory[x[1]][x[2]].addr = memory[y[1]][y[2]].addr
        PROVE  x = y
    <3>1. rx_queues[x[1] + 1][x[2] + 1] = rx_queues[y[1] + 1][y[2] + 1]
      BY <2>2, <2>4
    <3>2. x[1] + 1 = y[1] + 1 /\ x[2] + 1 = y[2] + 1
      BY <3>1, <2>2 DEF Owners, OneOwner
    <3>3. x[1] = y[1] /\ x[2] = y[2]
      BY <3>2, <2>2
    <3> QED
      BY <3>3, <2>2
  <2> QED
    BY <2>1, <2>3, <2>4
<1>2. CASE Start \/ GlobalReset \/ Retry
  <2>1. Left /\ \A i \in Queue : reg'.RX[i] = reg.RX[i]
    BY <1>2, <1>reg DEF Start, GlobalReset, Retry, Register
  <2>2. Posted' = Posted /\ UNCHANGED <<memory, leaked>>
    BY <2>1, <1>2 DEF Start, GlobalReset, Retry, Posted, Ring, Queue
  <2> QED
    BY <2>1, <2>2
<1>3. CASE AfterReset
  BY <1>3 DEF AfterReset
<1>4. CASE \/ ReadPhy \/ WritePhy \/ InitRx \/ InitRxQueue \/ InitTx \/ InitTxQueue
           \/ InitTxDone \/ FillDescriptor \/ EnableRxQueue \/ SetRxTail \/ StartRxDone
           \/ StartTxQueue \/ TxQueueStarted \/ SetLinkUp \/ PollLink \/ InitDone
  <2>1. ~Left'
    BY <1>4 DEF ReadPhy, WritePhy, InitRx, InitRxQueue, InitTx, InitTxQueue, InitTxDone,
                FillDescriptor, EnableRxQueue, SetRxTail, StartRxDone, StartTxQueue,
                TxQueueStarted, SetLinkUp, PollLink, InitDone, Filling
  <2> QED
    BY <2>1
<1>5. CASE ResetDone
  <2>1. ~reg'.RST /\ pc' = pc /\ pc = "wait_reset"
    BY <1>5 DEF ResetDone, Registers, driverVars, Programmed
  <2> QED
    BY <2>1
<1>6. CASE QueueEnabled \/ LoadShown \/ PhyAccessed \/ LinkChanges
  <2>1. /\ \A i \in Queue : reg'.RX[i].RDH = reg.RX[i].RDH /\ reg'.RX[i].RDT = reg.RX[i].RDT
        /\ reg'.RST = reg.RST
    BY <1>6, <1>reg
    DEF QueueEnabled, LoadShown, PhyAccessed, LinkChanges, Register, RxRegister
  <2>2. UNCHANGED <<pc, memory, leaked>> /\ Posted' = Posted
    BY <2>1, <1>6
    DEF QueueEnabled, LoadShown, PhyAccessed, LinkChanges, driverVars, Posted, Ring, Queue
  <2> QED
    BY <2>1, <2>2
<1>7. ASSUME NEW n \in Queue, CardReceive(n) PROVE LeftBehind'
  <2> DEFINE h == reg.RX[n].RDH
  <2>1. h \in Ring /\ reg' = [reg EXCEPT !.RX[n].RDH = h + 1]
    BY <1>7, HeadStep
  <2>2. /\ \A i \in Queue : i # n => reg'.RX[i].RDH = reg.RX[i].RDH
        /\ \A i \in Queue : reg'.RX[i].RDT = reg.RX[i].RDT
        /\ reg'.RX[n].RDH = h + 1 /\ reg'.RST = reg.RST
    BY <2>1, <1>reg DEF Register, RxRegister
  <2>3. /\ \A i \in Queue : i # n => memory'[i] = memory[i]
        /\ \A k \in Ring : k # h => memory'[n][k] = memory[n][k]
    BY <2>1, <1>7 DEF CardReceive, Types
  <2>4. UNCHANGED <<pc, leaked, Ring, Queue>>
    BY <1>7 DEF CardReceive, driverVars, Ring, Queue
  <2>5. ASSUME NEW x \in Posted'
        PROVE  x \in Posted /\ memory'[x[1]][x[2]] = memory[x[1]][x[2]]
    <3>1. /\ x \in Queue \X Ring /\ x[1] \in Queue /\ x[2] \in Ring
          /\ reg'.RX[x[1]].RDH <= x[2] /\ x[2] < reg.RX[x[1]].RDT
      BY <2>2, <2>4 DEF Posted
    <3>2. x[2] \in Int /\ h \in Int
      BY <3>1, <2>1 DEF Ring
    <3> HIDE DEF h
    <3>3. CASE x[1] = n
      <4>1. h + 1 <= x[2]
        BY <3>1, <3>3, <2>2
      <4>2. h <= x[2] /\ x[2] # h
        BY <4>1, <3>2
      <4> QED
        BY <4>2, <3>1, <3>3, <2>3 DEF Posted, h
    <3>4. CASE x[1] # n
      BY <3>1, <3>4, <2>2, <2>3 DEF Posted
    <3> QED
      BY <3>3, <3>4
  <2>6. Left' = Left
    BY <2>2, <2>4
  <2> HIDE DEF Left, h
  <2> QED
    BY <2>4, <2>5, <2>6
<1>8. CASE Application \/ UNCHANGED vars
  <2>1. UNCHANGED <<pc, reg, leaked, memory>> /\ Posted' = Posted
    BY <1>8 DEF Application, vars, driverVars, Posted, Ring, Queue
  <2> QED
    BY <2>1
<1> QED
  BY <1>1, <1>2, <1>3, <1>4, <1>5, <1>6, <1>7, <1>8 DEF Next, Driver, Card

-----------------------------------------------------------------------------
(* The invariant, and what follows from it.                                *)

\* The inductive invariant holds in every state that init can reach.
THEOREM Invariance == Spec => []Inv
<1>1. Init => Inv
  BY TypesInit, ProgressInit, ProgrammedInit, FilledInit, LeftBehindInit, OwnersInit
  DEF Inv
<1>2. Inv /\ [Next]_vars => Inv'
  BY TypesStep, ProgressStep, ProgrammedStep, FilledStep, LeftBehindStep, OwnersStep
  DEF Inv
<1> QED
  BY <1>1, <1>2, PTL DEF Spec

\* The types of the invariant are those that the run checks.
LEMMA InvType == Inv => TypeOK
<1> SUFFICES ASSUME Inv PROVE TypeOK
  OBVIOUS
<1>1. Types /\ Progress /\ ~panicked
  BY DEF Inv, Owners
<1>2. /\ Len(rx_queues) <= num_rx_queues /\ tx_queues <= num_tx_queues
      /\ \A i \in DOMAIN rx_queues : Len(rx_queues[i]) <= num_descriptors
  BY <1>1, LenProperties DEF Progress, Types
<1>3. \A i \in Queue, k \in Ring : memory[i][k].addr \in Buffer \cup {NoBuffer}
  BY <1>1 DEF Types, Descriptor
<1>4. \A i \in Queue : reg.RX[i] \in RxRegister
  BY <1>1 DEF Types, Register
<1>5. \A i \in Queue : /\ reg.RX[i].base \in {"none", "foreign", "driver"}
                       /\ reg.RX[i].enable \in {"off", "asked", "on"}
                       /\ reg.RX[i].RDH \in Ring /\ reg.RX[i].RDT \in Ring
  BY <1>4 DEF RxRegister, Base, Enable
<1>6. /\ reg.MDIC \subseteq {"OP_READ", "OP_WRITE", "READY", "POWER_DOWN"}
      /\ reg.CTRL_EXT \in {"off", "asked", "on"}
  BY <1>1 DEF Types, Register, Mdic, Enable
<1> QED
  BY <1>1, <1>2, <1>3, <1>5, <1>6 DEF TypeOK, Types, PoolTypeOK

\* Every index that the driver or the card uses while the device is reset and
\* initialised stays in its ring, and no drop of a packet panics, for every ring
\* size and number of queues.
THEOREM TypeCorrect == Spec => []TypeOK
BY Invariance, InvType, PTL

\* No buffer of the pool has two owners during init, whatever the application
\* does meanwhile, and none is lost but those in the queues of a device that
\* init dropped when it failed.
THEOREM OneOwnerHolds == Spec => []OneOwner
<1>1. Inv => OneOwner
  BY DEF Inv, Owners
<1> QED
  BY <1>1, Invariance, PTL


\* What the card may write a frame to is between head and tail.
LEMMA GivenIsPosted ==
  Inv => /\ GivenToCard \subseteq Posted
         /\ \A x \in GivenToCard : memory[x[1]][x[2]].addr \in BuffersOf(rx_queues) \cup leaked
<1> SUFFICES ASSUME Inv PROVE /\ GivenToCard \subseteq Posted
                              /\ \A x \in GivenToCard :
                                   memory[x[1]][x[2]].addr \in BuffersOf(rx_queues) \cup leaked
  OBVIOUS
<1>1. GivenToCard \subseteq Posted
  BY DEF GivenToCard, Posted
<1>2. ASSUME NEW x \in Posted, ~Left
      PROVE  memory[x[1]][x[2]].addr \in BuffersOf(rx_queues)
  <2>1. /\ x[1] + 1 \in DOMAIN rx_queues
        /\ x[2] + 1 \in DOMAIN rx_queues[x[1] + 1]
        /\ memory[x[1]][x[2]].addr = <<InitPool, rx_queues[x[1] + 1][x[2] + 1]>>
    BY <1>2, PostedFilled DEF Inv
  <2>2. /\ x[1] + 1 \in 1 .. Len(rx_queues)
        /\ x[2] + 1 \in 1 .. Len(rx_queues[x[1] + 1])
    BY <2>1, LenProperties, ElementOfSeq DEF Inv, Types
  <2> QED
    BY <2>1, <2>2, BuffersOfQueues DEF Inv, Types
<1>3. ASSUME NEW x \in Posted, Left
      PROVE  memory[x[1]][x[2]].addr \in leaked
  BY <1>3 DEF Inv, LeftBehind
<1> QED
  BY <1>1, <1>2, <1>3

\* What the card may write to is in a descriptor that Filled or LeftBehind
\* speak of, and Owners keep that buffer apart from the others.
LEMMA InvDma == Inv => DmaSafe
<1> SUFFICES ASSUME Inv PROVE DmaSafe
  OBVIOUS
<1>1. BuffersOf(rx_queues) \cup leaked \subseteq Buffer
  <2> SUFFICES ASSUME NEW b \in BuffersOf(rx_queues) PROVE b \in Buffer
    BY DEF Inv, Types
  <2>1. PICK i \in 1 .. Len(rx_queues) : \E k \in 1 .. Len(rx_queues[i]) :
               b = <<InitPool, rx_queues[i][k]>>
    BY BuffersOfQueues DEF Inv, Types
  <2>2. PICK k \in 1 .. Len(rx_queues[i]) : b = <<InitPool, rx_queues[i][k]>>
    BY <2>1
  <2>3. rx_queues[i] \in Seq(Entry)
    BY ElementOfSeq DEF Inv, Types
  <2>4. rx_queues[i][k] \in Entry
    BY <2>3, ElementOfSeq
  <2> QED
    BY <2>2, <2>4, DeviceAssumption DEF Buffer
<1>2. ASSUME NEW x \in GivenToCard
      PROVE  LET b == memory[x[1]][x[2]].addr
             IN  b \in Buffer /\ ~IsFree(b) /\ b \notin held
  BY <1>1, GivenIsPosted DEF Inv, Owners, OneOwner, OwnedOnce
<1>3. ASSUME NEW x \in GivenToCard, NEW y \in GivenToCard,
             memory[x[1]][x[2]].addr = memory[y[1]][y[2]].addr
      PROVE  x = y
  <2>1. x \in Posted /\ y \in Posted
    BY GivenIsPosted
  <2>2. CASE Left
    BY <2>1, <2>2, <1>3 DEF Inv, LeftBehind
  <2>3. CASE ~Left
    <3>1. ASSUME NEW z \in {x, y}
          PROVE  /\ z[1] + 1 \in DOMAIN rx_queues
                 /\ z[2] + 1 \in DOMAIN rx_queues[z[1] + 1]
                 /\ memory[z[1]][z[2]].addr = <<InitPool, rx_queues[z[1] + 1][z[2] + 1]>>
                 /\ z = <<z[1], z[2]>> /\ z[1] \in Int /\ z[2] \in Int
      <4>1. z \in Posted
        BY <2>1
      <4> QED
        BY <4>1, <2>3, PostedFilled DEF Inv
    <3>2. rx_queues[x[1] + 1][x[2] + 1] = rx_queues[y[1] + 1][y[2] + 1]
      BY <3>1, <1>3
    <3>3. x[1] + 1 = y[1] + 1 /\ x[2] + 1 = y[2] + 1
      BY <3>1, <3>2 DEF Inv, Owners, OneOwner
    <3>4. x[1] = y[1] /\ x[2] = y[2]
      BY <3>1, <3>3
    <3> QED
      BY <3>1, <3>4
  <2> QED
    BY <2>2, <2>3
<1> QED
  BY <1>2, <1>3 DEF DmaSafe

\* At every moment of reset and initialisation, and while a queue of a device
\* that was dropped runs on, the card can write a frame only to buffers that
\* nobody else can get hold of, and never to one of them twice.
THEOREM DmaIsSafe == Spec => []DmaSafe
BY Invariance, InvDma, PTL

\* At the end of init, Progress, Programmed and Filled speak of every queue.
LEMMA InvReady == Inv => QueuesReady
<1> SUFFICES ASSUME Inv, result = "ok" PROVE QueuesReady!2
  BY DEF QueuesReady
<1>1. pc = "done" /\ ~Left
  BY DEF Inv, Progress, Left
<1>2. /\ RxBuilt = num_rx_queues /\ RxStarted = num_rx_queues
      /\ TxBuilt = num_tx_queues /\ TxStarted = num_tx_queues
  BY <1>1 DEF RxBuilt, RxStarted, TxBuilt, TxStarted
<1>3. reg.RXEN /\ reg.TE /\ Len(rx_queues) = num_rx_queues /\ tx_queues = num_tx_queues
  BY <1>1, <1>2 DEF Inv, Progress, Programmed
<1>4. ASSUME NEW i \in 0 .. num_tx_queues - 1
      PROVE  reg.TX[i] = [base |-> "driver", enable |-> "on"]
  <2>1. i \in Queue /\ i < num_tx_queues
    BY DeviceAssumption DEF Inv, Types, Queue
  <2>2. reg.TX[i].base = "driver" /\ reg.TX[i].enable = "on" /\ reg.TX[i] \in TxRegister
    BY <2>1, <1>2 DEF Inv, Programmed, Types, Register
  <2> QED
    BY <2>2 DEF TxRegister
<1>5. ASSUME NEW i \in 0 .. num_rx_queues - 1
      PROVE  /\ Receiving(i) /\ reg.RX[i].RDT = num_descriptors - 1
             /\ Len(rx_queues[i + 1]) = num_descriptors
             /\ \A k \in Ring :
                  memory[i][k] = IF k < reg.RX[i].RDH
                    THEN [addr |-> NoBuffer, dd |-> TRUE]
                    ELSE [addr |-> <<InitPool, rx_queues[i + 1][k + 1]>>, dd |-> FALSE]
  <2>1. i \in Queue /\ i < num_rx_queues /\ i + 1 \in 1 .. num_rx_queues
    BY DeviceAssumption DEF Inv, Types, Queue
  <2>2. Receiving(i) /\ reg.RX[i].RDT = num_descriptors - 1
    BY <2>1, <1>1, <1>2, <1>3 DEF Inv, Programmed, Receiving
  <2>3. Len(rx_queues[i + 1]) = num_descriptors
    BY <2>1, <1>2, <1>3 DEF Inv, Progress
  <2>4. \A k \in Ring : k < Len(rx_queues[i + 1])
    BY <2>3, RingEnds DEF Ring, Inv, Types
  <2> QED
    BY <2>1, <2>2, <2>3, <2>4, <1>2 DEF Inv, Filled
<1> QED
  BY <1>3, <1>4, <1>5

\* When init returns Ok, every queue is enabled, has its ring and all of its
\* buffers, in the order that receive_packets will look for them in.
THEOREM QueuesAreReady == Spec => []QueuesReady
BY Invariance, InvReady, PTL
=============================================================================
