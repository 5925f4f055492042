----------------------------- MODULE DeviceInit -----------------------------
(***************************************************************************)
(* Reset and initialisation of the device: IgbDevice::init and             *)
(* reset_and_init of src/src/igb.rs, with the queues, the PHY, the waits   *)
(* for the card, and what a failure half way leaves behind.                *)
(*                                                                         *)
(* The card may be running when init is called, for whoever used it        *)
(* before: firmware, or an earlier call of init that failed, whose queues  *)
(* the card goes on filling.  The application uses the pool meanwhile.     *)
(***************************************************************************)
EXTENDS MemPool

CONSTANTS
  InitPool,     \* the pool that init is given
  RingSizes,    \* bound: the values of QS
  MaxQueues,    \* bound: the largest number of queues of each kind
  MAX_QUEUES,   \* the limit that the documentation of init names
  LinkPolls     \* how often wait_for_link looks at the link again

ASSUME DeviceAssumption ==
  /\ InitPool \in Pool
  /\ RingSizes \subseteq Nat \ {0}
  /\ MaxQueues \in Nat /\ MAX_QUEUES \in Nat /\ LinkPolls \in Nat

VARIABLES
  num_descriptors,  \* driver: QS
  num_rx_queues,    \* driver: how many receive queues are asked for
  num_tx_queues,    \* driver: how many transmit queues are asked for
  rx_queues,        \* driver: bufs_in_use of the receive queues built so far
  tx_queues,        \* driver: how many transmit queues were built
  pc,               \* driver: the next statement
  queue_id,         \* driver: the loops' queue
  polls,            \* driver: wait_for_link's counter
  result,           \* driver: what init returned
  leaked,           \* buffers in the queues of devices that were dropped
  memory,           \* memory[i]: the descriptors of receive queue i
  reg,              \* card: the registers
  mdi_busy,         \* card: an access to the PHY is in progress
  power_down        \* PHY: bit 11 of its control register

fields     == <<num_descriptors, num_rx_queues, num_tx_queues>>
queues     == <<rx_queues, tx_queues, leaked>>
loops      == <<queue_id, polls>>
phyVars    == <<mdi_busy, power_down>>
driverVars == <<fields, queues, loops, pc, result>>
vars       == <<poolVars, driverVars, memory, reg, phyVars>>

Queue == 0 .. MaxQueues - 1
Ring  == 0 .. num_descriptors - 1

-----------------------------------------------------------------------------
(* What init finds: a card after power-up, or one with rings of somebody   *)
(* else.                                                                   *)

\* Registers: base, enable, head and tail of each queue; the enable bits of
\* receiver and transmitter; CTRL.RST and CTRL.SLU; the bit of CTRL_EXT that
\* says that a driver is loaded; whether an interrupt is enabled; MDIC, as the
\* set of the bits that are set; the link in STATUS.
Registers(base, Enabled, on) ==
  [RX   |-> [i \in Queue |->
               [base |-> base, enable |-> IF i \in Enabled THEN "on" ELSE "off",
                RDH |-> 0, RDT |-> 0]],
   TX   |-> [i \in Queue |->
               [base |-> base, enable |-> IF i \in Enabled THEN "on" ELSE "off"]],
   RXEN |-> on, TE |-> on, SLU |-> on, IMS |-> on, link |-> on,
   RST  |-> FALSE, CTRL_EXT |-> IF on THEN "on" ELSE "off", MDIC |-> {}]

\* set_flags32 with a bit that is waited for: the card shows it when it is ready.
Asked(bit) == IF bit = "on" THEN "on" ELSE "asked"

Init ==
  /\ free_stack = [p \in Pool |-> [k \in 1 .. NumEntries |-> k - 1]]
  /\ held = {}
  /\ payload = [b \in Buffer |-> CHOOSE f \in Frame : TRUE]
  /\ panicked = FALSE
  /\ num_descriptors \in RingSizes
  /\ num_rx_queues \in 0 .. MaxQueues /\ num_tx_queues \in 0 .. MaxQueues
  /\ rx_queues = << >> /\ tx_queues = 0 /\ leaked = {}
  /\ pc = "start" /\ result = "none"
  /\ queue_id = 0 /\ polls = 0
  /\ memory = [i \in Queue |-> [k \in Ring |-> [addr |-> NoBuffer, dd |-> FALSE]]]
  /\ reg \in {Registers("none", {}, FALSE), Registers("foreign", Queue, TRUE)}
  /\ mdi_busy = FALSE /\ power_down \in BOOLEAN

-----------------------------------------------------------------------------
(* Steps 1 and 2: interrupts and reset.                                    *)

\* disable_interrupts: IMC clears the bits that are written as 1; writing 0 to
\* IMS sets none.
Start ==
  /\ pc = "start"
  /\ reg' = [reg EXCEPT !.IMS = FALSE]
  /\ pc' = "reset"
  /\ UNCHANGED <<poolVars, fields, queues, loops, result, memory, phyVars>>

\* global_reset.
GlobalReset ==
  /\ pc = "reset"
  /\ reg' = [reg EXCEPT !.RST = TRUE]
  /\ pc' = "wait_reset"
  /\ UNCHANGED <<poolVars, fields, queues, loops, result, memory, phyVars>>

\* Fault: the end of the reset is not waited for.
AfterReset_early ==
  /\ pc = "wait_reset"
  /\ reg' = [reg EXCEPT !.IMS = FALSE, !.CTRL_EXT = Asked(@)]
  /\ pc' = "init_link"
  /\ UNCHANGED <<poolVars, fields, queues, loops, result, memory, phyVars>>

\* The reset is over; interrupts are disabled again, and the card is told that a
\* driver is there.
AfterReset ==
  /\ pc = "wait_reset"
  /\ ~reg.RST
  /\ reg' = [reg EXCEPT !.IMS = FALSE, !.CTRL_EXT = Asked(@)]
  /\ pc' = "init_link"
  /\ UNCHANGED <<poolVars, fields, queues, loops, result, memory, phyVars>>

-----------------------------------------------------------------------------
(* Step 3: init_link.                                                      *)

\* set_flags32(IGB_MDIC, flags), which starts an access to the PHY.
AccessPhy(flags) ==
  /\ reg' = [reg EXCEPT !.MDIC = @ \cup flags]
  /\ mdi_busy' = TRUE

\* The card shows that it was told, and the PHY's control register is to be read.
ReadPhy ==
  /\ pc = "init_link"
  /\ reg.CTRL_EXT = "on"
  /\ AccessPhy({"OP_READ"})
  /\ pc' = "wait_read"
  /\ UNCHANGED <<poolVars, fields, queues, loops, result, memory, power_down>>

\* What was read is to be written back with the power-down bit masked out.
WritePhy ==
  /\ pc = "wait_read"
  /\ "READY" \in reg.MDIC
  /\ LET mii_reg == reg.MDIC \cap {"POWER_DOWN"}
     IN  AccessPhy((mii_reg \ {"POWER_DOWN"}) \cup {"OP_WRITE"})
  /\ pc' = "wait_write"
  /\ UNCHANGED <<poolVars, fields, queues, loops, result, memory, power_down>>

-----------------------------------------------------------------------------
(* Steps 5 and 6: init_rx and init_tx.                                     *)

\* The end of init_link, reset_stats, and the start of init_rx: the receiver is
\* off while the rings are programmed.
InitRx ==
  /\ pc = "wait_write"
  /\ "READY" \in reg.MDIC
  /\ reg' = [reg EXCEPT !.RXEN = FALSE]
  /\ pc' = "init_rx" /\ queue_id' = 0
  /\ UNCHANGED <<poolVars, fields, queues, polls, result, memory, phyVars>>

\* A ring of zeroed descriptors, which is empty for the card.
InitRxQueue ==
  /\ pc = "init_rx" /\ queue_id < num_rx_queues
  /\ memory' = [memory EXCEPT ![queue_id] =
                  [k \in Ring |-> [addr |-> NoBuffer, dd |-> FALSE]]]
  /\ reg' = [reg EXCEPT !.RX[queue_id] =
               [@ EXCEPT !.base = "driver", !.RDH = 0, !.RDT = 0]]
  /\ rx_queues' = Append(rx_queues, << >>)
  /\ queue_id' = queue_id + 1
  /\ UNCHANGED <<poolVars, fields, tx_queues, leaked, polls, pc, result, phyVars>>

\* The receiver is on from here, although no queue has buffers.
InitTx ==
  /\ pc = "init_rx" /\ queue_id = num_rx_queues
  /\ reg' = [reg EXCEPT !.RXEN = TRUE]
  /\ pc' = "init_tx" /\ queue_id' = 0
  /\ UNCHANGED <<poolVars, fields, queues, polls, result, memory, phyVars>>

InitTxQueue ==
  /\ pc = "init_tx" /\ queue_id < num_tx_queues
  /\ reg' = [reg EXCEPT !.TX[queue_id].base = "driver"]
  /\ tx_queues' = tx_queues + 1
  /\ queue_id' = queue_id + 1
  /\ UNCHANGED <<poolVars, fields, rx_queues, leaked, polls, pc, result, memory,
                 phyVars>>

InitTxDone ==
  /\ pc = "init_tx" /\ queue_id = num_tx_queues
  /\ reg' = [reg EXCEPT !.TE = TRUE]
  /\ pc' = "start_rx" /\ queue_id' = 0
  /\ UNCHANGED <<poolVars, fields, queues, polls, result, memory, phyVars>>

-----------------------------------------------------------------------------
(* start_rx_queue and start_tx_queue.                                      *)

BuffersOf(seqs) == {<<InitPool, id>> : id \in UNION {ToSet(seqs[i]) : i \in DOMAIN seqs}}

\* Fault: the entries of a device that is dropped go back to the pool.
Fails_freed(error) ==
  /\ result' = error
  /\ free_stack' = Pushed(InitPool, FlattenSeq(rx_queues))
  /\ rx_queues' = << >> /\ tx_queues' = 0
  /\ pc' = "failed"
  /\ UNCHANGED <<held, payload, panicked, fields, leaked, loops, memory, reg, phyVars>>

\* An error is returned and the device is dropped: neither its buffers nor its
\* descriptors are given back, and the card is not told.
Fails(error) ==
  /\ result' = error
  /\ leaked' = leaked \cup BuffersOf(rx_queues)
  /\ rx_queues' = << >> /\ tx_queues' = 0
  /\ pc' = "failed"
  /\ UNCHANGED <<poolVars, fields, loops, memory, reg, phyVars>>

Aligned == \E k \in 0 .. num_descriptors : num_descriptors = 2^k

QueueNotAligned ==
  /\ \/ pc = "start_rx" /\ queue_id < num_rx_queues
     \/ pc = "start_tx" /\ queue_id < num_tx_queues
  /\ ~Aligned
  /\ Fails("QueueNotAligned")

\* A descriptor of the queue that is being started still has no buffer.
Filling ==
  /\ pc = "start_rx" /\ queue_id < num_rx_queues
  /\ Aligned
  /\ Len(rx_queues[queue_id + 1]) < num_descriptors

NoMemory ==
  /\ Filling
  /\ ~CanAlloc(InitPool)
  /\ Fails("NoMemory")

\* Fault: every descriptor gets the buffer on the stack's top, which stays there.
FillDescriptor_unpopped ==
  /\ Filling
  /\ CanAlloc(InitPool)
  /\ LET i == Len(rx_queues[queue_id + 1]) IN
       memory' = [memory EXCEPT ![queue_id][i] = [addr |-> Top(InitPool), dd |-> FALSE]]
  /\ rx_queues' = [rx_queues EXCEPT ![queue_id + 1] = Append(@, Top(InitPool)[2])]
  /\ UNCHANGED <<poolVars, fields, tx_queues, leaked, loops, pc, result, reg, phyVars>>

FillDescriptor ==
  /\ Filling
  /\ CanAlloc(InitPool)
  /\ free_stack' = Popped(InitPool)
  /\ LET i == Len(rx_queues[queue_id + 1]) IN
       memory' = [memory EXCEPT ![queue_id][i] = [addr |-> Top(InitPool), dd |-> FALSE]]
  /\ rx_queues' = [rx_queues EXCEPT ![queue_id + 1] = Append(@, Top(InitPool)[2])]
  /\ UNCHANGED <<held, payload, panicked, fields, tx_queues, leaked, loops, pc,
                 result, reg, phyVars>>

EnableRxQueue ==
  /\ pc = "start_rx" /\ queue_id < num_rx_queues
  /\ Aligned /\ ~Filling
  /\ reg' = [reg EXCEPT !.RX[queue_id].enable = Asked(@)]
  /\ pc' = "wait_rx"
  /\ UNCHANGED <<poolVars, fields, queues, loops, result, memory, phyVars>>

\* Fault: the tail is the number of descriptors.
SetRxTail_all ==
  /\ pc = "wait_rx"
  /\ reg.RX[queue_id].enable = "on"
  /\ reg' = [reg EXCEPT !.RX[queue_id] = [@ EXCEPT !.RDH = 0, !.RDT = num_descriptors]]
  /\ pc' = "start_rx" /\ queue_id' = queue_id + 1
  /\ UNCHANGED <<poolVars, fields, queues, polls, result, memory, phyVars>>

\* Fault: the tail is set before the card shows that the queue is enabled.
SetRxTail_early ==
  /\ pc = "wait_rx"
  /\ reg' = [reg EXCEPT !.RX[queue_id] = [@ EXCEPT !.RDH = 0, !.RDT = num_descriptors - 1]]
  /\ pc' = "start_rx" /\ queue_id' = queue_id + 1
  /\ UNCHANGED <<poolVars, fields, queues, polls, result, memory, phyVars>>

\* The card gets all descriptors but one.
SetRxTail ==
  /\ pc = "wait_rx"
  /\ reg.RX[queue_id].enable = "on"
  /\ reg' = [reg EXCEPT !.RX[queue_id] = [@ EXCEPT !.RDH = 0, !.RDT = num_descriptors - 1]]
  /\ pc' = "start_rx" /\ queue_id' = queue_id + 1
  /\ UNCHANGED <<poolVars, fields, queues, polls, result, memory, phyVars>>

StartRxDone ==
  /\ pc = "start_rx" /\ queue_id = num_rx_queues
  /\ pc' = "start_tx" /\ queue_id' = 0
  /\ UNCHANGED <<poolVars, fields, queues, polls, result, memory, reg, phyVars>>

StartTxQueue ==
  /\ pc = "start_tx" /\ queue_id < num_tx_queues
  /\ Aligned
  /\ reg' = [reg EXCEPT !.TX[queue_id].enable = Asked(@)]
  /\ pc' = "wait_tx"
  /\ UNCHANGED <<poolVars, fields, queues, loops, result, memory, phyVars>>

TxQueueStarted ==
  /\ pc = "wait_tx"
  /\ reg.TX[queue_id].enable = "on"
  /\ pc' = "start_tx" /\ queue_id' = queue_id + 1
  /\ UNCHANGED <<poolVars, fields, queues, polls, result, memory, reg, phyVars>>

-----------------------------------------------------------------------------
(* clear_interrupts and wait_for_link.                                     *)

SetLinkUp ==
  /\ pc = "start_tx" /\ queue_id = num_tx_queues
  /\ reg' = [reg EXCEPT !.IMS = FALSE, !.SLU = TRUE]
  /\ pc' = "wait_link" /\ polls' = 0
  /\ UNCHANGED <<poolVars, fields, queues, queue_id, result, memory, phyVars>>

PollLink ==
  /\ pc = "wait_link"
  /\ ~reg.link /\ polls < LinkPolls
  /\ polls' = polls + 1
  /\ UNCHANGED <<poolVars, fields, queues, queue_id, pc, result, memory, reg, phyVars>>

\* init returns Ok with a link or without it.
InitDone ==
  /\ pc = "wait_link"
  /\ reg.link \/ polls = LinkPolls
  /\ pc' = "done" /\ result' = "ok"
  /\ UNCHANGED <<poolVars, fields, queues, loops, memory, reg, phyVars>>

-----------------------------------------------------------------------------
(* The application.                                                        *)

\* It calls init again after a failure.
Retry ==
  /\ pc = "failed"
  /\ pc' = "start" /\ result' = "none"
  /\ UNCHANGED <<poolVars, fields, queues, loops, memory, reg, phyVars>>

Application ==
  /\ \/ \E p \in Pool, f \in Frame : AllocPkt(p, f)
     \/ \E b \in held : DropPkt(b)
  /\ UNCHANGED <<driverVars, memory, reg, phyVars>>

-----------------------------------------------------------------------------
(* The card.                                                               *)

\* The registers lose their values; which queues are enabled after a reset is
\* up to the card.  The PHY keeps its state.
ResetDone ==
  /\ reg.RST
  /\ \E Enabled \in SUBSET Queue : reg' = Registers("none", Enabled, FALSE)
  /\ mdi_busy' = FALSE
  /\ UNCHANGED <<poolVars, driverVars, memory, power_down>>

QueueEnabled ==
  /\ \/ \E i \in Queue : /\ reg.RX[i].enable = "asked"
                         /\ reg' = [reg EXCEPT !.RX[i].enable = "on"]
     \/ \E i \in Queue : /\ reg.TX[i].enable = "asked"
                         /\ reg' = [reg EXCEPT !.TX[i].enable = "on"]
  /\ UNCHANGED <<poolVars, driverVars, memory, phyVars>>

LoadShown ==
  /\ reg.CTRL_EXT = "asked"
  /\ reg' = [reg EXCEPT !.CTRL_EXT = "on"]
  /\ UNCHANGED <<poolVars, driverVars, memory, phyVars>>

\* An access to the PHY is completed.  Both operation bits together are a
\* reserved code: the card reads, writes or does nothing.
PhyAccessed ==
  /\ mdi_busy /\ ~reg.RST
  /\ mdi_busy' = FALSE
  /\ \/ /\ "OP_READ" \in reg.MDIC
        /\ reg' = [reg EXCEPT !.MDIC = (@ \ {"POWER_DOWN"})
                     \cup {"READY"} \cup (IF power_down THEN {"POWER_DOWN"} ELSE {})]
        /\ UNCHANGED power_down
     \/ /\ "OP_WRITE" \in reg.MDIC
        /\ reg' = [reg EXCEPT !.MDIC = @ \cup {"READY"}]
        /\ power_down' = ("POWER_DOWN" \in reg.MDIC)
     \/ /\ {"OP_READ", "OP_WRITE"} \subseteq reg.MDIC
        /\ reg' = [reg EXCEPT !.MDIC = @ \cup {"READY"}]
        /\ UNCHANGED power_down
  /\ UNCHANGED <<poolVars, driverVars, memory>>

LinkChanges ==
  /\ ~reg.link => reg.SLU /\ ~power_down
  /\ reg' = [reg EXCEPT !.link = ~@]
  /\ UNCHANGED <<poolVars, driverVars, memory, phyVars>>

\* The card may use the ring of receive queue i.
Receiving(i) ==
  ~reg.RST /\ reg.RXEN /\ reg.RX[i].enable = "on" /\ reg.RX[i].base = "driver"

\* A frame arrives: the card writes to the buffer at the head, and writes the
\* descriptor back.
CardReceive(i) ==
  /\ Receiving(i) /\ reg.RX[i].RDH # reg.RX[i].RDT
  /\ memory' = [memory EXCEPT ![i][reg.RX[i].RDH] = [addr |-> NoBuffer, dd |-> TRUE]]
  /\ reg' = [reg EXCEPT !.RX[i].RDH = (@ + 1) % num_descriptors]
  /\ UNCHANGED <<poolVars, driverVars, phyVars>>

-----------------------------------------------------------------------------
Driver ==
  \/ Start \/ GlobalReset \/ AfterReset \/ ReadPhy \/ WritePhy
  \/ InitRx \/ InitRxQueue \/ InitTx \/ InitTxQueue \/ InitTxDone
  \/ QueueNotAligned \/ NoMemory \/ FillDescriptor \/ EnableRxQueue
  \/ SetRxTail \/ StartRxDone \/ StartTxQueue \/ TxQueueStarted
  \/ SetLinkUp \/ PollLink \/ InitDone

Card ==
  \/ ResetDone \/ QueueEnabled \/ LoadShown \/ PhyAccessed \/ LinkChanges
  \/ \E i \in Queue : CardReceive(i)

Next == Driver \/ Card \/ Retry \/ Application

Spec == Init /\ [][Next]_vars

-----------------------------------------------------------------------------
(* Safety.                                                                 *)

\* Types.  RDT and RDH stay in the ring, whatever the card is given.
TypeOK ==
  /\ free_stack \in [Pool -> Seq(Entry)]
  /\ held \subseteq Buffer /\ leaked \subseteq Buffer /\ ~panicked
  /\ num_rx_queues \in 0 .. MaxQueues /\ num_tx_queues \in 0 .. MaxQueues
  /\ Len(rx_queues) <= num_rx_queues /\ tx_queues <= num_tx_queues
  /\ \A i \in DOMAIN rx_queues : Len(rx_queues[i]) <= num_descriptors
  /\ result \in {"none", "ok", "NoMemory", "QueueNotAligned"}
  /\ \A i \in Queue, k \in Ring : memory[i][k].addr \in Buffer \cup {NoBuffer}
  /\ \A i \in Queue : /\ reg.RX[i].base \in {"none", "foreign", "driver"}
                     /\ reg.RX[i].enable \in {"off", "asked", "on"}
                     /\ reg.RX[i].RDH \in Ring /\ reg.RX[i].RDT \in Ring
  /\ reg.CTRL_EXT \in {"off", "asked", "on"}
  /\ reg.MDIC \subseteq {"OP_READ", "OP_WRITE", "READY", "POWER_DOWN"}
  /\ mdi_busy \in BOOLEAN /\ power_down \in BOOLEAN

\* The descriptors between head and tail, as pairs of queue and index.
GivenToCard ==
  {x \in Queue \X Ring :
     /\ Receiving(x[1])
     /\ reg.RX[x[1]].RDH <= x[2] /\ x[2] < reg.RX[x[1]].RDT}

\* At every moment of the initialisation, and after a failure of it, whatever
\* the card may write a frame to is a buffer of its own, which nobody else can
\* get hold of: the receiver is enabled long before the queues have buffers,
\* and a queue that was started runs on when the next one fails.
DmaSafe ==
  /\ \A x \in GivenToCard :
       LET b == memory[x[1]][x[2]].addr
       IN  b \in Buffer /\ ~IsFree(b) /\ b \notin held
  /\ \A x, y \in GivenToCard :
       memory[x[1]][x[2]].addr = memory[y[1]][y[2]].addr => x = y

\* No entry has two owners: it is on the free stack, in a packet, in one place
\* of one queue, or lost with a queue of a device that was dropped.
OneOwner ==
  /\ OwnedOnce(BuffersOf(rx_queues) \cup leaked)
  /\ BuffersOf(rx_queues) \cap leaked = {}
  /\ \A i, j \in DOMAIN rx_queues :
       \A k \in DOMAIN rx_queues[i], l \in DOMAIN rx_queues[j] :
         rx_queues[i][k] = rx_queues[j][l] => i = j /\ k = l

\* When init returns Ok every queue is as receive_packets and send expect it:
\* enabled, with a ring of the driver, and each descriptor of a receive queue
\* that the card did not fill yet has the buffer that bufs_in_use says.
QueuesReady ==
  result = "ok" =>
    /\ reg.RXEN /\ reg.TE
    /\ Len(rx_queues) = num_rx_queues /\ tx_queues = num_tx_queues
    /\ \A i \in 0 .. num_tx_queues - 1 : reg.TX[i] = [base |-> "driver", enable |-> "on"]
    /\ \A i \in 0 .. num_rx_queues - 1 :
         /\ Receiving(i) /\ reg.RX[i].RDT = num_descriptors - 1
         /\ Len(rx_queues[i + 1]) = num_descriptors
         /\ \A k \in Ring :
              memory[i][k] = IF k < reg.RX[i].RDH
                THEN [addr |-> NoBuffer, dd |-> TRUE]
                ELSE [addr |-> <<InitPool, rx_queues[i + 1][k + 1]>>, dd |-> FALSE]

-----------------------------------------------------------------------------
(* What comments state and the code does not do.  A configuration shows it *)
(* of PhyPowersUp; of the others see the README.                           *)

\* "Panics if num_rx_queues or num_tx_queues exceeds MAX_QUEUES": init does
\* not return.
TooManyQueuesPanic ==
  num_rx_queues > MAX_QUEUES \/ num_tx_queues > MAX_QUEUES => result # "ok"

\* "Tell the PHY to power up, bit 11 is set to 0": after init_link the PHY is
\* powered up, once it has completed the access.
PhyPowersUp == pc \in {"init_rx", "done"} /\ ~mdi_busy => ~power_down

\* "Wait until the operation is completed": after init_link no access to the
\* PHY is in progress.
PhyIsWaitedFor == pc = "init_rx" => ~mdi_busy

\* "Enable interrupts": some interrupt is enabled when init returns Ok.
InterruptsEnabled == result = "ok" => reg.IMS

-----------------------------------------------------------------------------
(* Liveness.  init runs on whenever it can, and the card answers.          *)

Fairness ==
  /\ WF_vars(Driver)
  /\ WF_vars(ResetDone) /\ WF_vars(LoadShown) /\ WF_vars(QueueEnabled)
  /\ WF_vars(PhyAccessed)

FairSpec == Spec /\ Fairness

\* init returns: none of its loops waits for what does not happen, with a link
\* and without it.
InitReturns == pc = "start" ~> result # "none"
=============================================================================
