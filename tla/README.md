# A verification project for igb-driver

`igb-driver` is a `no_std` Rust driver for the Intel 82576 network card. This
directory holds TLA+ models of it, TLC configurations that check them on small
instances, and proofs, checked by TLAPS, for instances of every size.

Paths are relative to the repository; `igb.rs:178` is `src/igb.rs`, line 178.

## 1. Inventory

| Part | State | Operations | What is hard | What must hold |
|---|---|---|---|---|
| **Packet buffer pool** `memory.rs` | `free_stack`, a LIFO of entry numbers; a `Packet` owns one entry | `alloc_buf`, `free_buf`, `alloc_pkt`, drop and clone of `Packet`, `IgbNetBuf::construct`, `MemPool::allocate` | the rings take and return entries without a `Packet`, past `free_buf`'s double-free check; the pool is shared by all queues and declared `Sync` | each entry has exactly one owner; `free_buf` never panics; no entry is lost |
| **Transmit queue** `igb.rs` | descriptors in memory, `tx_index`, `clean_index`, `bufs_in_use`, `pool` | `send`, `can_send`, `recycle_tx_buffers` | the card runs between any two statements and shares the descriptors; indices wrap; cleaning works in batches of 32 and looks at one DD bit for the whole batch | the card reads only buffers it owns; frames leave unchanged and in order; a full queue recovers |
| **Receive queue** `igb.rs` | descriptors, `rx_index`, `bufs_in_use` | `receive_packets`, `can_receive` | the callback runs in the middle of the loop; the pool may run empty in it; `RDT` moves once, at the end | the card writes only to the ring's buffers; frames are delivered unchanged, once and in order; the card gets new descriptors |
| **Device** `igb.rs` | the queues, the number of each | the `NicDevice` calls with a `queue_id` | one pool under all queues; received packets are sent on | `InvalidQueue` for every other id; queues do not disturb one another |
| **Initialisation** `igb.rs` | registers, queues built so far | `init`, `reset_and_init`, `global_reset`, `init_rx`, `init_tx`, `start_rx_queue`, `start_tx_queue` | it can fail half way (empty pool, ring size) and polls registers without bound | no DMA before the ring is programmed; what a failure leaves behind |
| **Link and PHY** `igb.rs` | `MDIC`, `CTRL`, `STATUS` | `init_link`, `wait_for_link`, `get_link_speed` | `MDIC` is written by setting bits only, and answers later | the PHY is powered up; the read is complete before its data is used |
| **Interrupts** `igb.rs`, `interrupts.rs` | interrupt masks | `disable_interrupts`, `clear_interrupts`, `disable_interrupt`, `clear_interrupt` | reset clears masks; the order in `reset_and_init` | no interrupt is enabled while there is no handler |
| **Descriptor formats** `descriptor.rs` | 16 bytes that driver and card read differently | setters and field accessors | the card overwrites what the driver wrote; exclusive bit ranges | the fields have the widths that the comments give |
| **Register map** `constants.rs` | - | address formulas of per-queue registers | blocks of high queue numbers overlap | distinct registers have distinct addresses |
| **Earlier design** `doc/main` | `SWSM`, `SwFwSync`, `MDIC`, a PHY | `open`, `power_up`, `aquire_sync`, drop of `Synced` | ports and firmware share the registers; a reset or an access that fails; `open` called again | a driver and the firmware never use a resource at once, nor do two drivers; `open` returns, and only claims what is so |
| **Hardware abstraction** `hal.rs` | - | DMA memory, waiting | implemented by the embedding system | - |

The parts interact through shared state, not messages. The application calls the
device (one call at a time per device, since every call that changes it takes
`&mut self`), and allocates and drops packets on its own, at any time. Driver and card
share the descriptor rings and the head and tail registers; the card is a
concurrent process that the driver only sees through DD bits.

The hazards of each part are listed, at their lines, in `PROJECT.json`.

## 2. Modules

| Module | What it is |
|---|---|
| `MemPool` | the pool: free stacks, the application's packets, buffer contents; `AllocPkt`, `FreeBuf`, `DropPkt`. Both queues extend it |
| `DescriptorRing` | the indices of a ring: `wrap_ring`, distances |
| `FrameFifo` | the abstract specification of a ring: a bounded FIFO of frames |
| `TxQueue` | one transmit queue with the application and the card |
| `RxQueue` | one receive queue with the application and the card |
| `IgbDevice` | several receive and transmit queues over one pool, a call at a time |
| `DeviceInit` | `init` and `reset_and_init`: registers, reset, PHY, building and starting the queues, failures and retries |
| `PacketLife` | packets: `allocate`, `alloc_pkt`, clone, received packets, writes, headroom, `construct`, drop, as byte ranges in entries |
| `PoolRace` | `alloc_buf` and `free_buf` access by access, on one thread or more |
| `StoreBuffer` | a processor whose stores reach memory late, in order or not |
| `TxOrder`, `RxOrder` | `send`, `recycle_tx_buffers` and `receive_packets` on such a processor |
| `Descriptors` | the two descriptor formats bit by bit |
| `RegisterMap` | the addresses of the registers |
| `Registers` | the calls that program registers, over `RegisterMap` |
| `PhySync` | earlier design: the semaphore and the lock that ports and firmware share |
| `IgbOpen` | earlier design: `open`, with the reset and the accesses to the PHY |
| `EarlierDesign` | `PhySync` and `IgbOpen` side by side |
| `Accesses` | `TxOrder`, `RxOrder`, `PoolRace` and `EarlierDesign` side by side: calls cut into their accesses |
| `Layouts` | `Registers` and `PacketLife` side by side: where data is laid out |
| `MCTxQueue`, `MCRxQueue`, `MCDeviceInit`, `MCIgbDevice`, `MCPoolRace`, `MCAccesses` | one of these for TLC |
| `MCLayouts` | `Layouts` and `Descriptors` for TLC |
| `PoolProofs` | lemmas about stacks of distinct entries and the pool's operations |
| `RingProofs` | lemmas about ring indices |
| `TxQueueProofs`, `RxQueueProofs` | theorems about `TxQueue` and `RxQueue`, among them that they implement `FrameFifo` |
| `DeviceInitProofs` | theorems about `DeviceInit` |
| `IgbDeviceProofs` | theorems about `IgbDevice`, and the rule for loops that `receive_packets` needs |
| `AccessesProofs` | theorems about `PhySync`, `IgbOpen`, `PoolRace` (it implements `MemPool` on one thread), `TxOrder` and `RxOrder` (late stores leave the FIFOs what they are) |
| `LayoutsProofs` | theorems about `PacketLife` and `Registers` |

`TxQueue`, `RxQueue` and `IgbDevice` extend `MemPool` and `DescriptorRing`; `DeviceInit`
extends `MemPool`. `TxQueue`, `RxQueue`, `TxOrder` and `RxOrder` instantiate `FrameFifo`
with a refinement mapping, and `PoolRace` instantiates `MemPool`. `TxOrder` and `RxOrder`
extend `StoreBuffer`; `Registers` extends `RegisterMap`.

`Accesses` and `Layouts` put models side by side that share no state. Each has variables of
its own. In `MCAccesses` and `MCLayouts`, which extend them, `part` says to which of them a behaviour belongs, and the others stay as they are
initially. So a property of one of them is violated there if and only if it is violated in that
model alone, and the states add up instead of multiplying.

The levels fit together like this. `PoolRace` shows that on one thread the pool is as
atomic as `MemPool` has it. `DeviceInit` ends where `TxQueue` and `RxQueue` start:
`QueuesReady` says that each queue is then as their `Init` has it. `TxQueue` and
`RxQueue` show that descriptors and DD bits follow from the indices and `bufs_in_use`
(`RingInOrder`, `SlotsMatch`); `IgbDevice` builds on that and leaves the descriptors
out. `TxOrder` and `RxOrder` show what the order in which stores reach memory, which `TxQueue` and
`RxQueue` take for granted, must be.

### How the models correspond to the code

*Steps.* A call is cut into steps where somebody else can observe the
difference. The card observes descriptors and tail registers; the application
observes the free stack and its packets. `send` is two steps, up to the write of
`TDT` (`SendFill`) and that write (`SendTail`); a send to a full queue is one
(`SendQueueFull`), which drops the packet, as the call owns it.
`recycle_tx_buffers` is `RecycleStart` (the local copy of `clean_index`), one
`RecycleBatch` per iteration, and `RecycleDone` (the store of `clean_index`).
`receive_packets` is `ReceiveStart`, then for every packet `Take` (fresh entry,
packet, callback) and `Rearm` (address, status, indices), then `ReceiveEnd` (all ways
out of the loop, and the write of `RDT` and `rx_index`); `EopPanic` is the panic on a
frame that spans descriptors. A call that returns `NotReady` changes nothing and is no
step. The variable `call` is the program counter; since the calls take
`&mut self`, one is enough.

*Application.* It allocates packets, writes to them, drops them and keeps them,
between any two steps, so also inside the callback.
`MaxHeld` bounds how many it allocates, not how many it receives.

*Buffers.* A buffer is a pair of a pool and an entry number and stands for the
entry's addresses. `payload` is what memory holds there; a frame is an opaque
value.

*Card* (external). It fetches descriptors from the head up to the tail, ahead
of using them (`CardFetch` copies the address into `cached`), and completes them in order.
Completion of a transmit descriptor reads the buffer at the last possible moment and then
sets DD; that of a receive descriptor writes the frame into the buffer and
overwrites the whole descriptor. The address is wiped in both cases, because the
write-back format has other fields in its place: `Rearm` has to restore it.

*Initialisation.* `pc` names the next statement of `reset_and_init` and
`queue_id` the queue that its loops are at; one step is what lies between two accesses
that the card could react to. The card's registers are a record. `MDIC` is the
set of its bits that matter, as the driver only ever adds bits to it, and of the PHY's
control register the power-down bit is kept. Of `CTRL_EXT` it is kept that the driver announced itself
(`igb.rs:584`) and that the card shows it (`LoadShown`), which is waited for next. A wait
(`wait_clear_reg32`, `wait_set_reg32`) is a guard of the step that follows it.
`FillDescriptor` is one iteration of `start_rx_queue`. The card may be running when
`init` begins (`Registers("foreign", ..)`: firmware used it, with rings of its own), and it keeps
running the started queues if `init` fails. Then `?` drops the device, which gives nothing
back: `leaked` collects the entries that are lost, and `Retry` calls `init`
again. The application uses the pool meanwhile. `init` is given any ring size,
not only powers of two, and any number of queues up to `MaxQueues`.

*Several queues.* In `IgbDevice` a call is one step, since the calls on a device follow
each other and `TxQueue` and `RxQueue` have what happens inside of them. What the card does between
two calls is in steps of its own. The callback keeps every packet of a call or drops
every one; a packet that is kept is dropped or sent later, which gives the mixtures. `send` owns its
packet: with `QueueFull` and `InvalidQueue` it is dropped, and goes back to the pool.
The loop of `receive_packets` begins with `LoopStart`, and `LoopEnd` is what as many times `Iteration` as packets are
asked for make of it; an iteration after the `break` changes nothing.

*Packets.* `PacketLife` has a packet as an entry, an offset and a length, and an entry's
memory as the data and the offset at which it starts; bytes one by one are not kept.
`touched` is the range that the last access wrote. The difference of `usize` values wraps around at
`Usize`, a stand-in for 2^64 that is larger than any size that occurs.
`Detach` is `pool_entry` and `packet_len` followed by `mem::forget`, the use that
`construct` has a meaning for. `construct` checks nothing, and of a received packet it makes one that starts
and ends a headroom later: of such packets it is called with lengths up to `ConstructMax`.

*Threads.* `PoolRace` has every load and store of the `RefCell`'s flag, the `Vec`'s length and
its slots. Only `alloc_buf` and `free_buf` are in it; the growth of the `Vec`
is not.

*Memory order.* In `TxQueue`, `RxQueue` and `IgbDevice` stores reach the card in program order.
`StoreBuffer` has the stores wait, and drains them in order (`InOrder`, as x86 does) or
in any order that keeps those to one place in order (as arm64 may). The driver
has no barrier. `Volatile` and `write_volatile` bind the compiler and not the processor.

*Descriptors.* A word is the set of its bits that are 1, so that shifts, casts and
masks are set operations. The card's write-back is a record of nine fields (`Report`), at the places that the
masks of `constants.rs` give them (`Field`), and of the bits between them (`Gaps`). Beside the status, one field, all but one,
none or all have every bit, so that each is seen with its neighbours and the gaps set and clear. Every reader is a definition
of its own.

*Registers.* `Registers` has the writes of each call in order, with the address of each
register; `believed` has what the registers would hold if no two shared an
address. A method that programs one queue is an action, so that any
two queues can meet; the flags that `reset_and_init` sets itself are `SetUp`. `IMS` and `IMC` set and clear bits of one mask.
`global_reset` clears everything, as it waits for the end of the reset. Every write that is compiled is in an
action; what the card changes by itself, and the waits for that, are in `DeviceInit`.

*Earlier design.* `doc/main` is not compiled with the driver. In `PhySync` a read and the write that
follows it are two steps wherever the firmware or another port may write in between; `SMBI` is
left out, because nothing depends on it. The firmware keeps to the same protocol,
from its side. In `IgbOpen` the card may finish a reset or not and may answer an
access with an error; writes during a reset are lost.

*Faults.* Operators whose comment begins with "Fault:" are variants of the
definition that follows them, with a mistake that could be made there. They are not
part of the specification; they show that the properties can fail.

## 3. Runs

| Run | Constants | Question and answer |
|---|---|---|
| `tx_safety` | one pool of 4, ring of 4, batch 2, two frames, 2 packets held | Does anything go wrong with buffers, indices or frames on the transmit side, for every interleaving of application, driver and card? No. Does a full queue recover, and is every frame transmitted, in order? Yes, with a ring larger than the batch. |
| `tx_jam` | ring 16 (`tests/test.rs:30`), batch 32 (`igb.rs:26`) | Is "try again later" (`lib.rs:28`) right with the sizes that the test uses? No: after 15 packets the queue is full for good, because a ring of 16 never has a batch of 32 outstanding. |
| `tx_two_pools` | two pools of 2 | Are packets of different pools refused, as the assertion at `igb.rs:342` says? No: the lines before it make it true. Packets of the first pool are in the ring when `queue.pool` becomes the second. |
| `rx_safety` | one pool of 5, ring of 4, up to 4 packets per call, long frames | Does anything go wrong with buffers and indices on the receive side? No; the only panic is the intended one. The system stops after it, so deadlock is not checked here. |
| `rx_live` | as above, without long frames | Does the callback get every frame, unchanged and in order, although the pool runs empty on the way? Yes. |
| `init_safety` | one pool of 4, rings of 2 or 3, up to 2 queues of each kind, `wait_for_link` with 2 polls | Can the card write to a buffer that is not its own, at any moment of `init`, after a failure of it, or while it is tried again? No. Is a device that `init` returns ready, with the entries that it says? Yes. Does `init` return, with a link or without one, with any error? Yes. An initialised system may stop, so deadlock is not checked here. |
| `init_phy` | as above | Is the PHY powered up after `init_link`, as `igb.rs:929` says? No: `set_flags32` ors the value without bit 11 to what `MDIC` has, so the bit stays. |
| `device` | one pool of 5, two receive queues and a transmit queue with rings of 2, batch 1 | Does an entry that passes through several queues get lost, or get two owners? No. Do two receive queues that share the only entry outside of the rings both get new descriptors? Yes. |
| `device_batch` | one pool of 6, one queue of each kind with rings of 4, batch 2 | Does a card that has run out of descriptors get new ones, although buffers wait to be cleaned? Yes, with one entry more than the ring and a part of a batch can keep. |
| `accesses` | rings of 4, batch 2, two frames, 5 entries, stores late and in order; one thread, 4 entries; one port, two resources; 3 tries, a PHY with the power-down bit and another one | Do late stores harm anything? No: frames are sent and received as they should. Do the accesses of `alloc_buf` and `free_buf` add up to the steps of `MemPool`? Yes. Do a driver and the firmware ever use a resource at once, or does a bit of `SwFwSync` get lost? No. Does `open` return, and is the PHY powered up with its other bits intact if it says so? Yes. |
| `layouts` | queues 0, 1, 2, 20 and 63, two calls; lengths 60, 1514 and 65535, fields with no bit or with all; 3 entries, up to 2 packets, sizes 0, 3000 and 4096, lengths that just fit or do not, received packets of up to 2016 bytes constructed again | Does every register keep what was written to it until the reset, does every interrupt mapping, and do disabled interrupts stay masked? Yes. Does the card read what `send` described? Yes, for lengths of 16 bits. Does each reader of a descriptor return the field of its name and nothing else? Yes, but for the field's top bit, which all but `get_packet_type` leave out. Do packets keep to their entries, and to what was written through them, through clone, detach, construct and drop? Yes, with entries no smaller than what the card writes and than a headroom with a constructed packet. |
| `pool_two_threads` | two threads, 2 entries | Does `alloc_buf` return free buffers (`memory.rs:76`) on two threads, as `Sync` (`memory.rs:294`) promises? No: `RefCell`'s flag is not atomic, and both pass it. |

Four of them expect a violation, of what a comment states and the code does not do. There is more of that kind,
for which the directory has no configuration. The property is in the module; TLC finds it
violated with the module's `Spec` (`FairSpec` for `RingsAreRefilled`) and the constants of the run, but for those named here, if deadlock is left unchecked.

| Property | Constants | What a comment states, and what the code does |
|---|---|---|
| `DeviceInit.TooManyQueuesPanic` | `init_safety`, `MAX_QUEUES = 1` | `init` panics for more queues than `MAX_QUEUES` (`igb.rs:399`). There is no such check. |
| `DeviceInit.PhyIsWaitedFor` | `init_safety` | The completion of an access to the PHY is waited for (`igb.rs:922`). `init_link` waits for a bit that the read left set. |
| `DeviceInit.InterruptsEnabled` | `init_safety` | Interrupts are enabled (`igb.rs:623`). They are cleared and disabled. |
| `IgbDevice.RingsAreRefilled` | `device_batch`, `NumEntries = 5` | Polling frees the buffers of sent packets (`lib.rs:57`). With an entry less, the last one stays in `bufs_in_use` of the transmit queue, sent, behind a batch that never gets full, and receiving stops for good. |
| `TxOrder.TxIsFifo`, `RxOrder.RxIsFifo` | `accesses`, `InOrder = FALSE`, ring of 2, batch 1, 3 entries | `send` sends a packet (`igb.rs:312`), `receive_packets` receives (`lib.rs:60`). On a processor that reorders stores, the card sees `TDT` before the descriptor, or a store of a former owner lands in a received frame. |
| `PhySync.OneDriver` | `accesses`, two ports | `SMBI` is the driver's semaphore bit (`constants.rs:2799`). Nothing tests it, and the drivers of two ports both get the semaphore, and then the same resource. `NotWithFirmware` and `BitsAreKept` fail there as well. |
| `IgbOpen.BufferSizeIsValid` | `accesses` | 4096 bytes are valid with `BSEX` (`doc/main/regs.rs:199`). `open` does not set it. |
| `PacketLife.TooLargeIsRefused` | `layouts`, entries of 16 bytes | `alloc_pkt` refuses what does not fit (`memory.rs:260`). With entries smaller than the headroom the subtraction wraps around. |
| `PacketLife.AllocatePanics` | `layouts` | `allocate` panics if the size is no divisor (`memory.rs:38`). It returns an error. |
| `PacketLife.ConstructGivesBack` | `layouts` | `construct` gives the packet of an entry back (`igb.rs:113`). Received packets have no headroom, and it assumes one: the bytes are others. |
| `PacketLife.AccessInEntry` | `layouts`, `ConstructMax = 2048` | The same. A received packet of 2048 bytes that is constructed again reaches into the next entry. |
| `PacketLife.AccessInEntry` | `layouts`, `EntrySizes = {1024}`, `Length = {992, 2048}` | A frame larger than a buffer is detected (`igb.rs:265`). Nobody tells the card the size of the buffers. |
| `Descriptors.PacketIsDescribed` | `layouts`, a length of 66000 (`{4, 6, 7, 8, 16}`) | The length of the packet is described (`descriptor.rs:198`). It is cut to 16 bits. |
| `Descriptors.FieldsAreRead` | `layouts` | The tag has 16 bits (`descriptor.rs:147`). `get_vlan_tag` returns 15, and all other readers but `get_packet_type` leave out the top bit of their field too: a length of 32768 or more is not read as it is. |
| `Descriptors.PrematureDmaIsHarmless` | `layouts` | DMA before the buffers are set is prevented (`igb.rs:698`). Descriptors have address 0 and not all ones. |
| `Registers.FiltersAreNotWritten` | `layouts` | `SAQF` is a filter (`constants.rs:572`). The transmit rings were moved to the addresses of the filters. |

*Why the bounds are enough.* A ring of 4 wraps, has laps, and can be full (3),
empty, and partly cleaned; a batch of 2 leaves a remainder (3 = 2 + 1), so both
branches of the `drain` occur, and the batch crosses the end of the ring's
numbering. A pool of 4 (transmit) or of one more than the ring (receive) runs
empty. Two frames are enough to see a
frame altered, repeated or out of order, as the models treat frames alike. Calls
with more packets asked for than the ring has are included on the receive side.
`QS` is a power of two everywhere: `start_rx_queue` and `start_tx_queue` refuse
other sizes. The code's batch divides its ring whenever the ring is larger than it;
the proofs do not need that.
In `DeviceInit` two queues are enough to have one that runs while the next one
fails; a pool of 4 serves two queues with rings of 2 if the application holds nothing, and
runs out in the first or in the second one if it does or if an earlier call failed; 3 is a
size that is refused. `MAX_QUEUES` only occurs in a property there.

In `device` rings of 2 with batches of 1 let three queues be checked together. A batch that stays
unfinished needs rings of 4, and so one queue of each kind in `device_batch`; the remainder of a batch in
one call is in `tx_safety`. A pool of 5 is two rings and an entry to work with; one of 6 is a ring of 4, a
batch of 2 less one, and one to work with. A call takes up to two packets in `device`, and one in `device_batch`. Frames do not matter there.
`PoolRace` needs a stack that runs empty and an entry that
can be freed twice; the `Vec` gets longer than the pool only if threads race.
In `PacketLife` two packets at once are one and its clone, or two that have nothing in common; with three
entries one more can be taken apart, so that the pool runs empty with packets in use. Lengths of 2016 and 2048 are the largest packet of 2048 bytes with a headroom and
without. `Registers` has a queue of each part of a piecewise address formula, two that share an `IVAR`
register, and the last one. Two calls are enough, since each writes
registers by itself and the properties compare what two calls did.
`layouts` ends after the calls, and the application of `PacketLife` may stop with an error or with all
packets made, so deadlock is not checked there. It is not checked in `accesses` either, because calls of
`Synced::new` do stop if the firmware uses what is asked for: they wait with the semaphore that the
firmware needs to give the resource back. Nor is it in `pool_two_threads`, which stops after a panic.

*Fairness.* `tx_safety` and `rx_live` assume that a started call runs to its end
(it has no blocking statement), that the card works off the descriptors it was
given, and that the application keeps polling `recycle_tx_buffers` and
`receive_packets`, as the driver has no other way of making progress.
The receive side also assumes that no packet is kept forever, since
`receive_packets` needs a free entry for each packet; and polling is *strongly*
fair there, because an application may ask for zero packets in between. Nothing is
assumed about the arrival of frames or about sending.
`init_safety` assumes that `init` runs on when it can, and that the card completes a
reset, shows that the driver announced itself (`igb.rs:585`), and completes the start of a queue and an access to the PHY. It does not assume that a
link ever comes up.
`device` and `device_batch` assume that the card transmits, that the two calls are polled
(`receive_packets` strongly fairly, as above), and that the application sends or drops
every packet. `accesses` assumes that `open` runs on and that the card answers accesses to
the PHY; not that it finishes a reset.

## 4. Proofs

Every theorem is about the `Spec` of the model it names and for all values of its constants that satisfy
the model's assumptions: ring sizes that are powers of two (`DeviceInit`, where other sizes are refused, has
any), any number of entries, frames, packets, ports and queues, in `TxQueue` any batch, smaller
than the ring or not, and in `TxOrder` any that is smaller than the ring. The assumptions are `RingAssumption`, `PoolAssumption`, `TxAssumption`, `RxAssumption`,
`DeviceAssumption`, `ThreadAssumption`, `OpenAssumption`, `TxOrderAssumption`, `RxOrderAssumption`,
`PacketAssumption`, `MapAssumption` and `RegistersAssumption`. `RxAssumption`, `RxOrderAssumption` and that of `IgbDevice` include
that the pool had an entry for each receive descriptor, without which `start_rx_queue` fails; that of `IgbDevice`,
that a batch fits into the ring, without which nothing is ever cleaned (`tx_jam`). Six
hypotheses say more than that. Something like each of them is needed, and for five of them TLC shows what goes wrong without it:

| Hypothesis | Where | Without it |
|---|---|---|
| `OnePool`: all packets come from one pool | `TxQueueProofs` but `TypeCorrect` | `tx_two_pools` |
| `OneThread` | `AccessesProofs` on `PoolRace` | `pool_two_threads` |
| `OnePort` | `AccessesProofs` on `PhySync` but `TypeCorrect` | `NotWithFirmware` and `BitsAreKept` fail with two ports (section 3) |
| `InOrder = TRUE`: stores reach memory in program order | `AccessesProofs` on `TxOrder` and `RxOrder` | `TxIsFifo` and `RxIsFifo` fail (section 3) |
| `RoomInEntries`: entries are no smaller than what the card writes, and than a headroom with the longest received packet that is constructed again | `LayoutsProofs` on `PacketLife` | `TooLargeIsRefused` and `AccessInEntry` fail (section 3) |
| `RoomForQueues`: `MAX_QUEUES` is 64 (`igb.rs:19`) or less | `LayoutsProofs` on `Registers` | receive ring 128 would have the addresses of transmit ring 0; 64 is the code's number |

| Module | Theorems |
|---|---|
| `TxQueueProofs` | `TypeCorrect`, `NeverPanics`, `BuffersHaveOneOwner`, `DmaIsSafe`, `RingStaysInOrder`, `SlotsStayMatched`, `TransmitsInOrder` (`Spec => Fifo!Spec`) |
| `RxQueueProofs` | `TypeCorrect`, `BuffersHaveOneOwner`, `DmaIsSafe`, `DoubleFreeNeverFires`, `RingStaysInOrder`, `SlotsStayMatched`, `DeliversInOrder` (`Spec => Fifo!Spec`) |
| `IgbDeviceProofs` | `TypeCorrect`, `OneOwnerHolds`, `CountedHolds` |
| `DeviceInitProofs` | `Invariance`, `TypeCorrect`, `OneOwnerHolds`, `DmaIsSafe`, `QueuesAreReady` |
| `AccessesProofs` | on `PhySync`: `TypeCorrect`, `NoneUsedWithFirmware`, `NoBitIsLost`, `CopyStaysFresh`; on `IgbOpen`: `OpenTypeCorrect`, `PhyIsPoweredUpAfterOpen`; on `PoolRace`: `RaceTypeCorrect`, `PoolNeverPanics`, `ImplementsPool` (`Race!Spec => ImplementsMemPool`); on `TxOrder`: `TxOrderTypeCorrect`, `TransmitsInOrder` (`Tx!Spec => TxIsFifo`); on `RxOrder`: `RxOrderTypeCorrect`, `ReceivesInOrder` (`Rx!Spec => RxIsFifo`); on all five: `AllTypesCorrect` |
| `LayoutsProofs` | on `PacketLife`: `AccessStaysInEntry`, `PacketAlwaysReadsBack`; on `Registers`: `UsedApart`, `RegistersReadBack`, `MappingsStay`, `DisabledStaysMasked` |

Each invariant was checked by TLC, on the constants of a run, before it was proved.

### The arguments

*Transmit queue.* None of the safety properties is inductive: that a buffer in
flight is not free depends on the DD bit that `recycle_tx_buffers` reads being
of the current lap, and that on the order of five indices. The invariant `Inv` counts all indices
from the cleaner's (`CleanIndex`, the local copy while
`recycle_tx_buffers` runs): transmitted <= fetched <= handed over <= filled
(`RingInOrder`), `bufs_in_use` has one entry per filled descriptor, and a
descriptor in flight has DD clear and the address of the entry at its place
(`SlotsMatch`). A batch whose last DD bit is set therefore ends before the first
descriptor in flight. Ownership is carried through each step by lemmas about the pool
in `PoolProofs`, which say what popping, pushing and appending do to sets of
distinct entries. `tx_safety` checks each part of `Inv` as well.

*Receive queue.* Here the ring is always full of buffers, and what
has to be shown is that those between `receive_packets`' index and `RDT` are the ones it
thinks they are. Indices are counted from the stored `rx_index`, from which `RDT` is
always QS - 1 away: local index <= written back <= fetched <= `RDT` (`RingInOrder`,
which also says that `last_rx_index` is the descriptor before the local index,
unless nothing was taken yet). The descriptors from the local index to the card's
(`Waiting`) are exactly those with DD set; all others, and
all cached addresses, have the address of the entry in `bufs_in_use`
(`SlotsMatch`). `Take` changes the entry of a waiting descriptor only, `Rearm`
ends its waiting after it restored the address, and `ReceiveEnd` moves the origin
of the counting, for which `DistanceShift` in `RingProofs` says that it changes no
order. `rx_safety` checks each part of `Inv` as well.

*Both queues are FIFOs.* The refinement maps the FIFO's content to `PendingFrames`: what the buffers hold, in the
order of the ring, between the card and the sender, or between the callback and
the card. On the transmit side `SendFill` is the FIFO's put and `CardTransmit` its take; on the receive side
`CardReceive` is the put and `Take` the take. Every other step stutters, which
is the larger part of the proof: a step may change indices, recycle entries, and write to packets of the
application, but no buffer of a pending frame. That is where `OneOwner` and `SlotsMatch` come in.
`Inv` lacks one fact, `Fetched`: descriptors that the card fetched and has not completed have an address in its
cache. A take is the one at the front because `Nth(k)`, the place of the k-th frame, moves by one
when the origin does (`DistanceAhead`, `DistanceAheadNext`). That the FIFO never overflows (`Capacity` is QS - 1) is
a part of it.

*Several queues.* `Inv` of `IgbDeviceProofs` has the types, `Counted` (a transmit ring has as many entries as its indices
say, and the card is behind the sender), and `Owners`: the entries are partitioned between the pool, the packets and the
rings, no two rings share one, and no stack or ring has one twice. That is what `OneOwner` says by counting places,
in a form that a step that moves entries can be followed in. A call of
`receive_packets` is a loop in one step, so its invariant needs one of its own: `Dividing(E)` says that the entries the
call found in the pool and in its ring stay divided between these and the packets given. `LoopRule` says that the loop keeps what each iteration
keeps. The library's induction cannot be used here, but its `WFMin` can: a set of
numbers has a least one (`LeastNumber`), and the first iteration that breaks the invariant would be a contradiction
(`FiniteInduction`). `IterationsExist` shows in the same way that the list of iterations in `LoopEnd` is a function at all.

*Initialisation.* `Inv` of `DeviceInitProofs` says, for each `pc`, how many queues are built and started
(`Progress`), which registers are programmed (`Programmed`), what the descriptors of built queues hold
(`Filled`), that the rings of a device that was dropped hold lost buffers only, as long as the card was not reset
(`LeftBehind`), and who owns what (`Owners`). `DmaSafe` follows from the last three: what lies
between head and tail is either of a built queue, and in its `bufs_in_use`, or lost. `QueuesReady` follows from the first
three with `pc = "done"`.

*The pool on one thread.* `RaceInv` says where the thread is in its call and what it knows there (`At`): from `borrow_mut`
on the flag is its own, the length it has read is the current one, and the entry it takes is in nobody's hands.
`Implements` goes through the accesses: the store of the length in `pop` is the allocation (`PopIsAlloc`), that in `push`
is the drop (`PushIsDrop`), and every other access changes nothing that `MemPool` has.

*The semaphore.* `NotWithFirmware` and `BitsAreKept` alone are not inductive, since nothing in them stops the firmware from
changing `SwFwSync` between a driver's read and its write. `Inv` of `AccessesProofs` adds that a driver that read
the semaphore as its own has it until its drop (`LockHeld`), so that the
driver's copy is up to date when it is written back (`CopyIsFresh`). It has `BitsAreKept` bit by bit
(`BitsMatch`, equivalent by `BitByBit`).

*open.* `OpenInv` says that while `open` does not wait for the PHY no access is under way that the
card might still answer (`Quiet`), that no reset is once it does (`ResetIsOver`), and that an answer
therefore is the one to the access that `open` started (`AccessIsOwn`).

*Late stores.* What the card finds in memory is not what the driver last stored there, and `TxInv` and `RxInv` say
which of the stores may be late, and when. A late store is to a descriptor that the card does not see yet, before the
tail that it reads (`TxLate`, `RxLate`). A late store of the tail gives it no descriptor of which a store is later still
(`TxTailLast`, `RxTailLast`); this is where the order of stores comes in, and where it fails without. So what is not late is in
memory (`TxArrived`, `RxArrived`), and what the card fetched was complete (`TxFetched`, `RxFetched`). With that a drained store is a
stutter of the FIFO, and a completed descriptor is its put or take. Two things make the receive side harder. A store
that is late may be to the *buffer*: an application wrote to a packet and dropped it, and the buffer is in the ring again.
`RxLate` and `RxTailLast` therefore cover the payload of a descriptor's buffer too, and `RxFilled` has what the card wrote
there last. And `receive_packets` moves the index that all others are counted from. The DD bit that a call reads is the
driver's own last store, if that is still late, or else what memory holds.

*Packets.* `PacketInv` has, besides the types, that packets end inside their entries and start behind a headroom unless the
card filled them (`Sized`), that an entry is free, or of one packet, or of one that was taken apart (`Apart`), and that it has
what was last written through its packet, at the offset where that packet reads, unless `construct` has moved the packet and nothing was
written since (`AllKnown`). None of the
three holds alone: `construct` is right because a packet that was taken apart keeps its entry, `clone`
because the copy's entry was free, and both keep to the entry because it has room for the headroom.

*Registers.* That a call changes the registers it means and no others comes down to `UsedApart`: two registers that
`igb.rs` uses never share an address. Each kind lies in an interval of its own, which `InPlace` gives, the registers of
receive and of transmit rings among them; within a kind the stride separates the queues. A reset keeps all of the invariant,
as it clears what was written, what is believed, the mappings and the mask together. `Kept` then says that the file and what the driver believes
agree register by register, and `RegInv` adds that an `IVAR` register holds the mappings of all
its queues and that nothing disabled is unmasked.

### What is only model-checked

- Liveness, which is out of the prover's reach: `FullQueueRecovers`, `RingsAreRefilled`, `InitReturns`, `OpenReturns`,
  and the fair part of `TxIsFairFifo` and `RxIsFairFifo`. Their safety part is `TransmitsInOrder` and `DeliversInOrder`.
- `ReportIsRead` and `PacketIsDescribed`, about the fields of a descriptor. They are about a fixed number of bits, and the
  prover would have to go through them as `layouts` does, which has each field of the report with no bit and with all of them,
  its neighbours and the gaps beside it clear and set, and the lengths 60, 1514 and 65535 in what is sent.
- `LayoutsTypeOK`, which includes the types of `Descriptors`.
- The runs that expect a violation.

## 5. Plan

Done: all modules above, and the theorems of section 4. What could be added:

1. A theorem that says of `Descriptors` what `layouts` checks, for every value of every field: since the readers act bit by bit,
   it comes down to which bit goes where.
2. A composition of `TxOrder` and `RxOrder` with `IgbDevice`: late stores of several queues over one pool.

## 6. Not modelled

The interrupt functions of the `irq` feature (`igb.rs:457-534`) are never
compiled: `Cargo.toml` declares no such feature, and the constants they use are
commented out. Of `constants.rs` the addresses of registers are modelled; the rest,
two thirds of it, are masks and numbers for related chips that no code uses. Statistics, the MAC address
and `hal.rs` hold no state of the driver. Of `doc/main`, the rings are allocated and nothing
more, and `status` and `mac` only read registers; `igb_bak.rs` is a first attempt at
a reset, which `IgbOpen` has in its later form. The order in which an application on several threads calls a device is
not modelled, since Rust does not permit it (`&mut self`); what it does permit is in `PoolRace`.
