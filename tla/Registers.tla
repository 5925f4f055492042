------------------------------ MODULE Registers ------------------------------
(***************************************************************************)
(* What the driver writes to the card's registers, and where it ends up.   *)
(* RegisterMap gives the addresses.  A value is the set of its bits that   *)
(* are 1.  An action is one method of IgbDevice, or the part of one that   *)
(* programs one queue or sets one register; every write that igb.rs        *)
(* compiles to is in one of them.  The card keeps what is written at an    *)
(* address until the next reset; `believed` is what each register would    *)
(* hold if it had an address of its own.  The driver's waits, the order    *)
(* of its calls, and what the card changes by itself are in DeviceInit.    *)
(***************************************************************************)
EXTENDS RegisterMap, Integers, FiniteSets, Sequences, SequencesExt

CONSTANTS
  Queue,      \* the queues that are used
  Value,      \* values of addresses, indices and of registers after power-on
  Vector,     \* interrupt vectors
  BarSize,    \* the size of the mapped memory
  MaxCalls    \* bound: calls in a behaviour

ASSUME RegistersAssumption ==
  /\ Queue \subseteq 0 .. MAX_QUEUES - 1
  /\ \A v \in Value \cup Vector : v \subseteq 0 .. 31
  /\ \A v \in Vector : v \subseteq 0 .. 6
  /\ {BarSize, MaxCalls} \subseteq Nat

VARIABLES
  power_on,   \* what a register holds before it is written
  file,       \* address -> what was written there
  believed,   \* register -> what the driver made of it
  mask,       \* the interrupts that the card's mask lets through
  disabled,   \* the interrupts that the driver disabled
  ivars,      \* <<direction, queue>> -> the vector it was mapped to
  calls

vars == <<power_on, file, believed, mask, disabled, ivars, calls>>

Bit == 0 .. 31

R(name) == <<name, 0>>

\* get_reg32.  IMS reads as the mask.
get_reg32(r) ==
  IF r = R("IMS") THEN mask
  ELSE IF Address[r] \in DOMAIN file THEN file[Address[r]] ELSE power_on

\* set_flags32 and clear_flags32, as the write they end with.
Write(r, value) == <<r, value>>
SetFlags(r, flags) == Write(r, get_reg32(r) \cup flags)
ClearFlags(r, flags) == Write(r, get_reg32(r) \ flags)

\* The card decodes the address of a write.  IMS and IMC set and clear bits of
\* the mask, and hold nothing.
MaskPorts == {Address[R("IMS")], Address[R("IMC")]}

\* What f becomes by writes, of which f keeps the i-th at key[i]; a later one
\* replaces an earlier one.
Overwritten(f, key, writes) ==
  [x \in DOMAIN f \cup {key[i] : i \in DOMAIN key} |->
     LET to_x == {i \in DOMAIN key : key[i] = x}
     IN  IF to_x = {} THEN f[x] ELSE writes[Max(to_x)][2]]

\* A call's writes, in their order: the last to an address counts, and for a
\* bit of the mask the last to IMS or IMC that has it.  set_reg32's assertion
\* that the address is inside the mapped memory is a part of TypeOK.
Perform(writes) ==
  LET register  == [i \in DOMAIN writes |-> writes[i][1]]
      address   == [i \in DOMAIN writes |-> Address[register[i]]]
      held      == {i \in DOMAIN writes : address[i] \notin MaskPorts}
      about(b)  == {i \in DOMAIN writes \ held : b \in writes[i][2]}
  IN  /\ calls < MaxCalls
      /\ file' = Overwritten(file, [i \in held |-> address[i]], writes)
      /\ mask' = {b \in Bit : IF about(b) = {} THEN b \in mask
                              ELSE address[Max(about(b))] = Address[R("IMS")]}
      /\ believed' = Overwritten(believed, register, writes)
      /\ calls' = calls + 1
      /\ UNCHANGED power_on

Init ==
  /\ power_on \in Value
  /\ mask \in {{}, Bit}
  /\ file = <<>> /\ believed = <<>> /\ ivars = <<>>
  /\ disabled = {} /\ calls = 0

-----------------------------------------------------------------------------
\* global_reset: the reset bit is written, and when it reads as 0 again every
\* register is as after power-on, with all interrupts masked.
global_reset ==
  /\ calls < MaxCalls
  /\ file' = <<>> /\ believed' = <<>> /\ ivars' = <<>>
  /\ mask' = {}
  /\ calls' = calls + 1
  /\ UNCHANGED <<power_on, disabled>>

\* The flags that reset_and_init sets itself: that a driver is there, after the
\* reset, and in the end that the link is up, at a speed and a duplex mode of
\* its own.
FlagsOfInit == {<<R("CTRL_EXT"), {28}>>, <<R("CTRL"), {0, 6, 9, 11, 12}>>}

SetUp(r, flags) ==
  /\ Perform(<<SetFlags(r, flags)>>)
  /\ UNCHANGED <<disabled, ivars>>

\* init_link: PHY register 0 is asked for, which is ready (28) in the lower half
\* of MDIC as `data`, and is written back without the power-down bit (11).
\* Both writes only set flags, the second on what the card shows.
init_link(data) ==
  LET shown == (get_reg32(R("MDIC")) \ (0 .. 15)) \cup {21, 27, 28} \cup data
  IN  /\ Perform(<<SetFlags(R("MDIC"), {21, 27}),
                   Write(R("MDIC"), shown \cup (data \ {11}) \cup {21, 26})>>)
      /\ UNCHANGED <<disabled, ivars>>

\* What init_rx does for all queues: RXCTRL is cleared first; RXEN and BAM are
\* set when the queues are done.
InitReceiver ==
  /\ Perform(<<ClearFlags(R("RXCTRL"), {1}), Write(<<"RXPBSIZE", 0>>, {17})>>
             \o [i \in 1 .. 7 |-> Write(<<"RXPBSIZE", i>>, {})]
             \o <<SetFlags(R("HLREG0"), {1}), SetFlags(R("RDRXCTL"), {1}),
                  SetFlags(R("FCTRL"), {10}), SetFlags(R("RXCTRL"), {1, 15})>>)
  /\ UNCHANGED <<disabled, ivars>>

\* init_rx, one queue: base address, length and empty ring.
InitRxRing(q, base, length) ==
  /\ Perform(<<Write(<<"RDBAL", q>>, base), Write(<<"RDBAH", q>>, base),
               Write(<<"RDLEN", q>>, length), Write(<<"RDH", q>>, {}),
               Write(<<"RDT", q>>, {})>>)
  /\ UNCHANGED <<disabled, ivars>>

\* init_tx, one queue: the same, and the thresholds of descriptor write-back
\* (36, 8 and 4, in fields of seven bits).
InitTxRing(q, base, length) ==
  LET fields == (0 .. 6) \cup (8 .. 14) \cup (16 .. 22)
  IN  /\ Perform(<<Write(<<"TDBAL", q>>, base), Write(<<"TDBAH", q>>, base),
                   Write(<<"TDLEN", q>>, length),
                   Write(<<"TXDCTL", q>>,
                         (get_reg32(<<"TXDCTL", q>>) \ fields) \cup {2, 5, 11, 18}),
                   Write(R("DMATXCTL"), {0})>>)
      /\ UNCHANGED <<disabled, ivars>>

\* start_rx_queue and start_tx_queue.
StartRxQueue(q, last) ==
  /\ Perform(<<SetFlags(<<"RXDCTL", q>>, {25}), Write(<<"RDH", q>>, {}),
               Write(<<"RDT", q>>, last)>>)
  /\ UNCHANGED <<disabled, ivars>>

StartTxQueue(q) ==
  /\ Perform(<<Write(<<"TDH", q>>, {}), Write(<<"TDT", q>>, {}),
               SetFlags(<<"TXDCTL", q>>, {25})>>)
  /\ UNCHANGED <<disabled, ivars>>

\* The writes of receive_packets and send.
SetTail(name, q, index) ==
  /\ Perform(<<Write(<<name, q>>, index)>>)
  /\ UNCHANGED <<disabled, ivars>>

set_promisc(enabled) ==
  /\ Perform(<<IF enabled THEN SetFlags(R("FCTRL"), {8, 9})
               ELSE ClearFlags(R("FCTRL"), {8, 9})>>)
  /\ UNCHANGED <<disabled, ivars>>

-----------------------------------------------------------------------------
\* disable_interrupts with clear_interrupts, which alone, as reset_and_init calls
\* it in the end, does the same; the read of ICR clears causes,
\* which are not modelled.
disable_interrupts ==
  /\ Perform(<<Write(R("IMS"), {}), Write(R("IMC"), Bit)>>)
  /\ disabled' = Bit
  /\ UNCHANGED ivars

\* Fault: the mask is only written to IMS.
disable_interrupt_ims_only(q) ==
  /\ q \in Bit
  /\ Perform(<<Write(R("IMS"), mask \ {q})>>)
  /\ disabled' = disabled \cup {q}
  /\ UNCHANGED ivars

\* disable_interrupt with clear_interrupt.  The write to IMS has no effect:
\* a bit that is 0 there changes nothing.  1 << queue_id overflows from 32 on.
disable_interrupt(q) ==
  /\ q \in Bit
  /\ Perform(<<Write(R("IMS"), mask \ {q}), Write(R("IMC"), {q})>>)
  /\ disabled' = disabled \cup {q}
  /\ UNCHANGED ivars

\* Fault: the directions are next to each other instead of the queues.
ivar_index_one_byte(direction, q) == 8 * (q % 2) + 8 * direction

\* Fault: the queue is not reduced to its place in the register.
ivar_index_whole_queue(direction, q) == 16 * q + 8 * direction

\* The first bit of the entry of a queue: two queues share a register.
ivar_index(direction, q) == 16 * (q % 2) + 8 * direction

\* The bits of an entry, and the entry as a value of seven bits and valid (7).
IvarField(direction, q) ==
  ivar_index(direction, q) .. ivar_index(direction, q) + 7
IvarEntry(vector) == vector \cup {7}

set_ivar(direction, q, vector) ==
  LET r       == <<"IVAR", q \div 2>>
      shifted == {ivar_index(direction, q) + b : b \in IvarEntry(vector)}
  IN  /\ Perform(<<Write(r, (get_reg32(r) \ IvarField(direction, q)) \cup shifted)>>)
      /\ ivars' = [m \in {<<direction, q>>} |-> vector] \sqcup ivars
      /\ UNCHANGED disabled

-----------------------------------------------------------------------------
Next ==
  \/ global_reset \/ InitReceiver \/ disable_interrupts
  \/ \E call \in FlagsOfInit : SetUp(call[1], call[2])
  \/ \E data \in {v \cap (0 .. 15) : v \in Value} : init_link(data)
  \/ \E enabled \in BOOLEAN : set_promisc(enabled)
  \/ \E q \in Queue :
       \/ StartTxQueue(q) \/ disable_interrupt(q)
       \/ \E v \in Value :
            \/ InitRxRing(q, v, {4}) \/ InitTxRing(q, v, {4})
            \/ StartRxQueue(q, v) \/ SetTail("RDT", q, v) \/ SetTail("TDT", q, v)
       \/ \E direction \in 0 .. 1, v \in Vector : set_ivar(direction, q, v)

Spec == Init /\ [][Next]_vars

-----------------------------------------------------------------------------
(* Properties.                                                             *)

\* The registers that the driver reads and never writes: the MAC address, the
\* status, the interrupt causes and the counters.
ReadOnly ==
  {<<"RAL", 0>>, <<"RAH", 0>>, R("STATUS"), R("ICR"), R("GPRC"), R("GPTC"), R("GORCL"),
   R("GORCH"), R("GOTCL"), R("GOTCH")}

\* Every variable keeps to its type; in particular every write is to an aligned
\* word of the mapped memory.
TypeOK ==
  /\ \A a \in DOMAIN file : a % 4 = 0 /\ a \in 0 .. BarSize - 4 /\ file[a] \subseteq Bit
  /\ DOMAIN believed \subseteq Register
  /\ mask \subseteq Bit /\ disabled \subseteq Bit
  /\ DOMAIN ivars \subseteq (0 .. 1) \X Queue

\* Every register holds what the driver last made of it since the reset, and
\* what it only reads is never written: no register of a queue lies on another
\* register that is used, for all the queues that the map has room for.
ReadsBack ==
  /\ \A r \in DOMAIN believed \ {R("IMS"), R("IMC")} : get_reg32(r) = believed[r]
  /\ \A r \in ReadOnly : Address[r] \notin DOMAIN file

\* set_ivar for one queue and direction leaves every other mapping as it was,
\* although four of them share a register.
MappingsAreKept ==
  \A m \in DOMAIN ivars :
    LET field == {8 * (2 * (m[2] % 2) + m[1]) + b : b \in 0 .. 7}
        entry == {8 * (2 * (m[2] % 2) + m[1]) + b : b \in ivars[m] \cup {7}}
    IN  get_reg32(<<"IVAR", m[2] \div 2>>) \cap field = entry

\* An interrupt that was disabled stays masked, whatever else is programmed.
DisabledIsMasked == disabled \cap mask = {}

-----------------------------------------------------------------------------
(* What a comment states and the code does not do: no configuration checks *)
(* it; see the README.                                                     *)

\* "Source Address Queue Filter" (constants.rs:572), and the comments on the
\* other filters: what is written for a queue does not land in a filter.
FiltersAreNotWritten ==
  \A r \in DOMAIN believed, s \in Register :
    s[1] \in DOMAIN FilterRegisters /\ s # r => Address[s] # Address[r]
=============================================================================
