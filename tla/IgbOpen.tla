------------------------------- MODULE IgbOpen -------------------------------
(***************************************************************************)
(* Igb::open of src/doc/main/igb.rs, the earlier design of the driver, with *)
(* power_up and the accesses to the PHY of phy.rs and wait_for of regs.rs. *)
(*                                                                         *)
(* Unlike the driver in src/src it waits for a reset with a bound, gives   *)
(* up on an error of the PHY, and writes MDIC whole.  It may be called     *)
(* again, after an error or not.  A register is the set of its bits that   *)
(* are 1.                                                                  *)
(***************************************************************************)
EXTENDS Naturals, FiniteSets

CONSTANTS
  TryCount,      \* how often open's wait_for looks at CTRL
  PhyBit         \* the bits of the PHY's control register that are modelled

\* 0x0800.
MII_CR_POWER_DOWN == {11}

OpenAssumption ==
  /\ TryCount \in Nat \ {0}
  /\ MII_CR_POWER_DOWN \subseteq PhyBit /\ PhyBit \subseteq 0 .. 15

VARIABLES
  pc,            \* where open is; "closed" before, or after an error; "opened"
  result,        \* what the last call of open returned
  tries,         \* of wait_for
  CTRL, CTRL_EXT, RCTL, TCTL, EIMS,
  MDIC,          \* its operation, its data, READY and E
  mii_reg,       \* what read_mdic returned
  phy,           \* the PHY's control register
  phy_before     \* history: what it was when open was called

registers == <<CTRL, CTRL_EXT, RCTL, TCTL, EIMS>>
vars == <<pc, result, tries, registers, MDIC, mii_reg, phy, phy_before>>

CTRL_RST == {26}
CTRL_UP == {6, 0, 9, 12, 11}         \* SLU, FD, SPD_1000, FRCDPX, FRCSPD
DRV_LOAD == {28}
RXEN == {1}
SZ_4096 == {16, 17}
BSEX == {25}
TCTL_EN == {1}

Idle == [op |-> "none", data |-> {}, READY |-> FALSE, E |-> FALSE]

\* Someone else used the card: its receiver may be on, its interrupts enabled,
\* and MDIC tell of another access.
Init ==
  /\ pc = "closed" /\ result = "none" /\ tries = 0
  /\ CTRL = {} /\ CTRL_EXT = {} /\ TCTL = {}
  /\ RCTL \in {{}, RXEN} /\ EIMS \in {{}, {0}}
  /\ phy \in SUBSET PhyBit
  /\ MDIC \in {Idle, [op |-> "read", data |-> {}, READY |-> TRUE, E |-> FALSE]}
  /\ mii_reg = {} /\ phy_before = phy

\* The call ends with an error.
Return(error) == /\ pc' = "closed"
                 /\ result' = error

-----------------------------------------------------------------------------
(* open.                                                                   *)

\* A write to a register is lost while the card resets itself.
Written(register, value) == IF CTRL \cap CTRL_RST # {} THEN register ELSE value

\* disable_interrupts (EIMS is 0, EIMC all ones), and the reset.
Open ==
  /\ pc \in {"closed", "opened"}
  /\ EIMS' = Written(EIMS, {})
  /\ CTRL' = CTRL_RST
  /\ tries' = 0
  /\ phy_before' = phy
  /\ pc' = "reset" /\ result' = "none"
  /\ UNCHANGED <<CTRL_EXT, RCTL, TCTL, MDIC, mii_reg, phy>>

\* Fault: the tries are not counted.
TriesDone_uncounted == tries

TriesDone == tries + 1

TriesLeft == TriesDone < TryCount

\* wait_for: the bit is still set.
WaitReset ==
  /\ pc = "reset"
  /\ CTRL \cap CTRL_RST # {}
  /\ IF TriesLeft
       THEN tries' = TriesDone /\ UNCHANGED <<pc, result>>
       ELSE Return("Timeout") /\ UNCHANGED tries
  /\ UNCHANGED <<registers, MDIC, mii_reg, phy, phy_before>>

\* Fault: a read or a write is started with the bits of the last access.
Access_or_bits(op, data) == [MDIC EXCEPT !.op = op, !.data = @ \cup data]

\* What the driver writes to MDIC to start an access: no READY, no E.
Access(op, data) == [op |-> op, data |-> data, READY |-> FALSE, E |-> FALSE]

\* The reset is done: disable_interrupts, DRV_LOAD, and read_mdic's write.
Configure ==
  /\ pc = "reset"
  /\ CTRL \cap CTRL_RST = {}
  /\ EIMS' = {}
  /\ CTRL_EXT' = CTRL_EXT \cup DRV_LOAD
  /\ MDIC' = Access("read", {})
  /\ pc' = "read_mdic"
  /\ UNCHANGED <<result, tries, CTRL, RCTL, TCTL, mii_reg, phy, phy_before>>

\* power_up: mii_reg &= !MII_CR_POWER_DOWN.
PoweredUp(bits) == bits \ MII_CR_POWER_DOWN

\* read_mdic ends its loop, and write_mdic begins.
ReadDone ==
  /\ pc = "read_mdic"
  /\ MDIC.READY
  /\ mii_reg' = PoweredUp(MDIC.data)
  /\ MDIC' = Access("write", mii_reg')
  /\ pc' = "write_mdic"
  /\ UNCHANGED <<result, tries, registers, phy, phy_before>>

\* open's ? after power_up.
AfterError == Return("Unknown")

MdicError ==
  /\ pc \in {"read_mdic", "write_mdic"}
  /\ ~MDIC.READY /\ MDIC.E
  /\ AfterError
  /\ UNCHANGED <<tries, registers, MDIC, mii_reg, phy, phy_before>>

\* write_mdic ends its loop; init_rx disables the receiver.
WriteDone ==
  /\ pc = "write_mdic"
  /\ MDIC.READY
  /\ RCTL' = {}
  /\ pc' = "init_rx"
  /\ UNCHANGED <<result, tries, CTRL, CTRL_EXT, TCTL, EIMS, MDIC, mii_reg, phy,
                 phy_before>>

\* The rest: Ring::init does nothing yet, nor do init_stat and
\* enable_interrupts.
InitRings ==
  /\ pc = "init_rx"
  /\ RCTL' = RXEN \cup SZ_4096
  /\ TCTL' = TCTL_EN
  /\ CTRL' = CTRL_UP
  /\ pc' = "opened" /\ result' = "Ok"
  /\ UNCHANGED <<tries, CTRL_EXT, EIMS, MDIC, mii_reg, phy, phy_before>>

-----------------------------------------------------------------------------
(* The card.                                                               *)

\* The reset clears every register and ends an access to the PHY, but leaves
\* the PHY as it is.
CardReset ==
  /\ CTRL \cap CTRL_RST # {}
  /\ CTRL' = {} /\ CTRL_EXT' = {} /\ RCTL' = {} /\ TCTL' = {} /\ EIMS' = {}
  /\ MDIC' = Idle
  /\ UNCHANGED <<pc, result, tries, mii_reg, phy, phy_before>>

\* An access ends, with READY, or with E.
Answer ==
  /\ MDIC.op # "none" /\ ~MDIC.READY /\ ~MDIC.E
  /\ \/ /\ MDIC' = [MDIC EXCEPT !.READY = TRUE,
                                !.data = IF MDIC.op = "read" THEN phy ELSE @]
        /\ phy' = IF MDIC.op = "write" THEN MDIC.data ELSE phy
     \/ /\ MDIC' = [MDIC EXCEPT !.E = TRUE]
        /\ UNCHANGED phy
  /\ UNCHANGED <<pc, result, tries, registers, mii_reg, phy_before>>

-----------------------------------------------------------------------------
Driver == Open \/ WaitReset \/ Configure \/ ReadDone \/ MdicError \/ WriteDone \/ InitRings
Card == CardReset \/ Answer

Next == Driver \/ Card

Spec == Init /\ [][Next]_vars

\* open runs on, and the card answers every access to the PHY in one way or
\* the other, but may never finish a reset.
Fairness ==
  /\ WF_vars(WaitReset \/ Configure \/ ReadDone \/ MdicError \/ WriteDone \/ InitRings)
  /\ WF_vars(Answer)

FairSpec == Spec /\ Fairness

-----------------------------------------------------------------------------
(* Properties.                                                             *)

\* Every variable keeps to its type; the tries to their bound.
TypeOK ==
  /\ pc \in {"closed", "reset", "read_mdic", "write_mdic", "init_rx", "opened"}
  /\ result \in {"none", "Ok", "Timeout", "Unknown"}
  /\ tries \in 0 .. TryCount - 1
  /\ \A register \in {CTRL, CTRL_EXT, RCTL, TCTL, EIMS} : register \subseteq 0 .. 31
  /\ MDIC.op \in {"none", "read", "write"} /\ {MDIC.READY, MDIC.E} \subseteq BOOLEAN
  /\ {MDIC.data, mii_reg, phy, phy_before} \subseteq SUBSET PhyBit

\* When open returns without an error, the PHY is powered up, with its other
\* bits as they were: neither an answer to another access, nor a reset or an
\* error in between, nor what open did before, is taken for this access.
PhyIsPoweredUp == result = "Ok" => phy = phy_before \ MII_CR_POWER_DOWN

\* open returns, also from a card that never finishes its reset.
OpenReturns == (pc = "reset") ~> (pc \in {"closed", "opened"})

-----------------------------------------------------------------------------
(* What a comment states and the code does not do: no configuration checks *)
(* it; see the README.                                                     *)

\* "Rx buffer size 4096" (doc/main/regs.rs:202), which is "valid if
\* E1000_RCTL_BSEX is 1" (doc/main/regs.rs:199), when the receiver is on.
BufferSizeIsValid == (result = "Ok" /\ SZ_4096 \subseteq RCTL) => BSEX \subseteq RCTL
=============================================================================
