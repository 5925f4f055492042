------------------------------- MODULE PhySync -------------------------------
(***************************************************************************)
(* Synced and Semaphore of src/doc/main/phy.rs, an earlier design of the   *)
(* driver: what the ports of the card and its firmware share (PHYs, the    *)
(* EEPROM) is taken by setting bits of the register SwFwSync, and access   *)
(* to that register by the semaphore bit SWESMBI of SWSM.                  *)
(*                                                                         *)
(* Each port has a driver; all of them and the firmware see the same two   *)
(* registers.  SMBI, the other bit of SWSM, is cleared with SWESMBI and    *)
(* tested nowhere, so that it is left out.                                 *)
(***************************************************************************)
EXTENDS Naturals

CONSTANTS
  Port,          \* the ports, each with its driver
  Resource       \* what a mask can stand for: SW_EEP_SM, SW_PHY_SM0, ...

VARIABLES
  SWESMBI,       \* the driver's semaphore bit of SWSM
  FWSMBI,        \* the firmware's semaphore bit
  SwFwSync,      \* the bits that are set: <<"sw", r>> and <<"fw", r>>
  pc,            \* where each driver is
  mask,          \* the resources of its Synced, which it takes or gives back
  swfw_sync,     \* its copy of SwFwSync
  firmware       \* the resources that the firmware uses

vars == <<SWESMBI, FWSMBI, SwFwSync, pc, mask, swfw_sync, firmware>>

\* A driver has a Synced or not; the other places are in Synced::new or in its
\* drop: the semaphore's loop, the copy, the write, and the semaphore's drop.
Free == <<"no call", "free">>
Synced == <<"no call", "synced">>
Place == {Free, Synced}
           \cup ({"new", "drop"} \X {"set", "check", "read", "write", "unlock"})

sw(m) == {"sw"} \X m
fw(m) == {"fw"} \X m

Init ==
  /\ SWESMBI = FALSE /\ FWSMBI = FALSE
  /\ firmware \in SUBSET Resource
  /\ SwFwSync = fw(firmware)
  /\ pc = [p \in Port |-> Free]
  /\ mask = [p \in Port |-> {}]
  /\ swfw_sync = [p \in Port |-> {}]

Goto(p, place) == pc' = [pc EXCEPT ![p] = place]

-----------------------------------------------------------------------------
(* The drivers.                                                            *)

\* aquire_sync(mask).
aquire_sync(p, m) ==
  /\ pc[p] = Free
  /\ mask' = [mask EXCEPT ![p] = m]
  /\ Goto(p, <<"new", "set">>)
  /\ UNCHANGED <<SWESMBI, FWSMBI, SwFwSync, swfw_sync, firmware>>

\* The Synced goes out of scope.
DropSynced(p) ==
  /\ pc[p] = Synced
  /\ Goto(p, <<"drop", "set">>)
  /\ UNCHANGED <<SWESMBI, FWSMBI, SwFwSync, mask, swfw_sync, firmware>>

\* Semaphore::new writes SWSM with SWESMBI: the card sets the bit unless the
\* firmware has the semaphore.
SetSemaphore(p, call) ==
  /\ pc[p] = <<call, "set">>
  /\ SWESMBI' = (SWESMBI \/ ~FWSMBI)
  /\ Goto(p, <<call, "check">>)
  /\ UNCHANGED <<FWSMBI, SwFwSync, mask, swfw_sync, firmware>>

\* The loop ends when it reads the bit as set.
Granted == SWESMBI

CheckSemaphore(p, call) ==
  /\ pc[p] = <<call, "check">>
  /\ Goto(p, <<call, IF Granted THEN "read" ELSE "set">>)
  /\ UNCHANGED <<SWESMBI, FWSMBI, SwFwSync, mask, swfw_sync, firmware>>

\* Fault: the firmware's bits are not looked at.
Busy_software_only(bits, m) == bits \cap sw(m) # {}

\* swfw_sync.bits() & (swmask | fwmask).
Busy(bits, m) == bits \cap (sw(m) \cup fw(m)) # {}

\* Synced::new reads SwFwSync until the bits are clear, with the semaphore.
\* The drop reads it once (modify_reg).
ReadSync(p, call) ==
  /\ pc[p] = <<call, "read">>
  /\ call = "new" => ~Busy(SwFwSync, mask[p])
  /\ swfw_sync' = [swfw_sync EXCEPT ![p] = SwFwSync]
  /\ Goto(p, <<call, "write">>)
  /\ UNCHANGED <<SWESMBI, FWSMBI, SwFwSync, mask, firmware>>

\* Fault: the firmware's bits are cleared, too.
NewSync_all_bits(call, bits, m) ==
  IF call = "new" THEN bits \cup sw(m) ELSE bits \ (sw(m) \cup fw(Resource))

\* What is written back.
NewSync(call, bits, m) == IF call = "new" THEN bits \cup sw(m) ELSE bits \ sw(m)

WriteSync(p, call) ==
  /\ pc[p] = <<call, "write">>
  /\ SwFwSync' = NewSync(call, swfw_sync[p], mask[p])
  /\ Goto(p, <<call, "unlock">>)
  /\ UNCHANGED <<SWESMBI, FWSMBI, mask, swfw_sync, firmware>>

\* Fault: the bit stays set.
Unlocked_kept == SWESMBI

\* SWESMBI after Semaphore::drop.
Unlocked == FALSE

DropSemaphore(p, call) ==
  /\ pc[p] = <<call, "unlock">>
  /\ SWESMBI' = Unlocked
  /\ Goto(p, IF call = "new" THEN Synced ELSE Free)
  /\ UNCHANGED <<FWSMBI, SwFwSync, mask, swfw_sync, firmware>>

-----------------------------------------------------------------------------
(* The firmware keeps to the same protocol, from its side.                 *)

FirmwareLock ==
  /\ ~SWESMBI /\ ~FWSMBI
  /\ FWSMBI' = TRUE
  /\ UNCHANGED <<SWESMBI, SwFwSync, pc, mask, swfw_sync, firmware>>

FirmwareUnlock ==
  /\ FWSMBI
  /\ FWSMBI' = FALSE
  /\ UNCHANGED <<SWESMBI, SwFwSync, pc, mask, swfw_sync, firmware>>

FirmwareTake(r) ==
  /\ FWSMBI
  /\ ~Busy(SwFwSync, {r})
  /\ SwFwSync' = SwFwSync \cup fw({r})
  /\ firmware' = firmware \cup {r}
  /\ UNCHANGED <<SWESMBI, FWSMBI, pc, mask, swfw_sync>>

FirmwareGive(r) ==
  /\ FWSMBI
  /\ r \in firmware
  /\ SwFwSync' = SwFwSync \ fw({r})
  /\ firmware' = firmware \ {r}
  /\ UNCHANGED <<SWESMBI, FWSMBI, pc, mask, swfw_sync>>

-----------------------------------------------------------------------------
Semaphore(p, call) == SetSemaphore(p, call) \/ CheckSemaphore(p, call)
Sync(p, call) == ReadSync(p, call) \/ WriteSync(p, call) \/ DropSemaphore(p, call)

Next ==
  \/ \E p \in Port :
       \/ \E m \in (SUBSET Resource) \ {{}} : aquire_sync(p, m)
       \/ DropSynced(p)
       \/ \E call \in {"new", "drop"} : Semaphore(p, call) \/ Sync(p, call)
  \/ FirmwareLock \/ FirmwareUnlock
  \/ \E r \in Resource : FirmwareTake(r) \/ FirmwareGive(r)

Spec == Init /\ [][Next]_vars

-----------------------------------------------------------------------------
(* Properties.                                                             *)

\* A driver has its Synced from the write in Synced::new to the one in the drop.
UsingPlace ==
  {Synced, <<"new", "unlock">>} \cup ({"drop"} \X {"set", "check", "read", "write"})

Uses(p, r) == r \in mask[p] /\ pc[p] \in UsingPlace

\* Every variable keeps to its type; one side has the semaphore, and a driver
\* only in a call.
TypeOK ==
  /\ {SWESMBI, FWSMBI} \subseteq BOOLEAN /\ ~(SWESMBI /\ FWSMBI)
  /\ SWESMBI => \E p \in Port : pc[p] \notin {Free, Synced}
  /\ SwFwSync \subseteq {"sw", "fw"} \X Resource
  /\ pc \in [Port -> Place]
  /\ mask \in [Port -> SUBSET Resource]
  /\ swfw_sync \in [Port -> SUBSET ({"sw", "fw"} \X Resource)]
  /\ firmware \subseteq Resource

\* With one port: the driver and the firmware never use a resource at once.
\* Each must look at the other's bits and set its own while it has the
\* semaphore ("Driver Semaphore bit", "FW Semaphore bit", src/constants.rs:2799).
NotWithFirmware == \A p \in Port, r \in Resource : Uses(p, r) => r \notin firmware

\* No bit of SwFwSync gets lost or stays behind, although both sides read the
\* register and write all of it: it has the bits of those who use something.
BitsAreKept ==
  SwFwSync = fw(firmware) \cup UNION {sw({r \in mask[p] : Uses(p, r)}) : p \in Port}

-----------------------------------------------------------------------------
(* What a comment states and the code does not do: no configuration checks *)
(* it; see the README.                                                     *)

\* SMBI is the "Driver Semaphore bit" (src/constants.rs:2799), of the drivers of
\* several ports: no two of them use a resource at once.
OneDriver ==
  \A p, q \in Port, r \in Resource : Uses(p, r) /\ Uses(q, r) => p = q
=============================================================================
