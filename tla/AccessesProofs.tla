---------------------------- MODULE AccessesProofs ----------------------------
(***************************************************************************)
(* Theorems about the models of Accesses.  PhySync: with one port, the     *)
(* driver and the firmware never use a resource at once and never lose a   *)
(* bit of SwFwSync.  IgbOpen: however often open fails, it succeeds only   *)
(* with a PHY that is powered up.  PoolRace: on one thread the accesses of *)
(* alloc_buf and free_buf add up to the atomic operations of MemPool.      *)
(* TxOrder and RxOrder: if stores arrive in program order, the rings are   *)
(* first-in first-out queues of frames.                                    *)
(***************************************************************************)
EXTENDS Accesses, RingProofs, FiniteSetTheorems, SequenceTheorems,
        WellFoundedInduction, TLAPS

\* The card has one port.  With two of them TLC finds NotWithFirmware
\* and BitsAreKept violated.
OnePort == \A p, q \in Port : p = q

\* BitsAreKept, bit by bit.
BitsMatch ==
  \A r \in Resource :
    /\ <<"fw", r>> \in SwFwSync <=> r \in firmware
    /\ <<"sw", r>> \in SwFwSync <=> \E p \in Port : Uses(p, r)

\* A driver that read the semaphore as its own has it until it drops it.
LockHeld ==
  \A p \in Port :
    pc[p] \in {"new", "drop"} \X {"read", "write", "unlock"} => SWESMBI

\* What a driver read from SwFwSync is still there when it writes the register,
\* and a resource that it found free was not taken meanwhile.
CopyIsFresh ==
  \A p \in Port, c \in {"new", "drop"} :
    pc[p] = <<c, "write">> =>
      /\ swfw_sync[p] = SwFwSync
      /\ c = "new" => ~Busy(SwFwSync, mask[p])

\* The inductive invariant: the semaphore keeps the copy fresh, the fresh copy
\* keeps the bits, and the bits keep the resources apart.
Inv == TypeOK /\ LockHeld /\ CopyIsFresh /\ BitsMatch /\ NotWithFirmware

-----------------------------------------------------------------------------
(* Types, for any number of ports.                                         *)

\* Types hold initially: no driver has asked for anything.
LEMMA TypeInit == Init => TypeOK
BY DEF Init, TypeOK, Free, Place, fw

\* One action of a driver keeps the types.
LEMMA DriverType ==
  ASSUME TypeOK, NEW p \in Port, NEW c \in {"new", "drop"},
         \/ \E m \in (SUBSET Resource) \ {{}} : aquire_sync(p, m)
         \/ DropSynced(p)
         \/ Semaphore(p, c)
         \/ Sync(p, c)
  PROVE  TypeOK'
<1> USE DEF TypeOK, Goto, Place, Free, Synced
<1>1. ASSUME NEW m \in (SUBSET Resource) \ {{}}, aquire_sync(p, m)
      PROVE  TypeOK'
  BY <1>1 DEF aquire_sync
<1>2. CASE DropSynced(p)
  BY <1>2 DEF DropSynced
<1>3. CASE SetSemaphore(p, c)
  BY <1>3 DEF SetSemaphore
<1>4. CASE CheckSemaphore(p, c)
  BY <1>4 DEF CheckSemaphore, Granted
<1>5. CASE ReadSync(p, c)
  BY <1>5 DEF ReadSync
<1>6. CASE WriteSync(p, c)
  BY <1>6 DEF WriteSync, NewSync, sw
<1>7. CASE DropSemaphore(p, c)
  BY <1>7 DEF DropSemaphore, Unlocked
<1> QED
  BY <1>1, <1>2, <1>3, <1>4, <1>5, <1>6, <1>7 DEF Semaphore, Sync

\* An action of the firmware keeps the types.
LEMMA FirmwareType ==
  ASSUME TypeOK,
         \/ FirmwareLock \/ FirmwareUnlock
         \/ \E r \in Resource : FirmwareTake(r) \/ FirmwareGive(r)
  PROVE  TypeOK'
<1>1. CASE FirmwareLock \/ FirmwareUnlock
  <2>1. /\ FWSMBI' \in BOOLEAN
        /\ ~(SWESMBI /\ FWSMBI')
        /\ UNCHANGED <<SWESMBI, SwFwSync, pc, mask, swfw_sync, firmware>>
    BY <1>1 DEF FirmwareLock, FirmwareUnlock
  <2> QED
    BY <2>1 DEF TypeOK
<1>2. ASSUME NEW r \in Resource, FirmwareTake(r) \/ FirmwareGive(r)
      PROVE  TypeOK'
  <2>1. fw({r}) \subseteq {"sw", "fw"} \X Resource
    BY DEF fw
  <2>2. /\ SwFwSync' \subseteq {"sw", "fw"} \X Resource
        /\ firmware' \subseteq Resource
        /\ UNCHANGED <<SWESMBI, FWSMBI, pc, mask, swfw_sync>>
    BY <1>2, <2>1 DEF TypeOK, FirmwareTake, FirmwareGive
  <2> QED
    BY <2>2 DEF TypeOK
<1> QED
  BY <1>1, <1>2

\* Every step keeps the types.
LEMMA TypeStep == TypeOK /\ [Next]_vars => TypeOK'
<1> SUFFICES ASSUME TypeOK, [Next]_vars PROVE TypeOK'
  OBVIOUS
<1>1. CASE UNCHANGED vars
  BY <1>1 DEF TypeOK, vars
<1>2. CASE Next
  BY <1>2, DriverType, FirmwareType DEF Next
<1> QED
  BY <1>1, <1>2

\* Semaphore, register and copies keep their types; a side that has the
\* semaphore excludes the other, and a driver has it only in a call.
THEOREM TypeCorrect == Spec => []TypeOK
  BY TypeInit, TypeStep, PTL DEF Spec

-----------------------------------------------------------------------------
(* The bits of SwFwSync and those who set them, with one port.             *)

\* BitsAreKept says of each bit who has set it.
LEMMA BitByBit ==
  ASSUME TypeOK
  PROVE  BitsMatch <=> BitsAreKept
<1> DEFINE kept == UNION {sw({r \in mask[p] : Uses(p, r)}) : p \in Port}
<1>1. kept \subseteq {"sw"} \X Resource
  BY DEF TypeOK, sw
<1>2. \A r \in Resource : <<"sw", r>> \in kept <=> \E p \in Port : Uses(p, r)
  BY DEF sw, Uses
<1>3. /\ fw(firmware) \subseteq {"fw"} \X Resource
      /\ \A r \in Resource : <<"fw", r>> \in fw(firmware) <=> r \in firmware
  BY DEF TypeOK, fw
<1>4. SwFwSync \subseteq {"sw", "fw"} \X Resource
  BY DEF TypeOK
<1> HIDE DEF kept
<1>5. BitsAreKept <=> SwFwSync = fw(firmware) \cup kept
  BY DEF BitsAreKept, kept
<1>6. ASSUME BitsMatch PROVE SwFwSync = fw(firmware) \cup kept
  <2>1. ASSUME NEW b \in {"sw", "fw"}, NEW r \in Resource
        PROVE  <<b, r>> \in SwFwSync <=> <<b, r>> \in fw(firmware) \cup kept
    BY <1>1, <1>2, <1>3, <1>6 DEF BitsMatch
  <2> QED
    BY <1>1, <1>3, <1>4, <2>1
<1>7. ASSUME SwFwSync = fw(firmware) \cup kept PROVE BitsMatch
  BY <1>1, <1>2, <1>3, <1>7 DEF BitsMatch
<1> QED
  BY <1>5, <1>6, <1>7

\* The invariant holds initially: only the firmware uses something.
LEMMA InvInit == Init => Inv
<1> SUFFICES ASSUME Init PROVE Inv
  OBVIOUS
<1>1. TypeOK
  BY TypeInit
<1>2. \A p \in Port : pc[p] = Free
  BY DEF Init
<1>3. LockHeld /\ CopyIsFresh
  <2>1. /\ Free \notin {"new", "drop"} \X {"read", "write", "unlock"}
        /\ \A c \in {"new", "drop"} : Free # <<c, "write">>
    BY DEF Free
  <2> QED
    BY <1>2, <2>1, Zenon DEF LockHeld, CopyIsFresh
<1>4. \A p \in Port, r \in Resource : ~Uses(p, r)
  BY DEF Init, Uses
<1>5. BitsMatch
  BY <1>4 DEF Init, BitsMatch, fw
<1> QED
  BY <1>1, <1>3, <1>4, <1>5 DEF Inv, NotWithFirmware

\* Where a driver uses the resources of its mask.
LEMMA UsingPlaces ==
  /\ Free \notin UsingPlace /\ Synced \in UsingPlace
  /\ \A step \in {"set", "check", "read", "write", "unlock"} :
       /\ <<"new", step>> \in UsingPlace <=> step = "unlock"
       /\ <<"drop", step>> \in UsingPlace <=> step # "unlock"
<1>1. Free # Synced
  BY DEF Free, Synced
<1>2. \A step \in {"set", "check", "read", "write", "unlock"} :
        /\ Free # <<"new", step>> /\ Free # <<"drop", step>>
        /\ Synced # <<"new", step>> /\ Synced # <<"drop", step>>
        /\ <<"new", step>> = <<"new", "unlock">> <=> step = "unlock"
        /\ <<"drop", step>> # <<"new", "unlock">>
  BY DEF Free, Synced
<1>3. \A c, step :
        <<c, step>> \in {"drop"} \X {"set", "check", "read", "write"} <=>
          c = "drop" /\ step \in {"set", "check", "read", "write"}
  OBVIOUS
<1>4. /\ Free \notin {"drop"} \X {"set", "check", "read", "write"}
  BY <1>3 DEF Free
<1> QED
  BY <1>1, <1>2, <1>3, <1>4 DEF UsingPlace

\* The steps of a call but WriteSync change neither the register nor who uses
\* what; nor do aquire_sync and the start of a drop.
LEMMA UsersStay ==
  ASSUME TypeOK, OnePort, NEW p \in Port, NEW c \in {"new", "drop"},
         \/ \E m \in (SUBSET Resource) \ {{}} : aquire_sync(p, m)
         \/ DropSynced(p)
         \/ Semaphore(p, c)
         \/ ReadSync(p, c)
         \/ DropSemaphore(p, c)
  PROVE  /\ UNCHANGED <<SwFwSync, firmware, FWSMBI>>
         /\ \A q \in Port, r \in Resource : Uses(q, r)' <=> Uses(q, r)
<1> USE DEF Goto
<1>1. \A q \in Port : q = p
  BY DEF OnePort
<1>2. pc \in [Port -> Place] /\ mask \in [Port -> SUBSET Resource]
  BY DEF TypeOK
<1>3. ASSUME NEW m, aquire_sync(p, m)
      PROVE  \A r \in Resource : ~Uses(p, r)' /\ ~Uses(p, r)
  <2>1. pc[p] = Free /\ pc'[p] = <<"new", "set">>
    BY <1>2, <1>3 DEF aquire_sync
  <2> QED
    BY <2>1, UsingPlaces DEF Uses
<1>4. CASE DropSynced(p)
  <2>1. /\ pc[p] = Synced /\ pc'[p] = <<"drop", "set">>
        /\ UNCHANGED <<SwFwSync, mask, firmware, FWSMBI>>
    BY <1>2, <1>4 DEF DropSynced
  <2> QED
    BY <1>1, <2>1, UsingPlaces DEF Uses
<1>5. CASE SetSemaphore(p, c) \/ CheckSemaphore(p, c) \/ ReadSync(p, c)
  <2>1. /\ \E step \in {"set", "check", "read"} : pc[p] = <<c, step>>
        /\ \E step \in {"set", "check", "read", "write"} : pc'[p] = <<c, step>>
        /\ UNCHANGED <<SwFwSync, mask, firmware, FWSMBI>>
    BY <1>2, <1>5 DEF SetSemaphore, CheckSemaphore, ReadSync
  <2> QED
    BY <1>1, <2>1, UsingPlaces DEF Uses
<1>6. CASE DropSemaphore(p, c)
  <2>1. /\ pc[p] = <<c, "unlock">>
        /\ pc'[p] = IF c = "new" THEN Synced ELSE Free
        /\ UNCHANGED <<SwFwSync, mask, firmware, FWSMBI>>
    BY <1>2, <1>6 DEF DropSemaphore
  <2> QED
    BY <1>1, <2>1, UsingPlaces DEF Uses
<1> QED
  BY <1>1, <1>3, <1>4, <1>5, <1>6 DEF Semaphore, aquire_sync

\* The write of the register changes the bits of those resources of which it
\* changes the user: those of the mask, which the firmware does not use.
LEMMA WriteKeepsBits ==
  ASSUME Inv, OnePort, NEW p \in Port, NEW c \in {"new", "drop"},
         WriteSync(p, c)
  PROVE  BitsMatch' /\ NotWithFirmware'
<1>1. \A q \in Port : q = p
  BY DEF OnePort
<1>2. /\ pc \in [Port -> Place]
      /\ pc[p] = <<c, "write">> /\ pc'[p] = <<c, "unlock">>
      /\ mask \in [Port -> SUBSET Resource]
      /\ UNCHANGED <<mask, firmware>>
      /\ SwFwSync' = NewSync(c, swfw_sync[p], mask[p])
  BY DEF Inv, TypeOK, WriteSync, Goto
<1>3. /\ swfw_sync[p] = SwFwSync
      /\ c = "new" => ~Busy(SwFwSync, mask[p])
  BY <1>2 DEF Inv, CopyIsFresh
<1>4. \A r \in Resource :
        /\ Uses(p, r) <=> c = "drop" /\ r \in mask[p]
        /\ Uses(p, r)' <=> c = "new" /\ r \in mask[p]
  BY <1>2, UsingPlaces DEF Uses
<1>5. ASSUME NEW r \in Resource
      PROVE  /\ <<"fw", r>> \in SwFwSync' <=> <<"fw", r>> \in SwFwSync
             /\ <<"sw", r>> \in SwFwSync' <=>
                  IF c = "new" THEN <<"sw", r>> \in SwFwSync \/ r \in mask[p]
                                  ELSE <<"sw", r>> \in SwFwSync /\ r \notin mask[p]
  BY <1>2, <1>3 DEF NewSync, sw
<1>6. ASSUME NEW r \in Resource, c = "new", r \in mask[p]
      PROVE  <<"fw", r>> \notin SwFwSync
  BY <1>3, <1>6 DEF Busy, fw
<1>7. BitsMatch'
  BY <1>1, <1>2, <1>4, <1>5 DEF Inv, BitsMatch
<1>8. NotWithFirmware'
  BY <1>1, <1>2, <1>4, <1>6 DEF Inv, BitsMatch, NotWithFirmware
<1> QED
  BY <1>7, <1>8

\* Who neither changes the register nor its users keeps the bits apart.
LEMMA BitsStay ==
  ASSUME Inv, UNCHANGED <<SwFwSync, firmware>>,
         \A q \in Port, r \in Resource : Uses(q, r)' <=> Uses(q, r)
  PROVE  BitsMatch' /\ NotWithFirmware'
BY DEF Inv, BitsMatch, NotWithFirmware

\* No step of the driver lets another change what it read, and none goes on
\* without the semaphore.
LEMMA DriverKeepsLock ==
  ASSUME Inv, OnePort, NEW p \in Port, NEW c \in {"new", "drop"},
         \/ \E m \in (SUBSET Resource) \ {{}} : aquire_sync(p, m)
         \/ DropSynced(p)
         \/ Semaphore(p, c)
         \/ Sync(p, c)
  PROVE  LockHeld' /\ CopyIsFresh'
<1> USE DEF Goto
<1>1. \A q \in Port : q = p
  BY DEF OnePort
<1>2. /\ pc \in [Port -> Place] /\ swfw_sync \in [Port -> SUBSET ({"sw", "fw"} \X Resource)]
      /\ \A d \in {"new", "drop"}, step \in {"read", "write", "unlock"} :
           pc[p] = <<d, step>> => SWESMBI
  <2>1. /\ pc \in [Port -> Place]
        /\ swfw_sync \in [Port -> SUBSET ({"sw", "fw"} \X Resource)]
    BY DEF Inv, TypeOK
  <2>2. \A d \in {"new", "drop"}, step \in {"read", "write", "unlock"} :
          <<d, step>> \in {"new", "drop"} \X {"read", "write", "unlock"}
    OBVIOUS
  <2>3. pc[p] \in {"new", "drop"} \X {"read", "write", "unlock"} => SWESMBI
    BY DEF Inv, LockHeld
  <2> QED
    BY <2>1, <2>2, <2>3
<1>3. \A step \in {"read", "write", "unlock"}, d \in {"new", "drop"} :
        Free # <<d, step>> /\ Synced # <<d, step>>
  BY DEF Free, Synced
<1>4. \/ pc'[p] \in {Free, Synced, <<c, "check">>, <<"new", "set">>, <<"drop", "set">>,
                      <<c, "set">>}
      \/ /\ pc'[p] = <<c, "read">> /\ SWESMBI'
      \/ /\ pc'[p] = <<c, "unlock">> /\ SWESMBI'
      \/ /\ pc'[p] = <<c, "write">> /\ SWESMBI'
         /\ swfw_sync'[p] = SwFwSync'
         /\ c = "new" => ~Busy(SwFwSync', mask'[p])
  <2>1. CASE \E m \in (SUBSET Resource) \ {{}} : aquire_sync(p, m)
    BY <1>2, <2>1 DEF aquire_sync
  <2>2. CASE DropSynced(p)
    BY <1>2, <2>2 DEF DropSynced
  <2>3. CASE SetSemaphore(p, c)
    BY <1>2, <2>3 DEF SetSemaphore
  <2>4. CASE CheckSemaphore(p, c)
    BY <1>2, <2>4 DEF CheckSemaphore, Granted
  <2>5. CASE ReadSync(p, c)
    BY <1>2, <2>5 DEF ReadSync
  <2>6. CASE WriteSync(p, c)
    BY <1>2, <2>6 DEF WriteSync
  <2>7. CASE DropSemaphore(p, c)
    BY <1>2, <2>7 DEF DropSemaphore
  <2> QED
    BY <2>1, <2>2, <2>3, <2>4, <2>5, <2>6, <2>7 DEF Semaphore, Sync
<1> QED
  BY <1>1, <1>3, <1>4 DEF LockHeld, CopyIsFresh

\* An action of the firmware finds the driver without the semaphore, and takes
\* no resource that the driver uses.
LEMMA FirmwareKeepsInv ==
  ASSUME Inv,
         \/ FirmwareLock \/ FirmwareUnlock
         \/ \E r \in Resource : FirmwareTake(r) \/ FirmwareGive(r)
  PROVE  LockHeld' /\ CopyIsFresh' /\ BitsMatch' /\ NotWithFirmware'
<1>1. ~SWESMBI /\ UNCHANGED <<SWESMBI, pc, mask, swfw_sync>>
  BY DEF Inv, TypeOK, FirmwareLock, FirmwareUnlock, FirmwareTake, FirmwareGive
<1>2. LockHeld' /\ CopyIsFresh'
  BY <1>1 DEF Inv, LockHeld, CopyIsFresh
<1>3. \A p \in Port, r \in Resource : Uses(p, r)' <=> Uses(p, r)
  BY <1>1 DEF Uses
<1>4. ASSUME FirmwareLock \/ FirmwareUnlock
      PROVE  BitsMatch' /\ NotWithFirmware'
  BY <1>3, <1>4, BitsStay DEF FirmwareLock, FirmwareUnlock
<1>5. ASSUME NEW r \in Resource, FirmwareTake(r)
      PROVE  BitsMatch' /\ NotWithFirmware'
  <2>1. <<"sw", r>> \notin SwFwSync
    BY <1>5 DEF FirmwareTake, Busy, sw
  <2>2. \A s \in Resource :
          /\ <<"fw", s>> \in SwFwSync' <=> s = r \/ <<"fw", s>> \in SwFwSync
          /\ <<"sw", s>> \in SwFwSync' <=> <<"sw", s>> \in SwFwSync
    BY <1>5 DEF FirmwareTake, fw
  <2>3. firmware' = firmware \cup {r}
    BY <1>5 DEF FirmwareTake
  <2> QED
    BY <1>3, <2>1, <2>2, <2>3 DEF Inv, BitsMatch, NotWithFirmware
<1>6. ASSUME NEW r \in Resource, FirmwareGive(r)
      PROVE  BitsMatch' /\ NotWithFirmware'
  <2>1. \A s \in Resource :
          /\ <<"fw", s>> \in SwFwSync' <=> s # r /\ <<"fw", s>> \in SwFwSync
          /\ <<"sw", s>> \in SwFwSync' <=> <<"sw", s>> \in SwFwSync
    BY <1>6 DEF FirmwareGive, fw
  <2>2. firmware' = firmware \ {r}
    BY <1>6 DEF FirmwareGive
  <2> QED
    BY <1>3, <2>1, <2>2 DEF Inv, BitsMatch, NotWithFirmware
<1> QED
  BY <1>2, <1>4, <1>5, <1>6

\* Every step of the firmware and of one port's driver keeps the invariant.
LEMMA InvStep ==
  ASSUME OnePort
  PROVE  Inv /\ [Next]_vars => Inv'
<1> SUFFICES ASSUME Inv, [Next]_vars PROVE Inv'
  OBVIOUS
<1>1. TypeOK'
  BY TypeStep DEF Inv
<1>2. ASSUME NEW p \in Port, NEW c \in {"new", "drop"},
             \/ \E m \in (SUBSET Resource) \ {{}} : aquire_sync(p, m)
             \/ DropSynced(p)
             \/ Semaphore(p, c)
             \/ Sync(p, c)
      PROVE  Inv'
  <2>1. LockHeld' /\ CopyIsFresh'
    BY <1>2, DriverKeepsLock
  <2>2. BitsMatch' /\ NotWithFirmware'
    <3>1. CASE WriteSync(p, c)
      BY <3>1, WriteKeepsBits
    <3>2. CASE ~WriteSync(p, c)
      <4>1. TypeOK
        BY DEF Inv
      <4> QED
        BY <1>2, <3>2, <4>1, UsersStay, BitsStay DEF Sync
    <3> QED
      BY <3>1, <3>2
  <2> QED
    BY <1>1, <2>1, <2>2 DEF Inv
<1>3. ASSUME \/ FirmwareLock \/ FirmwareUnlock
             \/ \E r \in Resource : FirmwareTake(r) \/ FirmwareGive(r)
      PROVE  Inv'
  BY <1>1, <1>3, FirmwareKeepsInv DEF Inv
<1>4. CASE UNCHANGED vars
  BY <1>1, <1>4 DEF vars, Inv, LockHeld, CopyIsFresh, BitsMatch, NotWithFirmware, Uses
<1> QED
  BY <1>2, <1>3, <1>4 DEF Next

\* The invariant holds always.
LEMMA InvCorrect ==
  ASSUME OnePort
  PROVE  Spec => []Inv
<1>1. Inv /\ [Next]_vars => Inv'
  BY InvStep
<1> QED
  BY <1>1, InvInit, PTL DEF Spec

\* Synced (phy.rs:72): the driver of a card with one port and the firmware never
\* use a resource at once, however many resources a mask names.
THEOREM NoneUsedWithFirmware ==
  ASSUME OnePort
  PROVE  Spec => []NotWithFirmware
<1>1. Inv => NotWithFirmware
  BY DEF Inv
<1> QED
  BY <1>1, InvCorrect, PTL

\* Synced::new and drop (phy.rs:85, 103): SwFwSync always has the bits of those
\* who use a resource and no others.
THEOREM NoBitIsLost ==
  ASSUME OnePort
  PROVE  Spec => []BitsAreKept
<1>1. Inv => BitsAreKept
  BY BitByBit DEF Inv
<1> QED
  BY <1>1, InvCorrect, PTL

\* Synced::new (phy.rs:83): the copy that is written back is the register's
\* value, because the semaphore is held from the read to the write.
THEOREM CopyStaysFresh ==
  ASSUME OnePort
  PROVE  Spec => [](LockHeld /\ CopyIsFresh)
<1>1. Inv => LockHeld /\ CopyIsFresh
  BY DEF Inv
<1> QED
  BY <1>1, InvCorrect, PTL
-----------------------------------------------------------------------------
(* open, which may fail and be called again.                               *)

\* MDIC's four fields.
MdicType == [op : {"none", "read", "write"}, data : SUBSET PhyBit,
             READY : BOOLEAN, E : BOOLEAN]

OpenType == O!TypeOK /\ MDIC \in MdicType

\* While open does not wait for the PHY, no access is under way that the card
\* might still answer.
Quiet ==
  open_pc \in {"closed", "reset", "init_rx", "opened"} =>
    MDIC.op = "none" \/ MDIC.READY \/ MDIC.E

\* From the first access to the PHY on, no reset is under way.
ResetIsOver ==
  open_pc \in {"read_mdic", "write_mdic", "init_rx", "opened"} =>
    CTRL \cap O!CTRL_RST = {}

\* The PHY has changed exactly when the write was answered, and an answer is
\* the one to the access that open waits for.
AccessIsOwn ==
  /\ open_pc \in {"reset", "read_mdic"} => phy = phy_before
  /\ open_pc = "read_mdic" =>
       /\ MDIC.op = "read"
       /\ MDIC.READY => MDIC.data = phy
  /\ open_pc = "write_mdic" =>
       /\ MDIC.op = "write" /\ MDIC.data = O!PoweredUp(phy_before)
       /\ MDIC.READY => phy = MDIC.data
  /\ open_pc \in {"init_rx", "opened"} => phy = O!PoweredUp(phy_before)

\* The inductive invariant: no old access is open when a new one starts, no
\* reset ends one, and so each answer is open's own.
OpenInv ==
  /\ OpenType /\ Quiet /\ ResetIsOver /\ AccessIsOwn
  /\ result = "Ok" => open_pc = "opened"

\* Someone else's access to MDIC, if any, has ended before open is called.
LEMMA OpenInit ==
  ASSUME O!OpenAssumption
  PROVE  O!Init => OpenInv
<1> SUFFICES ASSUME O!Init  PROVE OpenInv
  OBVIOUS
<1> USE DEF O!Init, O!Idle
<1>1. MDIC \in MdicType
  <2>1. O!Idle \in MdicType
    BY DEF O!Idle, MdicType
  <2>2. [op |-> "read", data |-> {}, READY |-> TRUE, E |-> FALSE] \in MdicType
    BY DEF MdicType
  <2> QED
    BY <2>1, <2>2
<1>2. \A register \in {CTRL, CTRL_EXT, RCTL, TCTL, EIMS} : register \subseteq 0 .. 31
  BY DEF O!RXEN
<1>3. tries \in 0 .. TryCount - 1
  BY DEF O!OpenAssumption
<1>4. OpenType
  BY <1>1, <1>2, <1>3 DEF OpenType, O!TypeOK, MdicType
<1> QED
  BY <1>4 DEF OpenInv, Quiet, ResetIsOver, AccessIsOwn

\* A step of open keeps the types, and wait_for's tries under their bound.
LEMMA OpenDriverType ==
  ASSUME O!OpenAssumption, OpenType, O!Driver
  PROVE  OpenType'
<1> USE DEF O!OpenAssumption, OpenType, O!TypeOK, MdicType, O!registers
<1>1. CASE O!Open
  BY <1>1 DEF O!Open, O!Written, O!CTRL_RST
<1>2. CASE O!WaitReset
  BY <1>2 DEF O!WaitReset, O!TriesLeft, O!TriesDone, O!Return
<1>3. CASE O!Configure
  BY <1>3 DEF O!Configure, O!Access, O!DRV_LOAD
<1>4. CASE O!ReadDone
  BY <1>4 DEF O!ReadDone, O!Access, O!PoweredUp
<1>5. CASE O!MdicError
  BY <1>5 DEF O!MdicError, O!AfterError, O!Return
<1>6. CASE O!WriteDone
  BY <1>6 DEF O!WriteDone
<1>7. CASE O!InitRings
  BY <1>7 DEF O!InitRings, O!RXEN, O!SZ_4096, O!TCTL_EN, O!CTRL_UP
<1> QED
  BY <1>1, <1>2, <1>3, <1>4, <1>5, <1>6, <1>7 DEF O!Driver

\* So does the card.
LEMMA OpenCardType ==
  ASSUME OpenType, O!Card
  PROVE  OpenType'
<1> USE DEF OpenType, O!TypeOK, MdicType, O!registers
<1>1. CASE O!CardReset
  <2>1. MDIC' \in MdicType
    BY <1>1 DEF O!CardReset, O!Idle
  <2>2. \A register \in {CTRL', CTRL_EXT', RCTL', TCTL', EIMS'} : register \subseteq 0 .. 31
    BY <1>1 DEF O!CardReset
  <2> QED
    BY <1>1, <2>1, <2>2 DEF O!CardReset
<1>2. CASE O!Answer
  <2>1. phy \in SUBSET PhyBit /\ MDIC.data \in SUBSET PhyBit
    OBVIOUS
  <2>2. MDIC' \in MdicType /\ phy' \in SUBSET PhyBit
    BY <1>2, <2>1 DEF O!Answer
  <2>3. /\ MDIC'.op \in {"none", "read", "write"}
        /\ MDIC'.READY \in BOOLEAN /\ MDIC'.E \in BOOLEAN
        /\ MDIC'.data \in SUBSET PhyBit
    BY <2>2
  <2> QED
    BY <1>2, <2>2, <2>3 DEF O!Answer
<1> QED
  BY <1>1, <1>2 DEF O!Card

\* Every step of open keeps track of the access under way.
LEMMA OpenDriverStep ==
  ASSUME O!OpenAssumption, OpenInv, O!Driver
  PROVE  OpenInv'
<1>1. OpenType'
  BY OpenDriverType DEF OpenInv
<1>2. Quiet' /\ ResetIsOver' /\ AccessIsOwn'
      /\ (result' = "Ok" => open_pc' = "opened")
  <2> USE DEF OpenInv, OpenType, MdicType, O!TypeOK, O!registers,
              Quiet, ResetIsOver, AccessIsOwn
  <2>1. CASE O!Open
    BY <2>1 DEF O!Open
  <2>2. CASE O!WaitReset
    BY <2>2 DEF O!WaitReset, O!Return
  <2>3. CASE O!Configure
    BY <2>3 DEF O!Configure, O!Access
  <2>4. CASE O!ReadDone
    BY <2>4 DEF O!ReadDone, O!Access
  <2>5. CASE O!MdicError
    BY <2>5 DEF O!MdicError, O!AfterError, O!Return
  <2>6. CASE O!WriteDone
    BY <2>6 DEF O!WriteDone
  <2>7. CASE O!InitRings
    BY <2>7 DEF O!InitRings, O!CTRL_RST, O!CTRL_UP
  <2> QED
    BY <2>1, <2>2, <2>3, <2>4, <2>5, <2>6, <2>7 DEF O!Driver
<1> QED
  BY <1>1, <1>2 DEF OpenInv

\* So does the card, whose reset never ends an access of open, and whose answer
\* is to the access that is under way.
LEMMA OpenCardStep ==
  ASSUME OpenInv, O!Card
  PROVE  OpenInv'
<1>1. OpenType'
  BY OpenCardType DEF OpenInv
<1>2. Quiet' /\ ResetIsOver' /\ AccessIsOwn'
      /\ (result' = "Ok" => open_pc' = "opened")
  <2> USE DEF OpenInv, OpenType, MdicType, O!TypeOK, O!registers,
              Quiet, ResetIsOver, AccessIsOwn
  <2>1. CASE O!CardReset
    BY <2>1 DEF O!CardReset, O!Idle
  <2>2. CASE O!Answer
    BY <2>2 DEF O!Answer
  <2> QED
    BY <2>1, <2>2 DEF O!Card
<1> QED
  BY <1>1, <1>2 DEF OpenInv

\* The invariant holds always.
LEMMA OpenInvCorrect ==
  ASSUME O!OpenAssumption
  PROVE  O!Spec => []OpenInv
<1>1. OpenInv /\ [O!Next]_(O!vars) => OpenInv'
  <2>1. OpenInv /\ UNCHANGED O!vars => OpenInv'
    BY DEF O!vars, O!registers, OpenInv, OpenType, O!TypeOK, Quiet,
           ResetIsOver, AccessIsOwn
  <2> QED
    BY <2>1, OpenDriverStep, OpenCardStep DEF O!Next
<1> QED
  BY <1>1, OpenInit, PTL DEF O!Spec

\* open (igb.rs:34 of doc/main) and wait_for (regs.rs:50): the types, and the
\* bound on the tries, for every try_count.
THEOREM OpenTypeCorrect ==
  ASSUME O!OpenAssumption
  PROVE  O!Spec => []O!TypeOK
<1>1. OpenInv => O!TypeOK
  BY DEF OpenInv, OpenType
<1> QED
  BY <1>1, OpenInvCorrect, PTL

\* power_up (phy.rs:65 of doc/main): when open returns without an error, the
\* PHY is powered up and keeps its other bits, however many calls have failed
\* before in whatever place.
THEOREM PhyIsPoweredUpAfterOpen ==
  ASSUME O!OpenAssumption
  PROVE  O!Spec => []PhyIsPoweredUp
<1>1. OpenInv => PhyIsPoweredUp
  BY DEF OpenInv, AccessIsOwn, PhyIsPoweredUp, O!PhyIsPoweredUp, O!PoweredUp
<1> QED
  BY <1>1, OpenInvCorrect, PTL

-----------------------------------------------------------------------------
(* PoolRace: what the theorems assume.                                     *)

\* Without it the run pool_two_threads finds a free entry given out twice.
OneThread == Race!ThreadAssumption /\ \E t : Thread = {t}

-----------------------------------------------------------------------------
(* PoolRace: the inductive invariant.                                      *)

\* Each slot of the stack has an entry of its own.
Distinct == \A i, j \in 0 .. len - 1 : slots[i] = slots[j] => i = j

\* What thread t found out and did so far, where it is now.
At(t) ==
  /\ borrow = IF pool_pc[t] \in {"idle", "borrow"} THEN 0 ELSE -1
  /\ Race!Stacked \cap owned[t] = {}
  /\ pool_pc[t] = "released" => seen[t] = -1
  /\ pool_pc[t] = "borrow" => call[t] = Race!Alloc \/ call[t] \in owned[t]
  /\ pool_pc[t] \in {"scan", "push", "pushed"} => call[t] \in owned[t]
  /\ pool_pc[t] = "popped" => len > 0 /\ seen[t] = len
  /\ pool_pc[t] = "take" => seen[t] = len + 1 /\ slots[len] \notin Race!Stacked \cup owned[t]
  /\ pool_pc[t] = "pushed" => seen[t] = len /\ slots[len] = call[t]

RaceInv == Race!TypeOK /\ ~panicked /\ Distinct /\ \A t \in Thread : At(t)

-----------------------------------------------------------------------------
(* PoolRace: entries and slots.                                            *)

\* Entry numbers are places of the stack, and there are as many.
LEMMA Ranges ==
  ASSUME Race!ThreadAssumption
  PROVE  /\ Race!Entry \subseteq Race!Slot /\ 0 \in Race!Entry
         /\ IsFiniteSet(Race!Entry) /\ Cardinality(Race!Entry) = PoolEntries
         /\ \A n \in 0 .. PoolEntries : n \in Race!Slot
<1>1. PoolEntries \in Nat \ {0}
  BY DEF Race!ThreadAssumption
<1>2. IsFiniteSet(Race!Entry) /\ Cardinality(Race!Entry) = PoolEntries
  BY <1>1, FS_Interval DEF Race!Entry
<1> QED
  BY <1>1, <1>2 DEF Race!Entry, Race!Slot

\* Distinct entries other than e leave room for e on the stack.
LEMMA Room ==
  ASSUME Race!ThreadAssumption, Race!TypeOK, Distinct, NEW e \in Race!Entry, e \notin Race!Stacked
  PROVE  len < PoolEntries
<1>1. len \in Nat /\ len <= PoolEntries /\ PoolEntries \in Nat
  BY DEF Race!TypeOK, Race!ThreadAssumption
<1>2. \A i \in 0 .. len - 1 : i \in Race!Slot /\ slots[i] \in Race!Stacked
  BY <1>1 DEF Race!Slot, Race!Stacked
<1>3. Race!Stacked \subseteq Race!Entry \ {e}
  BY <1>2 DEF Race!Stacked, Race!TypeOK
<1>4. IsFiniteSet(Race!Stacked) /\ Cardinality(Race!Stacked) <= PoolEntries - 1
  <2>1. /\ IsFiniteSet(Race!Entry \ {e})
        /\ Cardinality(Race!Entry \ {e}) = PoolEntries - 1
    BY Ranges, FS_RemoveElement
  <2> QED
    BY <2>1, <1>3, FS_Subset
<1>5. Cardinality(Race!Stacked) = len
  <2> DEFINE f == [i \in 0 .. len - 1 |-> slots[i]]
  <2>1. IsFiniteSet(0 .. len - 1) /\ Cardinality(0 .. len - 1) = len
    BY <1>1, FS_Interval
  <2>2. f \in Bijection(0 .. len - 1, Race!Stacked)
    <3>1. f \in [0 .. len - 1 -> Race!Stacked]
      BY <1>2
    <3>2. \A i, j \in 0 .. len - 1 : f[i] = f[j] => i = j
      BY DEF Distinct
    <3>3. \A x \in Race!Stacked : \E i \in 0 .. len - 1 : f[i] = x
      BY DEF Race!Stacked
    <3> QED
      BY <3>1, <3>2, <3>3 DEF Bijection, Injection, Surjection, IsInjective
  <2> QED
    BY <2>1, <2>2, FS_Bijection DEF ExistsBijection
<1> QED
  BY <1>1, <1>4, <1>5, FS_CardinalityType

-----------------------------------------------------------------------------
(* PoolRace: the invariant.                                                *)

\* Before the first call the whole pool is on the stack.
LEMMA RaceInit ==
  ASSUME OneThread
  PROVE  Race!Init => RaceInv
<1> SUFFICES ASSUME Race!Init PROVE RaceInv
  OBVIOUS
<1>1. PoolEntries \in Nat \ {0}
  BY DEF OneThread, Race!ThreadAssumption
<1>2. \A i \in 0 .. PoolEntries - 1 : i \in Race!Slot /\ slots[i] = i
  BY <1>1 DEF Race!Init, Race!Slot, Race!Entry
<1>3. Race!TypeOK
  <2>1. slots \in [Race!Slot -> Race!Entry]
    BY <1>1, Ranges DEF Race!Init, OneThread
  <2>2. len \in 0 .. PoolEntries /\ borrow \in {-1, 0}
    BY <1>1 DEF Race!Init
  <2>3. /\ owned \in [Thread -> SUBSET Race!Entry]
        /\ call \in [Thread -> Race!Entry \cup {Race!Alloc}]
        /\ seen \in [Thread -> -1 .. PoolEntries]
    BY <1>1 DEF Race!Init
  <2>4. pool_pc \in [Thread -> {"idle", "borrow", "pop", "popped", "take", "scan",
                           "push", "pushed", "release", "released"}]
    BY DEF Race!Init
  <2>5. panicked \in BOOLEAN
    BY DEF Race!Init
  <2> QED
    BY <2>1, <2>2, <2>3, <2>4, <2>5 DEF Race!TypeOK
<1>4. Distinct
  BY <1>1, <1>2 DEF Race!Init, Distinct
<1>5. \A t \in Thread : At(t)
  BY DEF Race!Init, At
<1> QED
  BY <1>3, <1>4, <1>5 DEF RaceInv, Race!Init

\* What the accesses of the only thread t leave alone.
LEMMA Moved ==
  ASSUME Race!TypeOK, NEW t \in Thread, NEW from, NEW to, Race!Step(t, from, to)
  PROVE  pool_pc[t] = from /\ pool_pc'[t] = to /\ ~panicked
BY DEF Race!Step, Race!TypeOK

\* Every access of the only thread keeps the invariant.
LEMMA RaceStep ==
  ASSUME OneThread
  PROVE  RaceInv /\ [Race!Next]_(Race!vars) => RaceInv'
<1> SUFFICES ASSUME RaceInv, [Race!Next]_(Race!vars) PROVE RaceInv'
  OBVIOUS
<1>1. PICK t : Thread = {t}
  BY DEF OneThread
<1>2. Race!TypeOK /\ Distinct /\ At(t) /\ ~panicked /\ t \in Thread /\ PoolEntries \in Nat \ {0}
  BY <1>1 DEF RaceInv, OneThread, Race!ThreadAssumption
<1>3. SUFFICES Race!TypeOK' /\ ~panicked' /\ Distinct' /\ At(t)'
  BY <1>1 DEF RaceInv
<1> USE <1>1, <1>2
<1>4. /\ pool_pc[t] \in {"idle", "borrow", "pop", "popped", "take", "scan",
                    "push", "pushed", "release", "released"}
      /\ len \in Nat /\ len <= PoolEntries /\ owned[t] \subseteq Race!Entry
      /\ seen[t] \in Int /\ slots \in [Race!Slot -> Race!Entry]
      /\ \A i \in 0 .. PoolEntries : i \in Race!Slot
  BY Ranges DEF Race!TypeOK, OneThread
<1>5. ASSUME NEW c \in Race!Entry \cup {Race!Alloc}, Race!BorrowLoad(t, c)
      PROVE  Race!TypeOK' /\ ~panicked' /\ Distinct' /\ At(t)'
  <2>1. borrow = 0 /\ pool_pc[t] = "idle" /\ pool_pc'[t] = "borrow"
    BY <1>5, Moved DEF Race!BorrowLoad, At
  <2>2. Race!TypeOK' /\ ~panicked'
    BY <1>5, <2>1 DEF Race!BorrowLoad, Race!Step, Race!TypeOK
  <2>3. call'[t] = c /\ (c = Race!Alloc \/ c \in owned[t])
    BY <1>5 DEF Race!BorrowLoad, Race!TypeOK
  <2> QED
    BY <1>5, <2>1, <2>2, <2>3 DEF Race!BorrowLoad, Distinct, At, Race!Stacked
<1>6. CASE Race!BorrowStore(t)
  <2>1. pool_pc[t] = "borrow" /\ pool_pc'[t] = IF call[t] = Race!Alloc THEN "pop" ELSE "scan"
    BY <1>6, Moved DEF Race!BorrowStore
  <2>2. Race!TypeOK' /\ ~panicked'
    BY <1>6, <2>1 DEF Race!BorrowStore, Race!Step, Race!TypeOK
  <2> QED
    BY <1>6, <2>1, <2>2 DEF Race!BorrowStore, Distinct, At, Race!Stacked
<1>7. CASE Race!PopLoad(t)
  <2>1. pool_pc[t] = "pop" /\ pool_pc'[t] = IF len = 0 THEN "release" ELSE "popped"
    BY <1>7, Moved DEF Race!PopLoad
  <2>2. Race!TypeOK' /\ ~panicked' /\ seen'[t] = len
    BY <1>7, <2>1, <1>4 DEF Race!PopLoad, Race!Step, Race!TypeOK
  <2> QED
    BY <1>7, <2>1, <2>2, <1>4 DEF Race!PopLoad, Distinct, At, Race!Stacked
<1>8. CASE Race!PopStore(t)
  <2>1. /\ pool_pc[t] = "popped" /\ pool_pc'[t] = "take" /\ len > 0
        /\ seen[t] = len /\ len' = len - 1
        /\ UNCHANGED <<borrow, slots, owned, call, seen, panicked>>
    BY <1>8, Moved DEF Race!PopStore, At
  <2>2. Race!TypeOK' /\ ~panicked'
    BY <1>8, <2>1, <1>4 DEF Race!PopStore, Race!Step, Race!TypeOK
  <2>3. /\ Race!Stacked' \subseteq Race!Stacked
        /\ slots[len'] \in Race!Stacked /\ slots[len'] \notin Race!Stacked'
    BY <2>1, <1>4 DEF Race!Stacked, Distinct
  <2>4. Distinct'
    BY <2>1, <1>4 DEF Distinct
  <2> QED
    BY <2>1, <2>2, <2>3, <2>4, <1>4 DEF At
<1>9. CASE Race!PopTake(t)
  <2>1. /\ pool_pc[t] = "take" /\ pool_pc'[t] = "release"
        /\ seen[t] = len + 1 /\ slots[len] \notin Race!Stacked \cup owned[t]
        /\ UNCHANGED <<borrow, len, slots, call, seen, panicked>>
    BY <1>9, Moved DEF Race!PopTake, At
  <2>2. seen[t] - 1 = len /\ slots[len] \in Race!Entry /\ owned'[t] = owned[t] \cup {slots[len]}
    BY <1>9, <2>1, <1>4 DEF Race!PopTake, Race!TypeOK
  <2>3. Race!TypeOK' /\ ~panicked'
    BY <1>9, <2>1, <2>2, <1>4 DEF Race!PopTake, Race!Step, Race!TypeOK
  <2> QED
    BY <2>1, <2>2, <2>3 DEF Distinct, At, Race!Stacked
<1>10. CASE Race!Scan(t)
  <2>1. /\ pool_pc[t] = "scan" /\ pool_pc'[t] = "push" /\ call[t] \in owned[t]
        /\ UNCHANGED <<borrow, len, slots, owned, call, seen>>
    BY <1>10, Moved DEF Race!Scan, At
  <2>2. panicked' = FALSE
    <3>1. call[t] \notin Race!Stacked
      BY <2>1 DEF At
    <3>2. panicked' = (call[t] \in Race!Stacked)
      BY <1>10 DEF Race!Scan
    <3>3. (call[t] \in Race!Stacked) = FALSE
      BY <3>1
    <3> QED
      BY <3>2, <3>3, Zenon
  <2>3. Race!TypeOK'
    BY <1>10, <2>1, <2>2 DEF Race!Scan, Race!Step, Race!TypeOK
  <2> QED
    BY <2>1, <2>2, <2>3 DEF Distinct, At, Race!Stacked
<1>11. CASE Race!PushSlot(t)
  <2>1. /\ pool_pc[t] = "push" /\ pool_pc'[t] = "pushed" /\ call[t] \in owned[t]
        /\ UNCHANGED <<borrow, len, owned, call, panicked>>
    BY <1>11, Moved DEF Race!PushSlot, At
  <2>2. /\ slots' = [slots EXCEPT ![len] = call[t]] /\ len \in Race!Slot
        /\ seen'[t] = len /\ call[t] \in Race!Entry
    BY <1>11, <2>1, <1>4 DEF Race!PushSlot, Race!TypeOK
  <2>3. slots'[len] = call[t] /\ \A i \in 0 .. len - 1 : slots'[i] = slots[i]
    BY <2>2, <1>4 DEF Race!TypeOK
  <2>4. Race!TypeOK' /\ ~panicked'
    BY <1>11, <2>1, <2>2, <1>4 DEF Race!PushSlot, Race!Step, Race!TypeOK
  <2>5. Distinct'
    BY <2>1, <2>3 DEF Distinct
  <2>6. Race!Stacked' = Race!Stacked
    BY <2>1, <2>3 DEF Race!Stacked
  <2> QED
    BY <2>1, <2>2, <2>3, <2>4, <2>5, <2>6 DEF At
<1>12. CASE Race!PushStore(t)
  <2>1. /\ pool_pc[t] = "pushed" /\ pool_pc'[t] = "release" /\ call[t] \in owned[t]
        /\ seen[t] = len /\ slots[len] = call[t] /\ len' = len + 1
        /\ UNCHANGED <<borrow, slots, call, seen, panicked>>
    BY <1>12, Moved DEF Race!PushStore, At
  <2>2. call[t] \in Race!Entry /\ call[t] \notin Race!Stacked /\ owned'[t] = owned[t] \ {call[t]}
    BY <1>12, <2>1, <1>4 DEF Race!PushStore, At, Race!TypeOK
  <2>3. len' <= PoolEntries
    BY <2>1, <2>2, <1>4, Room DEF OneThread
  <2>4. Race!TypeOK' /\ ~panicked'
    BY <1>12, <2>1, <2>2, <2>3, <1>4 DEF Race!PushStore, Race!Step, Race!TypeOK
  <2>5. Race!Stacked' = Race!Stacked \cup {call[t]}
    BY <2>1, <1>4 DEF Race!Stacked
  <2>6. Distinct'
    BY <2>1, <2>2, <1>4 DEF Distinct, Race!Stacked
  <2> QED
    BY <2>1, <2>2, <2>4, <2>5, <2>6 DEF At
<1>13. CASE Race!ReleaseLoad(t)
  <2>1. /\ pool_pc[t] = "release" /\ pool_pc'[t] = "released" /\ borrow = -1
        /\ UNCHANGED <<borrow, len, slots, owned, call, panicked>>
    BY <1>13, Moved DEF Race!ReleaseLoad, At
  <2>2. Race!TypeOK' /\ ~panicked' /\ seen'[t] = -1
    BY <1>13, <2>1, <1>4 DEF Race!ReleaseLoad, Race!Step, Race!TypeOK
  <2> QED
    BY <2>1, <2>2 DEF Distinct, At, Race!Stacked
<1>14. CASE Race!ReleaseStore(t)
  <2>1. /\ pool_pc[t] = "released" /\ pool_pc'[t] = "idle" /\ borrow' = 0
        /\ UNCHANGED <<len, slots, owned, call, seen, panicked>>
    BY <1>14, Moved DEF Race!ReleaseStore, At
  <2>2. Race!TypeOK' /\ ~panicked'
    BY <1>14, <2>1 DEF Race!ReleaseStore, Race!Step, Race!TypeOK
  <2> QED
    BY <2>1, <2>2 DEF Distinct, At, Race!Stacked
<1>15. CASE UNCHANGED Race!vars
  BY <1>15 DEF Race!vars, Race!TypeOK, Distinct, At, Race!Stacked
<1> QED
  BY <1>5, <1>6, <1>7, <1>8, <1>9, <1>10, <1>11, <1>12, <1>13, <1>14, <1>15 DEF Race!Next

-----------------------------------------------------------------------------
(* PoolRace: the refinement.                                               *)

\* The stack and the packets as MemPool has them.
StackOf(n, memory) == [k \in 1 .. n |-> memory[k - 1]]
Stack              == [p \in {"pool"} |-> StackOf(len, slots)]
Buffers            == [b \in {"pool"} \X Race!Entry |-> "frame"]

\* The entries of packets: with one thread, its own and the one it is taking.
HeldBy(t) == owned[t] \cup (IF pool_pc[t] = "take" THEN {slots[seen[t] - 1]} ELSE {})

\* What MemPool calls held is what the only thread has.
LEMMA HeldOfThread ==
  ASSUME NEW t, Thread = {t}
  PROVE  Race!Held = {"pool"} \X HeldBy(t) /\ Race!Held' = {"pool"} \X HeldBy(t)'
<1>1. (UNION {owned[u] : u \in Thread}) \cup Race!InTransit = HeldBy(t)
  BY DEF Race!InTransit, HeldBy
<1>2. (UNION {owned'[u] : u \in Thread}) \cup Race!InTransit' = HeldBy(t)'
  BY DEF Race!InTransit, HeldBy
<1> QED
  BY <1>1, <1>2 DEF Race!Held

\* Accesses that move no entry change nothing that MemPool has.
LEMMA Stutters ==
  ASSUME NEW t, Thread = {t}, HeldBy(t)' = HeldBy(t),
         StackOf(len, slots)' = StackOf(len, slots), panicked' = panicked
  PROVE  UNCHANGED Race!Atomic!poolVars
<1>1. Race!Held' = Race!Held
  BY HeldOfThread
<1> QED
  BY <1>1 DEF Race!Atomic!poolVars, StackOf

\* The entries on the stack, and their number.
LEMMA StackProperties ==
  ASSUME NEW n \in Nat, NEW S, NEW memory, \A i \in 0 .. n - 1 : memory[i] \in S
  PROVE  /\ StackOf(n, memory) \in Seq(S) /\ Len(StackOf(n, memory)) = n
         /\ \A k \in 1 .. n : StackOf(n, memory)[k] = memory[k - 1]
<1>1. \A k \in 1 .. n : k - 1 \in 0 .. n - 1
  OBVIOUS
<1> QED
  BY <1>1 DEF StackOf

\* Vec::pop's store to the length is alloc_buf.
LEMMA PopIsAlloc ==
  ASSUME OneThread, RaceInv, NEW t, Thread = {t}, Race!PopStore(t)
  PROVE  Race!Atomic!AllocPkt("pool", "frame")
<1>1. Race!TypeOK /\ Distinct /\ At(t) /\ ~panicked /\ t \in Thread
  BY DEF RaceInv
<1>2. /\ pool_pc[t] = "popped" /\ pool_pc'[t] = "take" /\ len > 0 /\ seen[t] = len /\ len' = len - 1
      /\ UNCHANGED <<borrow, slots, owned, call, seen, panicked>>
  BY <1>1, Moved DEF Race!PopStore, At
<1>3. /\ len \in Nat /\ len - 1 \in Nat /\ len <= PoolEntries /\ PoolEntries \in Nat
      /\ slots \in [Race!Slot -> Race!Entry] /\ owned[t] \subseteq Race!Entry
  BY <1>1, <1>2 DEF Race!TypeOK, OneThread, Race!ThreadAssumption
<1>4. \A i \in 0 .. len - 1 : i \in Race!Slot /\ slots[i] \in Race!Entry
  BY <1>3 DEF Race!Slot
<1>5. PICK s, top : s = StackOf(len, slots) /\ top = slots[len - 1]
  OBVIOUS
<1>6. /\ s \in Seq(Race!Entry) /\ Len(s) = len
      /\ \A k \in 1 .. len : s[k] = slots[k - 1]
  <2>1. PICK n \in Nat : n = len
    BY <1>3
  <2>2. \A i \in 0 .. n - 1 : slots[i] \in Race!Entry
    BY <1>4, <2>1
  <2> QED
    BY <2>2, <2>1, <1>5, StackProperties
<1>7. top \in Race!Entry /\ s[len] = top /\ s # << >>
  BY <1>2, <1>3, <1>4, <1>5, <1>6
<1>8. StackOf(len', slots') = SubSeq(s, 1, len - 1)
  <2>1. \A k \in 1 .. len - 1 : s[k] \in Race!Entry
    BY <1>3, <1>4, <1>6
  <2>2. /\ SubSeq(s, 1, len - 1) \in Seq(Race!Entry)
        /\ Len(SubSeq(s, 1, len - 1)) = len - 1
        /\ \A k \in 1 .. len - 1 : SubSeq(s, 1, len - 1)[k] = s[k]
    BY <2>1, <1>3, SubSeqProperties
  <2>3. /\ StackOf(len - 1, slots) \in Seq(Race!Entry)
        /\ Len(StackOf(len - 1, slots)) = len - 1
        /\ \A k \in 1 .. len - 1 : StackOf(len - 1, slots)[k] = slots[k - 1]
    <3>1. PICK n \in Nat : n = len - 1
      BY <1>3
    <3>2. \A i \in 0 .. n - 1 : slots[i] \in Race!Entry
      BY <1>3, <1>4, <3>1
    <3>3. /\ StackOf(n, slots) \in Seq(Race!Entry) /\ Len(StackOf(n, slots)) = n
          /\ \A k \in 1 .. n : StackOf(n, slots)[k] = slots[k - 1]
      BY <3>2, StackProperties
    <3> QED
      BY <3>1, <3>3
  <2>4. \A k \in 1 .. len - 1 : SubSeq(s, 1, len - 1)[k] = StackOf(len - 1, slots)[k]
    BY <2>2, <2>3, <1>3, <1>6
  <2>5. SubSeq(s, 1, len - 1) = StackOf(len - 1, slots)
    BY <2>2, <2>3, <2>4, SeqEqual
  <2> QED
    BY <2>5, <1>2
<1>9. HeldBy(t) = owned[t] /\ HeldBy(t)' = owned[t] \cup {top}
  BY <1>2, <1>5 DEF HeldBy
<1>10. top \notin owned[t]
  BY <1>1, <1>2, <1>3, <1>5 DEF At, Race!Stacked
<1>11. Race!Held = {"pool"} \X owned[t] /\ Race!Held' = Race!Held \cup {<<"pool", top>>}
  BY <1>9, HeldOfThread
<1>12. Cardinality(Race!Held) < PoolEntries
  <2>1. IsFiniteSet(Race!Entry \ {top}) /\ Cardinality(Race!Entry \ {top}) = PoolEntries - 1
    BY <1>7, Ranges, FS_RemoveElement DEF OneThread
  <2>2. IsFiniteSet(owned[t]) /\ Cardinality(owned[t]) <= PoolEntries - 1
    BY <2>1, <1>3, <1>10, FS_Subset
  <2>3. Cardinality(Race!Held) = Cardinality(owned[t])
    <3> DEFINE f == [e \in owned[t] |-> <<"pool", e>>]
    <3>1. f \in Bijection(owned[t], Race!Held)
      BY <1>11 DEF Bijection, Injection, Surjection, IsInjective
    <3> QED
      BY <3>1, <2>2, FS_Bijection DEF ExistsBijection
  <2> QED
    BY <2>2, <2>3, <1>3, FS_CardinalityType
<1>13. Race!Atomic!Top("pool") = <<"pool", top>>
  BY <1>5, <1>6, <1>7 DEF Race!Atomic!Top, Race!Atomic!Last, StackOf
<1>14. Race!Atomic!CanAlloc("pool")
  BY <1>5, <1>7 DEF Race!Atomic!CanAlloc, StackOf
<1>15. [p \in {"pool"} |-> StackOf(len', slots')] = Race!Atomic!Popped("pool")
  BY <1>5, <1>6, <1>8 DEF Race!Atomic!Popped, Race!Atomic!Front, StackOf
<1>16. Stack' = Race!Atomic!Popped("pool")
  BY <1>15 DEF Stack
<1>17. Buffers = [Buffers EXCEPT ![Race!Atomic!Top("pool")] = "frame"]
  BY DEF Buffers
<1>18. Race!Held' = Race!Held \cup {Race!Atomic!Top("pool")}
  BY <1>11, <1>13
<1>19. panicked' = panicked
  BY <1>2
<1>20. Race!Atomic!Cardinality(Race!Held) = Cardinality(Race!Held)
  BY DEF Race!Atomic!Cardinality, Cardinality
<1> QED
  BY <1>1, <1>12, <1>14, <1>16, <1>17, <1>18, <1>19, <1>20
     DEF Race!Atomic!AllocPkt, Stack, StackOf, Buffers

\* Vec::push's store to the length is free_buf of an entry that is not free.
LEMMA PushIsDrop ==
  ASSUME OneThread, RaceInv, NEW t, Thread = {t}, Race!PushStore(t)
  PROVE  \E b \in Race!Held : Race!Atomic!DropPkt(b)
<1>1. Race!TypeOK /\ Distinct /\ At(t) /\ ~panicked /\ t \in Thread
  BY DEF RaceInv
<1>2. PICK e : e = call[t]
  OBVIOUS
<1>3. /\ pool_pc[t] = "pushed" /\ pool_pc'[t] = "release" /\ seen[t] = len /\ slots[len] = e
      /\ e \in owned[t] /\ len' = len + 1 /\ owned'[t] = owned[t] \ {e}
      /\ UNCHANGED <<borrow, slots, call, seen, panicked>>
  BY <1>1, <1>2, Moved DEF Race!PushStore, At, Race!TypeOK
<1>4. /\ len \in Nat /\ len <= PoolEntries /\ PoolEntries \in Nat
      /\ slots \in [Race!Slot -> Race!Entry] /\ e \in Race!Entry
  BY <1>1, <1>3 DEF Race!TypeOK, OneThread, Race!ThreadAssumption
<1>5. \A i \in 0 .. len : i \in Race!Slot /\ slots[i] \in Race!Entry
  BY <1>4 DEF Race!Slot
<1>6. PICK n \in Nat : n = len
  BY <1>4
<1>7. PICK s : s = StackOf(n, slots)
  OBVIOUS
<1>8. s \in Seq(Race!Entry) /\ Len(s) = n /\ \A k \in 1 .. n : s[k] = slots[k - 1]
  <2>1. \A i \in 0 .. n - 1 : slots[i] \in Race!Entry
    BY <1>5, <1>6
  <2> QED
    BY <2>1, <1>7, StackProperties
<1>9. StackOf(n + 1, slots) = s \o <<e>>
  <2>1. PICK m \in Nat : m = n + 1
    OBVIOUS
  <2>2. \A i \in 0 .. m - 1 : slots[i] \in Race!Entry
    BY <1>5, <1>6, <2>1
  <2>3. /\ StackOf(m, slots) \in Seq(Race!Entry) /\ Len(StackOf(m, slots)) = m
        /\ \A k \in 1 .. m : StackOf(m, slots)[k] = slots[k - 1]
    BY <2>2, StackProperties
  <2>4. /\ s \o <<e>> \in Seq(Race!Entry) /\ Len(s \o <<e>>) = m
        /\ \A k \in 1 .. n : (s \o <<e>>)[k] = s[k]
        /\ (s \o <<e>>)[m] = e
    <3>1. <<e>> \in Seq(Race!Entry) /\ Len(<<e>>) = 1 /\ <<e>>[1] = e
      BY <1>4
    <3>2. /\ s \o <<e>> \in Seq(Race!Entry) /\ Len(s \o <<e>>) = n + 1
          /\ \A k \in 1 .. n + 1 :
               (s \o <<e>>)[k] = IF k <= n THEN s[k] ELSE <<e>>[k - n]
      BY <3>1, <1>8, ConcatProperties
    <3> QED
      BY <3>1, <3>2, <2>1
  <2>5. ASSUME NEW k \in 1 .. m PROVE StackOf(m, slots)[k] = (s \o <<e>>)[k]
    <3>1. StackOf(m, slots)[k] = slots[k - 1]
      BY <2>3
    <3>2. k \in 1 .. n \/ (k = m /\ k - 1 = len)
      BY <2>1, <1>6
    <3>3. CASE k \in 1 .. n
      BY <3>1, <3>3, <2>4, <1>8
    <3>4. CASE k = m /\ k - 1 = len
      BY <3>1, <3>4, <2>4, <1>3
    <3> QED
      BY <3>2, <3>3, <3>4
  <2>6. StackOf(m, slots) = s \o <<e>>
    BY <2>3, <2>4, <2>5, SeqEqual
  <2> QED
    BY <2>1, <2>6
<1>10. Stack' = [p \in {"pool"} |-> s \o <<e>>]
  BY <1>3, <1>6, <1>9 DEF Stack, StackOf
<1>11. Stack' = Race!Atomic!Pushed("pool", <<e>>)
  BY <1>10, <1>6, <1>7 DEF Race!Atomic!Pushed, StackOf
<1>12. ~Race!Atomic!IsFree(<<"pool", e>>)
  <2>1. \A k \in 1 .. n : s[k] # e
    <3> SUFFICES ASSUME NEW k \in 1 .. n PROVE s[k] # e
      OBVIOUS
    <3>1. k - 1 \in 0 .. len - 1
      BY <1>4, <1>6
    <3>2. slots[k - 1] \in Race!Stacked
      BY <3>1 DEF Race!Stacked
    <3> QED
      BY <3>2, <1>1, <1>3, <1>8 DEF At
  <2>2. e \notin {s[k] : k \in DOMAIN s}
    BY <2>1, <1>8
  <2> QED
    BY <2>2, <1>6, <1>7 DEF Race!Atomic!IsFree, Race!Atomic!ToSet, StackOf
<1>13. HeldBy(t) = owned[t] /\ HeldBy(t)' = owned[t] \ {e}
  BY <1>3 DEF HeldBy
<1>14. <<"pool", e>> \in Race!Held /\ Race!Held' = Race!Held \ {<<"pool", e>>}
  BY <1>3, <1>13, HeldOfThread
<1>15. Race!Atomic!FreeBuf(<<"pool", e>>)
  BY <1>3, <1>11, <1>12 DEF Race!Atomic!FreeBuf, Stack, StackOf
<1>16. Buffers' = Buffers
  BY DEF Buffers, Race!Entry
<1>17. Race!Atomic!DropPkt(<<"pool", e>>)
  BY <1>1, <1>14, <1>15, <1>16 DEF Race!Atomic!DropPkt, Buffers
<1> QED
  BY <1>14, <1>17

-----------------------------------------------------------------------------
(* PoolRace: every access is a step of MemPool or changes nothing of it.   *)

\* Every access is a step of MemPool or a stutter.
LEMMA Implements ==
  ASSUME OneThread, RaceInv, [Race!Next]_(Race!vars)
  PROVE  [Race!AtomicNext]_(Race!Atomic!poolVars)
<1>1. PICK t : Thread = {t}
  BY DEF OneThread
<1>2. /\ Race!TypeOK /\ At(t) /\ ~panicked /\ t \in Thread
      /\ slots \in [Race!Slot -> Race!Entry]
  BY <1>1 DEF RaceInv, Race!TypeOK
<1>3. ASSUME HeldBy(t)' = HeldBy(t), StackOf(len, slots)' = StackOf(len, slots),
             panicked' = panicked
      PROVE  [Race!AtomicNext]_(Race!Atomic!poolVars)
  BY <1>1, <1>3, Stutters
<1>4. CASE UNCHANGED Race!vars
  <2>1. /\ HeldBy(t)' = HeldBy(t) /\ StackOf(len, slots)' = StackOf(len, slots)
        /\ panicked' = panicked
    BY <1>4 DEF Race!vars, HeldBy, StackOf
  <2> QED
    BY <2>1, <1>3
<1>5. ASSUME NEW c \in Race!Entry \cup {Race!Alloc}, Race!BorrowLoad(t, c)
      PROVE  [Race!AtomicNext]_(Race!Atomic!poolVars)
  <2>1. /\ pool_pc[t] = "idle" /\ pool_pc'[t] # "take"
        /\ UNCHANGED <<len, slots, owned>>
    BY <1>2, <1>5, Moved DEF Race!BorrowLoad
  <2>2. panicked' = panicked
    <3>1. borrow = 0 /\ panicked' = (borrow # 0)
      BY <2>1, <1>2, <1>5 DEF Race!BorrowLoad, At
    <3>2. panicked' = FALSE /\ panicked = FALSE
      BY <3>1, <1>2 DEF Race!TypeOK
    <3> QED
      BY <3>2
  <2>3. HeldBy(t)' = HeldBy(t) /\ StackOf(len, slots)' = StackOf(len, slots)
    BY <2>1 DEF HeldBy, StackOf
  <2> QED
    BY <2>2, <2>3, <1>3
<1>6. CASE \/ Race!BorrowStore(t) \/ Race!PopLoad(t) \/ Race!ReleaseLoad(t) \/ Race!ReleaseStore(t)
  <2>1. /\ pool_pc[t] # "take" /\ pool_pc'[t] # "take"
        /\ UNCHANGED <<len, slots, owned, panicked>>
    BY <1>2, <1>6, Moved DEF Race!BorrowStore, Race!PopLoad, Race!ReleaseLoad, Race!ReleaseStore
  <2>2. HeldBy(t)' = HeldBy(t) /\ StackOf(len, slots)' = StackOf(len, slots)
    BY <2>1 DEF HeldBy, StackOf
  <2> QED
    BY <2>1, <2>2, <1>3
<1>7. CASE Race!PopStore(t)
  BY <1>1, <1>7, PopIsAlloc DEF Race!AtomicNext
<1>8. CASE Race!PopTake(t)
  <2>1. /\ pool_pc[t] = "take" /\ pool_pc'[t] = "release"
        /\ UNCHANGED <<len, slots, seen, panicked>>
        /\ owned'[t] = owned[t] \cup {slots[seen[t] - 1]}
    BY <1>2, <1>8, Moved DEF Race!PopTake, Race!TypeOK
  <2>2. HeldBy(t)' = HeldBy(t) /\ StackOf(len, slots)' = StackOf(len, slots)
    BY <2>1 DEF HeldBy, StackOf
  <2> QED
    BY <2>1, <2>2, <1>3
<1>9. CASE Race!Scan(t)
  <2>1. /\ pool_pc[t] = "scan" /\ pool_pc'[t] # "take" /\ panicked' = (call[t] \in Race!Stacked)
        /\ UNCHANGED <<len, slots, owned>>
    BY <1>2, <1>9, Moved DEF Race!Scan
  <2>2. call[t] \notin Race!Stacked
    BY <1>2, <2>1 DEF At
  <2>3. panicked' = panicked
    <3>1. panicked' = FALSE /\ panicked = FALSE
      BY <2>1, <2>2, <1>2 DEF Race!TypeOK
    <3> QED
      BY <3>1
  <2>4. HeldBy(t)' = HeldBy(t) /\ StackOf(len, slots)' = StackOf(len, slots)
    BY <2>1 DEF HeldBy, StackOf
  <2> QED
    BY <2>3, <2>4, <1>3
<1>10. CASE Race!PushSlot(t)
  <2>1. /\ pool_pc[t] # "take" /\ pool_pc'[t] # "take"
        /\ UNCHANGED <<len, owned, panicked>>
        /\ slots' = [slots EXCEPT ![len] = call[t]]
    BY <1>2, <1>10, Moved DEF Race!PushSlot
  <2>2. \A k \in 1 .. len : slots'[k - 1] = slots[k - 1]
    BY <1>2, <2>1 DEF Race!TypeOK
  <2>3. StackOf(len, slots)' = StackOf(len, slots)
    BY <2>1, <2>2 DEF StackOf
  <2>4. HeldBy(t)' = HeldBy(t)
    BY <2>1 DEF HeldBy
  <2> QED
    BY <2>1, <2>3, <2>4, <1>3
<1>11. CASE Race!PushStore(t)
  BY <1>1, <1>11, PushIsDrop DEF Race!AtomicNext
<1> QED
  <2>1. \/ UNCHANGED Race!vars
        \/ \E c \in Race!Entry \cup {Race!Alloc} : Race!BorrowLoad(t, c)
        \/ Race!BorrowStore(t) \/ Race!PopLoad(t) \/ Race!PopStore(t) \/ Race!PopTake(t)
        \/ Race!Scan(t) \/ Race!PushSlot(t) \/ Race!PushStore(t)
        \/ Race!ReleaseLoad(t) \/ Race!ReleaseStore(t)
    BY <1>1 DEF Race!Next
  <2> QED
    BY <2>1, <1>4, <1>5, <1>6, <1>7, <1>8, <1>9, <1>10, <1>11

-----------------------------------------------------------------------------
(* PoolRace: the theorems.                                                 *)

\* The invariant holds always.
LEMMA RaceInvCorrect ==
  ASSUME OneThread
  PROVE  Race!Spec => []RaceInv
<1>1. Race!Init => RaceInv
  BY RaceInit
<1>2. RaceInv /\ [Race!Next]_(Race!vars) => RaceInv'
  BY RaceStep
<1> QED
  BY <1>1, <1>2, PTL DEF Race!Spec

\* Every variable keeps to its type, the length of the Vec to its capacity, if
\* one thread allocates and frees.
THEOREM RaceTypeCorrect ==
  ASSUME OneThread
  PROVE  Race!Spec => []Race!TypeOK
<1>1. RaceInv => Race!TypeOK
  BY DEF RaceInv
<1> QED
  BY <1>1, RaceInvCorrect, PTL

\* On one thread neither borrow_mut nor the check for a double free panics:
\* each call finds the flag as the call before it left it, and an entry of a
\* packet is never on the stack.
THEOREM PoolNeverPanics ==
  ASSUME OneThread
  PROVE  Race!Spec => []~panicked
<1>1. RaceInv => ~panicked
  BY DEF RaceInv
<1> QED
  BY <1>1, RaceInvCorrect, PTL

\* On one thread every access of alloc_buf and free_buf is a step of MemPool
\* or a stutter: the pool of the queues' models is what the code computes.
THEOREM ImplementsPool ==
  ASSUME OneThread
  PROVE  Race!Spec => ImplementsMemPool
<1>1. RaceInv /\ [Race!Next]_(Race!vars) => [Race!AtomicNext]_(Race!Atomic!poolVars)
  BY Implements
<1> QED
  BY <1>1, RaceInvCorrect, PTL DEF Race!Spec, ImplementsMemPool, Race!ImplementsMemPool

-----------------------------------------------------------------------------
(* TxOrder and RxOrder: the ring and the store buffer.                     *)

\* Both have the ring of Accesses.
LEMMA SameRing ==
  /\ Tx!Ring = Ring /\ Rx!Ring = Ring
  /\ \A i : Tx!wrap_ring(i) = wrap_ring(i) /\ Rx!wrap_ring(i) = wrap_ring(i)
  /\ \A i, j : Tx!Distance(i, j) = Distance(i, j) /\ Rx!Distance(i, j) = Distance(i, j)
BY DEF Tx!Ring, Rx!Ring, Ring, Tx!wrap_ring, Rx!wrap_ring, wrap_ring,
       Tx!Distance, Rx!Distance, Distance

\* The stores of a buffer that drains in order: the oldest arrives, the others
\* move up.
LEMMA OldestRemoved ==
  ASSUME NEW S, NEW s \in Seq(S), s # << >>
  PROVE  /\ Tx!RemoveAt(s, 1) \in Seq(S)
         /\ Len(Tx!RemoveAt(s, 1)) = Len(s) - 1
         /\ \A k \in 1 .. Len(s) - 1 : Tx!RemoveAt(s, 1)[k] = s[k + 1]
<1>1. PICK a, b : a = SubSeq(s, 1, 0) /\ b = SubSeq(s, 2, Len(s))
  OBVIOUS
<1>2. Len(s) \in Nat \ {0}
  OBVIOUS
<1>3. a \in Seq(S) /\ Len(a) = 0
  BY <1>1, <1>2
<1>4. b \in Seq(S) /\ Len(b) = Len(s) - 1 /\ \A k \in 1 .. Len(s) - 1 : b[k] = s[k + 1]
  <2>1. 2 \in Int /\ Len(s) \in Int /\ \A i \in 2 .. Len(s) : s[i] \in S
    BY <1>2
  <2>2. /\ b \in Seq(S) /\ Len(b) = IF 2 <= Len(s) THEN Len(s) - 2 + 1 ELSE 0
        /\ \A k \in 1 .. Len(s) - 2 + 1 : b[k] = s[2 + k - 1]
    BY <1>1, <2>1, SubSeqProperties
  <2>3. \A k \in 1 .. Len(s) - 1 : k \in 1 .. Len(s) - 2 + 1 /\ 2 + k - 1 = k + 1
    BY <1>2
  <2>4. \A k \in 1 .. Len(s) - 1 : b[k] = s[k + 1]
    BY <2>2, <2>3
  <2>5. Len(b) = Len(s) - 1
    <3>1. PICK n \in Nat \ {0} : n = Len(s)
      BY <1>2
    <3>2. Len(b) = IF 2 <= n THEN n - 2 + 1 ELSE 0
      BY <2>2, <3>1
    <3> QED
      BY <3>1, <3>2
  <2>6. b \in Seq(S)
    BY <2>2
  <2> QED
    BY <2>4, <2>5, <2>6
<1>5. Tx!RemoveAt(s, 1) = a \o b
  BY <1>1 DEF Tx!RemoveAt
<1> QED
  BY <1>2, <1>3, <1>4, <1>5

\* A set of positions has a last one.
LEMMA LastOf ==
  ASSUME NEW n \in Nat, NEW T \in SUBSET (1 .. n), T # {}
  PROVE  Tx!Max(T) \in T
<1> DEFINE U == {n - x : x \in T}
<1>1. U \in SUBSET Nat /\ U # {}
  <2>1. \A x \in T : n - x \in Nat
    OBVIOUS
  <2> QED
    BY <2>1
<1>2. PICK m \in U : \A k \in U : <<k, m>> \notin OpToRel(<, Nat)
  BY <1>1, NatLessThanWellFounded, WFMin
<1>3. PICK x \in T : m = n - x
  OBVIOUS
<1>4. ASSUME NEW y \in T PROVE y <= x
  <2>1. n - y \in U /\ ~(n - y < m)
    BY <1>1, <1>2 DEF OpToRel
  <2> QED
    BY <1>3, <2>1
<1> QED
  BY <1>3, <1>4 DEF Tx!Max

-----------------------------------------------------------------------------
(* TxOrder: the inductive invariant.                                       *)

\* Both models' processors drain in program order, as x86 does.
TxPart == Tx!Field \cup {"sta", "payload"}
TDT == mem[<<"TDT">>]
TxStore == [place : Tx!Place, value : Frame \cup {"set", "busy"} \cup Ring]

\* Indices are counted from the cleaner's.
TxD(i) == Distance(clean_index, i)

TxTypes ==
  /\ {tx_index, clean_index, TDH, written_back, TDT} \subseteq Ring
  /\ DOMAIN mem = Tx!Place
  /\ stores \in Seq(TxStore)
  /\ cached \in [Ring -> BOOLEAN]
  /\ pending \in Seq(Frame) /\ Len(pending) = TxD(tx_index) - TxD(written_back)

\* The card is behind the tail that it sees, and that behind the driver's.
TxOrdered ==
  /\ TxD(written_back) <= TxD(TDH) /\ TxD(TDH) <= TxD(TDT)
  /\ TxD(TDT) <= TxD(tx_index)

\* What the driver stored for a descriptor that is on its way.
TxWant(i, x) ==
  CASE x = "payload" -> pending[TxD(i) - TxD(written_back) + 1]
    [] x = "sta"     -> "busy"
    [] OTHER         -> "set"

\* A store that is late is to a descriptor that the card does not see yet, and
\* is what the driver wants there.
TxLate ==
  \A k \in DOMAIN stores :
    /\ stores[k].place = <<"TDT">> =>
         /\ stores[k].value \in Ring
         /\ TxD(TDT) <= TxD(stores[k].value) /\ TxD(stores[k].value) <= TxD(tx_index)
    /\ \A i \in Ring, x \in TxPart : stores[k].place = <<i, x>> =>
         /\ TxD(TDT) <= TxD(i) /\ TxD(i) < TxD(tx_index)
         /\ stores[k].value = TxWant(i, x)

\* A store of TDT gives the card no descriptor of which a store is later, and
\* never less than an earlier one.
TxTailLast ==
  \A k, l \in DOMAIN stores : k < l /\ stores[k].place = <<"TDT">> =>
    /\ stores[l].place = <<"TDT">> => TxD(stores[k].value) <= TxD(stores[l].value)
    /\ \A i \in Ring, x \in TxPart :
         stores[l].place = <<i, x>> => TxD(stores[k].value) <= TxD(i)

\* What is not late is in memory: the fields until the card fetched them, the
\* rest until it transmitted the packet.
TxLateAt(place) == \E k \in DOMAIN stores : stores[k].place = place
TxArrived ==
  \A i \in Ring, x \in TxPart :
    /\ TxD(i) < TxD(tx_index)
    /\ TxD(IF x \in Tx!Field THEN TDH ELSE written_back) <= TxD(i)
    => TxLateAt(<<i, x>>) \/ mem[<<i, x>>] = TxWant(i, x)

\* What the card fetched was complete.
TxFetched ==
  \A i \in Ring : TxD(written_back) <= TxD(i) /\ TxD(i) < TxD(TDH) => cached[i]

TxInv == TxTypes /\ TxOrdered /\ TxLate /\ TxTailLast /\ TxArrived /\ TxFetched

-----------------------------------------------------------------------------
(* TxOrder: each step.                                                     *)

LEMMA TxPlaces ==
  /\ \A i, x : <<i, x>> # <<"TDT">>
  /\ \A i \in Ring, x \in TxPart : <<i, x>> \in Tx!Place
  /\ <<"TDT">> \in Tx!Place
  /\ \A p \in Tx!Place : p = <<"TDT">> \/ \E i \in Ring, x \in TxPart : p = <<i, x>>
BY SameRing DEF Tx!Place, TxPart

LEMMA TxInitKeeps ==
  ASSUME Tx!TxOrderAssumption, Tx!Init
  PROVE  TxInv
<1>1. 0 \in Ring /\ Distance(0, 0) = 0
  BY RingAssumption DEF Ring, Distance
<1>2. /\ DOMAIN mem = Tx!Place /\ TDT = 0 /\ stores = << >> /\ pending = << >>
      /\ tx_index = 0 /\ clean_index = 0 /\ TDH = 0 /\ written_back = 0
      /\ cached \in [Ring -> BOOLEAN]
  BY TxPlaces, SameRing DEF Tx!Init, TDT
<1>3. TxD(tx_index) = 0 /\ TxD(TDT) = 0 /\ TxD(TDH) = 0 /\ TxD(written_back) = 0
  BY <1>1, <1>2 DEF TxD
<1>4. \A i \in Ring : TxD(i) \in 0 .. QS - 1
  BY <1>1, <1>2, DistanceRange DEF TxD
<1>5. TxTypes
  BY <1>1, <1>2, <1>3 DEF TxTypes
<1>6. TxLate /\ TxTailLast
  BY <1>2 DEF TxLate, TxTailLast
<1>7. \A i \in Ring : ~(TxD(i) < 0)
  BY <1>4
<1> QED
  BY <1>3, <1>5, <1>6, <1>7 DEF TxInv, TxOrdered, TxArrived, TxFetched

\* A descriptor that the card sees has no late store.
LEMMA TxSeen ==
  ASSUME TxInv, NEW i \in Ring, TxD(i) < TxD(TDT), NEW x \in TxPart
  PROVE  ~TxLateAt(<<i, x>>)
<1>1. \A k \in Ring : TxD(k) \in Int
  BY DistanceRange DEF TxD, TxInv, TxTypes
<1> QED
  BY <1>1 DEF TxInv, TxLate, TxLateAt, TxTypes

\* recycle_tx_buffers reads DD of a descriptor that is on its way as clear.
LEMMA TxLoadBusy ==
  ASSUME TxInv, NEW i \in Ring, TxD(written_back) <= TxD(i), TxD(i) < TxD(tx_index)
  PROVE  Tx!Load(<<i, "sta">>) = "busy"
<1> DEFINE own == {k \in DOMAIN stores : stores[k].place = <<i, "sta">>}
<1>1. "sta" \in TxPart /\ "sta" \notin Tx!Field /\ TxWant(i, "sta") = "busy"
  BY DEF TxPart, Tx!Field, TxWant
<1>2. DOMAIN stores = 1 .. Len(stores) /\ Len(stores) \in Nat
  BY DEF TxInv, TxTypes
<1>3. CASE own = {}
  <2>1. ~TxLateAt(<<i, "sta">>)
    BY <1>3 DEF TxLateAt
  <2>2. mem[<<i, "sta">>] = "busy"
    BY <1>1, <2>1 DEF TxInv, TxArrived
  <2> QED
    BY <1>3, <2>2 DEF Tx!Load
<1>4. CASE own # {}
  <2>1. own \in SUBSET (1 .. Len(stores))
    BY <1>2
  <2>2. Tx!Max(own) \in own
    BY <1>2, <1>4, <2>1, LastOf
  <2>3. \A k \in own : stores[k].value = "busy"
    BY <1>1 DEF TxInv, TxLate
  <2>4. Tx!Load(<<i, "sta">>) = stores[Tx!Max(own)].value
    BY <1>4 DEF Tx!Load
  <2> HIDE DEF own
  <2> QED
    BY <2>2, <2>3, <2>4
<1> QED
  BY <1>3, <1>4

\* Numbers of all distances.
LEMMA TxDistances ==
  ASSUME TxInv
  PROVE  \A i \in Ring : TxD(i) \in 0 .. QS - 1
BY DistanceRange DEF TxD, TxInv, TxTypes

LEMMA CardFetchKeeps ==
  ASSUME TxInv, Tx!CardFetch
  PROVE  TxInv'
<1>1. /\ TDH # TDT /\ TDH \in Ring /\ TDT \in Ring
      /\ cached' = [cached EXCEPT ![TDH] = \A x \in Tx!Field : mem[<<TDH, x>>] = "set"]
      /\ TDH' = wrap_ring(TDH)
      /\ UNCHANGED <<mem, stores, tx_index, clean_index, written_back, wire, pending>>
      /\ TDT' = TDT
  BY DEF Tx!CardFetch, Tx!driverVars, TDT, TxInv, TxTypes, wrap_ring
<1>2. /\ \A i \in Ring : TxD(i) \in 0 .. QS - 1 /\ TxD(i)' = TxD(i)
      /\ QS \in Nat
  BY <1>1, TxDistances, RingAssumption DEF TxD
<1>3. TxD(TDH) < TxD(TDT)
  <2>1. TxD(TDH) # TxD(TDT)
    BY <1>1, DistanceRange DEF TxD, TxInv, TxTypes
  <2> QED
    BY <1>1, <1>2, <2>1 DEF TxInv, TxOrdered
<1>4. TDH' \in Ring /\ TxD(TDH') = TxD(TDH) + 1
  <2>1. TxD(TDH) < QS - 1
    BY <1>1, <1>2, <1>3
  <2> QED
    BY <1>1, <2>1, DistanceNext DEF TxD, TxInv, TxTypes
<1>5. \A x \in Tx!Field : mem[<<TDH, x>>] = "set"
  <2> SUFFICES ASSUME NEW x \in Tx!Field PROVE mem[<<TDH, x>>] = "set"
    OBVIOUS
  <2>1. x \in TxPart /\ TxWant(TDH, x) = "set"
    BY DEF TxPart, TxWant, Tx!Field
  <2>2. ~TxLateAt(<<TDH, x>>)
    BY <1>1, <1>3, <2>1, TxSeen
  <2>3. TxD(TDH) < TxD(tx_index)
    BY <1>1, <1>2, <1>3 DEF TxInv, TxOrdered, TxTypes
  <2>4. TxD(TDH) <= TxD(TDH)
    BY <1>1, <1>2
  <2> QED
    BY <1>1, <2>1, <2>2, <2>3, <2>4 DEF TxInv, TxArrived
<1>6. TxTypes'
  BY <1>1, <1>2, <1>4 DEF TxInv, TxTypes, TxD
<1>7. TxOrdered'
  <2>1. /\ TxD(written_back)' = TxD(written_back) /\ TxD(TDT)' = TxD(TDT)
        /\ TxD(tx_index)' = TxD(tx_index) /\ TxD(TDH)' = TxD(TDH) + 1
    BY <1>1, <1>4 DEF TxD
  <2> QED
    BY <1>1, <1>2, <1>3, <2>1 DEF TxInv, TxOrdered, TxTypes
<1>8. TxLate' /\ TxTailLast'
  BY <1>1 DEF TxInv, TxLate, TxTailLast, TxD, TxWant
<1>9. TxArrived'
  <2> SUFFICES ASSUME NEW i \in Ring, NEW x \in TxPart, TxD(i) < TxD(tx_index),
                      TxD(IF x \in Tx!Field THEN TDH' ELSE written_back) <= TxD(i)
               PROVE  TxLateAt(<<i, x>>) \/ mem[<<i, x>>] = TxWant(i, x)
    BY <1>1 DEF TxArrived, TxLateAt, TxWant, TxD
  <2>1. TxD(IF x \in Tx!Field THEN TDH ELSE written_back) <= TxD(i)
    BY <1>1, <1>2, <1>4
  <2> QED
    BY <2>1 DEF TxInv, TxArrived
<1>10. TxFetched'
  <2> SUFFICES ASSUME NEW i \in Ring, TxD(written_back) <= TxD(i), TxD(i) < TxD(TDH')
               PROVE  cached'[i]
    BY <1>1 DEF TxFetched, TxD
  <2>1. CASE i = TDH
    BY <1>1, <1>5, <2>1 DEF TxInv, TxTypes
  <2>2. CASE i # TDH
    <3>1. TxD(i) # TxD(TDH)
      BY <1>1, <2>2, DistanceRange DEF TxD, TxInv, TxTypes
    <3>2. TxD(i) < TxD(TDH)
      BY <1>1, <1>2, <1>4, <3>1
    <3> QED
      BY <1>1, <2>2, <3>2 DEF TxInv, TxFetched, TxTypes
  <2> QED
    BY <2>1, <2>2
<1> QED
  BY <1>6, <1>7, <1>8, <1>9, <1>10 DEF TxInv

LEMMA CardTransmitKeeps ==
  ASSUME TxInv, Tx!CardTransmit
  PROVE  /\ TxInv'
         /\ pending # << >> /\ wire' = Head(pending) /\ pending' = Tail(pending)
<1> DEFINE w == written_back
<1>1. /\ w # TDH /\ {w, TDH, TDT, tx_index, clean_index} \subseteq Ring
      /\ wire' = IF cached[w] THEN mem[<<w, "payload">>] ELSE NoFrame
      /\ mem' = [p \in Tx!Place |-> CASE p = <<w, "sta">> -> "done"
                                      [] p \in {w} \X Tx!Field -> "none"
                                      [] OTHER -> mem[p]]
      /\ written_back' = wrap_ring(w)
      /\ pending' = SubSeq(pending, 2, Len(pending))
      /\ UNCHANGED <<stores, tx_index, clean_index, TDH, cached>>
  BY DEF Tx!CardTransmit, Tx!driverVars, TxInv, TxTypes, wrap_ring
<1>2. /\ \A i \in Ring : TxD(i) \in 0 .. QS - 1 /\ TxD(i)' = TxD(i)
      /\ QS \in Nat
  BY <1>1, TxDistances, RingAssumption DEF TxD
<1>3. TxD(w) < TxD(TDH)
  <2>1. TxD(w) # TxD(TDH)
    BY <1>1, DistanceRange DEF TxD
  <2> QED
    BY <1>1, <1>2, <2>1 DEF TxInv, TxOrdered
<1>4. written_back' \in Ring /\ TxD(written_back') = TxD(w) + 1
  <2>1. TxD(w) < QS - 1
    BY <1>1, <1>2, <1>3
  <2> QED
    BY <1>1, <2>1, DistanceNext DEF TxD
<1>5. TxD(w) < TxD(TDT) /\ TxD(w) < TxD(tx_index)
  BY <1>1, <1>2, <1>3 DEF TxInv, TxOrdered
<1>6. /\ \A i \in Ring, x \in TxPart : i # w => mem'[<<i, x>>] = mem[<<i, x>>]
      /\ mem'[<<w, "payload">>] = mem[<<w, "payload">>]
      /\ TDT' = TDT /\ DOMAIN mem' = Tx!Place
  <2>1. \A i \in Ring, x \in TxPart : i # w => <<i, x>> # <<w, "sta">> /\ <<i, x>> \notin {w} \X Tx!Field
    OBVIOUS
  <2>2. <<w, "payload">> # <<w, "sta">> /\ <<w, "payload">> \notin {w} \X Tx!Field
        /\ "payload" \in TxPart
    BY DEF Tx!Field, TxPart
  <2>3. <<"TDT">> # <<w, "sta">> /\ <<"TDT">> \notin {w} \X Tx!Field
    BY TxPlaces
  <2>4. mem'[<<"TDT">>] = mem[<<"TDT">>]
    BY <1>1, <2>3, TxPlaces
  <2> QED
    BY <1>1, <2>1, <2>2, <2>4, TxPlaces DEF TDT
<1>7. Len(pending) \in Nat \ {0} /\ pending \in Seq(Frame)
  BY <1>1, <1>2, <1>5 DEF TxInv, TxTypes
<1>8. /\ pending' \in Seq(Frame) /\ pending' = Tail(pending) /\ pending # << >>
      /\ Len(pending') = Len(pending) - 1
      /\ \A n \in 1 .. Len(pending) - 1 : pending'[n] = pending[n + 1]
  <2>1. pending' = Tail(pending) /\ pending # << >>
    BY <1>1, <1>7
  <2>2. Tail(pending) \in Seq(Frame) /\ Len(Tail(pending)) = Len(pending) - 1
        /\ \A n \in 1 .. Len(pending) - 1 : Tail(pending)[n] = pending[n + 1]
    BY <1>7, <2>1
  <2> QED
    BY <2>1, <2>2
<1>9. ASSUME NEW i \in Ring, NEW x \in TxPart, TxD(w) < TxD(i), TxD(i) < TxD(tx_index)
      PROVE  TxWant(i, x)' = TxWant(i, x)
  <2>1. CASE x = "payload"
    <3>1. TxWant(i, x) = pending[TxD(i) - TxD(w) + 1]
      BY <2>1 DEF TxWant
    <3>2. TxWant(i, x)' = pending'[TxD(i) - (TxD(w) + 1) + 1]
      <4>1. TxWant(i, x)' = pending'[TxD(i)' - Distance(clean_index', written_back') + 1]
        BY <2>1 DEF TxWant, TxD
      <4>2. Distance(clean_index', written_back') = TxD(w) + 1
        BY <1>1, <1>4 DEF TxD
      <4> QED
        BY <1>2, <4>1, <4>2
    <3>3. TxD(i) - TxD(w) \in 1 .. Len(pending) - 1
      <4>1. TxD(i) \in Int /\ TxD(w) \in Int /\ TxD(tx_index) \in Int
        BY <1>1, <1>2
      <4>2. Len(pending) = TxD(tx_index) - TxD(w)
        BY DEF TxInv, TxTypes
      <4> QED
        BY <1>9, <4>1, <4>2
    <3>4. TxD(i) - (TxD(w) + 1) + 1 = TxD(i) - TxD(w)
      BY <1>1, <1>2
    <3> QED
      BY <1>8, <3>1, <3>2, <3>3, <3>4
  <2>2. CASE x # "payload"
    BY <2>2 DEF TxWant
  <2> QED
    BY <2>1, <2>2
<1>10. wire' = Head(pending)
  <2>1. cached[w]
    BY <1>1, <1>2, <1>3 DEF TxInv, TxFetched
  <2>2. "payload" \in TxPart /\ "payload" \notin Tx!Field
    BY DEF TxPart, Tx!Field
  <2>3. mem[<<w, "payload">>] = TxWant(w, "payload")
    <3>1. ~TxLateAt(<<w, "payload">>)
      BY <1>1, <1>5, <2>2, TxSeen
    <3> QED
      BY <1>1, <1>2, <1>5, <2>2, <3>1 DEF TxInv, TxArrived
  <2>4. TxWant(w, "payload") = pending[1]
    BY <1>1, <1>2 DEF TxWant
  <2> QED
    BY <1>1, <1>7, <2>1, <2>3, <2>4
<1>11. TxTypes'
  <2>1. Len(pending') = TxD(tx_index) - TxD(w) - 1
    BY <1>1, <1>2, <1>7, <1>8 DEF TxInv, TxTypes
  <2>2. (TxD(tx_index) - TxD(written_back))' = TxD(tx_index) - TxD(w) - 1
    BY <1>1, <1>2, <1>4 DEF TxD
  <2> QED
    BY <1>1, <1>4, <1>6, <1>8, <2>1, <2>2 DEF TxInv, TxTypes
<1>12. TxOrdered'
  <2>1. /\ TxD(written_back)' = TxD(w) + 1 /\ TxD(TDT)' = TxD(TDT)
        /\ TxD(tx_index)' = TxD(tx_index) /\ TxD(TDH)' = TxD(TDH)
    BY <1>1, <1>4, <1>6 DEF TxD
  <2> QED
    BY <1>1, <1>2, <1>3, <2>1 DEF TxInv, TxOrdered
<1>13. TxLate'
  <2> SUFFICES ASSUME NEW k \in DOMAIN stores
      PROVE  /\ stores[k].place = <<"TDT">> =>
                  /\ stores[k].value \in Ring
                  /\ TxD(TDT) <= TxD(stores[k].value) /\ TxD(stores[k].value) <= TxD(tx_index)
             /\ \A i \in Ring, x \in TxPart : stores[k].place = <<i, x>> =>
                  /\ TxD(TDT) <= TxD(i) /\ TxD(i) < TxD(tx_index)
                  /\ stores[k].value = TxWant(i, x)'
    BY <1>1, <1>6 DEF TxLate, TxD
  <2>1. ASSUME NEW i \in Ring, NEW x \in TxPart, stores[k].place = <<i, x>>
        PROVE  /\ TxD(TDT) <= TxD(i) /\ TxD(i) < TxD(tx_index)
               /\ stores[k].value = TxWant(i, x)'
    <3>1. /\ TxD(TDT) <= TxD(i) /\ TxD(i) < TxD(tx_index)
          /\ stores[k].value = TxWant(i, x)
      BY <2>1 DEF TxInv, TxLate
    <3>2. TxD(w) < TxD(i)
      BY <1>1, <1>2, <1>5, <3>1
    <3> QED
      BY <1>9, <3>1, <3>2
  <2> QED
    BY <2>1 DEF TxInv, TxLate
<1>14. TxTailLast'
  BY <1>1 DEF TxInv, TxTailLast, TxD
<1>15. TxArrived'
  <2> SUFFICES ASSUME NEW i \in Ring, NEW x \in TxPart, TxD(i) < TxD(tx_index),
                      TxD(IF x \in Tx!Field THEN TDH ELSE written_back') <= TxD(i)
               PROVE  TxLateAt(<<i, x>>) \/ mem'[<<i, x>>] = TxWant(i, x)'
    BY <1>1 DEF TxArrived, TxLateAt, TxD
  <2>1. TxD(w) < TxD(i) /\ TxD(IF x \in Tx!Field THEN TDH ELSE w) <= TxD(i)
    BY <1>1, <1>2, <1>3, <1>4
  <2>2. i # w
    BY <1>1, <1>2, <2>1
  <2>3. TxLateAt(<<i, x>>) \/ mem[<<i, x>>] = TxWant(i, x)
    BY <2>1 DEF TxInv, TxArrived
  <2> QED
    BY <1>6, <1>9, <2>1, <2>2, <2>3
<1>16. TxFetched'
  <2> SUFFICES ASSUME NEW i \in Ring, TxD(written_back') <= TxD(i), TxD(i) < TxD(TDH)
               PROVE  cached[i]
    BY <1>1 DEF TxFetched, TxD
  <2>1. TxD(w) <= TxD(i)
    BY <1>1, <1>2, <1>4
  <2> QED
    BY <2>1 DEF TxInv, TxFetched
<1> QED
  BY <1>8, <1>10, <1>11, <1>12, <1>13, <1>14, <1>15, <1>16 DEF TxInv

LEMMA RecycleKeeps ==
  ASSUME Tx!TxOrderAssumption, TxInv, Tx!Recycle
  PROVE  TxInv'
<1> DEFINE last == (clean_index + TX_CLEAN_BATCH - 1) % QS
           n == TX_CLEAN_BATCH
<1>1. /\ {clean_index, TDH, TDT, tx_index, written_back} \subseteq Ring
      /\ n \in 1 .. QS - 1 /\ QS \in Nat
      /\ TxD(tx_index) >= n
      /\ Tx!Load(<<last, "sta">>) = "done"
      /\ clean_index' = wrap_ring(last)
      /\ UNCHANGED <<mem, stores, tx_index, TDH, written_back, cached, pending>>
      /\ TDT' = TDT
  <2>1. Tx!cleanup_to = last
    BY DEF Tx!cleanup_to
  <2>2. TxD(tx_index) >= n
    BY SameRing DEF Tx!Recycle, Tx!Outstanding, TxD
  <2> HIDE DEF last
  <2> QED
    BY <2>1, <2>2, SameRing, RingAssumption
       DEF Tx!Recycle, Tx!TxOrderAssumption, Tx!cardVars, TxInv, TxTypes, TDT
<1>2. \A i \in Ring : TxD(i) \in 0 .. QS - 1
  BY TxDistances
<1>3. last \in Ring /\ TxD(last) = n - 1
  <2>1. n - 1 \in Ring /\ clean_index + n - 1 = clean_index + (n - 1)
    BY <1>1 DEF Ring
  <2> QED
    BY <1>1, <2>1, DistanceAhead DEF TxD
<1> HIDE DEF last
<1>4. TxD(last) < TxD(written_back)
  <2> SUFFICES ASSUME TxD(written_back) <= TxD(last) PROVE FALSE
    BY <1>1, <1>2, <1>3
  <2>1. TxD(last) < TxD(tx_index)
    BY <1>1, <1>2, <1>3
  <2>2. Tx!Load(<<last, "sta">>) = "busy"
    BY <1>3, <2>1, TxLoadBusy
  <2> QED
    BY <1>1, <2>2
<1>5. clean_index' \in Ring /\ TxD(clean_index') = n /\ n <= TxD(written_back)
  <2>1. TxD(last) < QS - 1
    BY <1>1, <1>3
  <2> QED
    BY <1>1, <1>2, <1>3, <1>4, <2>1, DistanceNext DEF TxD
<1>6. \A i \in Ring : TxD(i)' = IF n <= TxD(i) THEN TxD(i) - n ELSE TxD(i) - n + QS
  <2> SUFFICES ASSUME NEW i \in Ring
               PROVE  Distance(clean_index', i) = IF n <= TxD(i) THEN TxD(i) - n ELSE TxD(i) - n + QS
    BY DEF TxD
  <2> QED
    BY <1>1, <1>5, DistanceShift DEF TxD
<1>7. /\ n <= TxD(written_back) /\ n <= TxD(TDH) /\ n <= TxD(TDT) /\ n <= TxD(tx_index)
  BY <1>1, <1>2, <1>5 DEF TxInv, TxOrdered
<1>8. /\ TxD(written_back)' = TxD(written_back) - n /\ TxD(TDH)' = TxD(TDH) - n
      /\ TxD(TDT)' = TxD(TDT) - n /\ TxD(tx_index)' = TxD(tx_index) - n
  <2>1. /\ TxD(written_back)' = Distance(clean_index', written_back)
        /\ TxD(TDH)' = Distance(clean_index', TDH)
        /\ TxD(TDT)' = Distance(clean_index', TDT)
        /\ TxD(tx_index)' = Distance(clean_index', tx_index)
    BY <1>1 DEF TxD
  <2>2. \A i \in Ring : n <= TxD(i) => Distance(clean_index', i) = TxD(i) - n
    BY <1>6 DEF TxD
  <2> QED
    BY <1>1, <1>7, <2>1, <2>2
<1>9. ASSUME NEW i \in Ring, TxD(i)' < TxD(tx_index)'
      PROVE  n <= TxD(i) /\ TxD(i)' = TxD(i) - n /\ TxD(i) < TxD(tx_index)
  BY <1>1, <1>2, <1>6, <1>7, <1>8, <1>9
<1>10. ASSUME NEW i \in Ring, NEW x \in TxPart, n <= TxD(i)
       PROVE  TxWant(i, x)' = TxWant(i, x)
  <2>1. TxD(i)' - TxD(written_back)' = TxD(i) - TxD(written_back)
    BY <1>1, <1>2, <1>6, <1>8, <1>10
  <2> QED
    BY <1>1, <2>1 DEF TxWant
<1>11. TxTypes' /\ TxOrdered'
  <2>1. /\ TxD(written_back)' <= TxD(TDH)' /\ TxD(TDH)' <= TxD(TDT)' /\ TxD(TDT)' <= TxD(tx_index)'
        /\ Len(pending) = TxD(tx_index)' - TxD(written_back)'
    BY <1>1, <1>2, <1>8 DEF TxInv, TxOrdered, TxTypes
  <2> QED
    BY <1>1, <1>5, <2>1 DEF TxInv, TxTypes, TxOrdered
<1>12. TxLate'
  <2> SUFFICES ASSUME NEW k \in DOMAIN stores
      PROVE  /\ stores[k].place = <<"TDT">> =>
                  /\ stores[k].value \in Ring
                  /\ TxD(TDT)' <= Distance(clean_index', stores[k].value)
                  /\ Distance(clean_index', stores[k].value) <= TxD(tx_index)'
             /\ \A i \in Ring, x \in TxPart : stores[k].place = <<i, x>> =>
                  /\ TxD(TDT)' <= TxD(i)' /\ TxD(i)' < TxD(tx_index)'
                  /\ stores[k].value = TxWant(i, x)'
    BY <1>1 DEF TxLate, TxD
  <2>1. \A i \in Ring : TxD(TDT) <= TxD(i) => n <= TxD(i) /\ TxD(i)' = TxD(i) - n
    BY <1>1, <1>2, <1>6, <1>7
  <2>2. ASSUME stores[k].place = <<"TDT">>
        PROVE  /\ stores[k].value \in Ring
               /\ TxD(TDT)' <= Distance(clean_index', stores[k].value)
               /\ Distance(clean_index', stores[k].value) <= TxD(tx_index)'
    <3>1. PICK v : v = stores[k].value
      OBVIOUS
    <3>2. v \in Ring /\ TxD(TDT) <= TxD(v) /\ TxD(v) <= TxD(tx_index)
      BY <2>2, <3>1 DEF TxInv, TxLate
    <3>3. Distance(clean_index', v) = TxD(v) - n
      BY <2>1, <3>2 DEF TxD
    <3> QED
      BY <1>1, <1>2, <1>8, <3>1, <3>2, <3>3
  <2>3. ASSUME NEW i \in Ring, NEW x \in TxPart, stores[k].place = <<i, x>>
        PROVE  /\ TxD(TDT)' <= TxD(i)' /\ TxD(i)' < TxD(tx_index)'
               /\ stores[k].value = TxWant(i, x)'
    <3>1. /\ TxD(TDT) <= TxD(i) /\ TxD(i) < TxD(tx_index)
          /\ stores[k].value = TxWant(i, x)
      BY <2>3 DEF TxInv, TxLate
    <3> QED
      BY <1>1, <1>2, <1>8, <1>10, <2>1, <3>1
  <2> QED
    BY <2>2, <2>3
<1>13. TxTailLast'
  <2> SUFFICES ASSUME NEW k \in DOMAIN stores, NEW l \in DOMAIN stores, k < l,
                      stores[k].place = <<"TDT">>
      PROVE  /\ stores[l].place = <<"TDT">> =>
                  Distance(clean_index', stores[k].value) <= Distance(clean_index', stores[l].value)
             /\ \A i \in Ring, x \in TxPart : stores[l].place = <<i, x>> =>
                  Distance(clean_index', stores[k].value) <= TxD(i)'
    BY <1>1 DEF TxTailLast, TxD
  <2>1. \A i \in Ring : TxD(TDT) <= TxD(i) =>
          n <= TxD(i) /\ TxD(i)' = TxD(i) - n /\ Distance(clean_index', i) = TxD(i) - n
    BY <1>1, <1>2, <1>6, <1>7 DEF TxD
  <2>2. PICK v : v = stores[k].value
    OBVIOUS
  <2>3. v \in Ring /\ TxD(TDT) <= TxD(v)
    BY <2>2 DEF TxInv, TxLate
  <2>4. ASSUME stores[l].place = <<"TDT">>
        PROVE  Distance(clean_index', v) <= Distance(clean_index', stores[l].value)
    <3>1. PICK u : u = stores[l].value
      OBVIOUS
    <3>2. u \in Ring /\ TxD(TDT) <= TxD(u)
      BY <2>4, <3>1 DEF TxInv, TxLate
    <3>3. TxD(v) <= TxD(u)
      BY <2>2, <2>4, <3>1 DEF TxInv, TxTailLast
    <3> QED
      BY <1>1, <1>2, <2>1, <2>3, <3>1, <3>2, <3>3
  <2>5. ASSUME NEW i \in Ring, NEW x \in TxPart, stores[l].place = <<i, x>>
        PROVE  Distance(clean_index', v) <= TxD(i)'
    <3>1. TxD(TDT) <= TxD(i) /\ TxD(v) <= TxD(i)
      BY <2>2, <2>5 DEF TxInv, TxLate, TxTailLast
    <3> QED
      BY <1>1, <1>2, <2>1, <2>3, <3>1
  <2> QED
    BY <2>2, <2>4, <2>5
<1>14. TxArrived'
  <2> SUFFICES ASSUME NEW i \in Ring, NEW x \in TxPart, TxD(i)' < TxD(tx_index)',
                      (IF x \in Tx!Field THEN TxD(TDH)' ELSE TxD(written_back)') <= TxD(i)'
               PROVE  TxLateAt(<<i, x>>) \/ mem[<<i, x>>] = TxWant(i, x)'
    BY <1>1 DEF TxArrived, TxLateAt, TxD
  <2>1. n <= TxD(i) /\ TxD(i)' = TxD(i) - n /\ TxD(i) < TxD(tx_index)
    BY <1>9
  <2>2. TxD(IF x \in Tx!Field THEN TDH ELSE written_back) <= TxD(i)
    BY <1>1, <1>2, <1>8, <2>1
  <2> QED
    BY <1>10, <2>1, <2>2 DEF TxInv, TxArrived
<1>15. TxFetched'
  <2> SUFFICES ASSUME NEW i \in Ring, TxD(written_back)' <= TxD(i)', TxD(i)' < TxD(TDH)'
               PROVE  cached[i]
    BY <1>1 DEF TxFetched, TxD
  <2>1. TxD(i)' < TxD(tx_index)'
    BY <1>1, <1>2, <1>6, <1>8 DEF TxInv, TxOrdered
  <2>2. n <= TxD(i) /\ TxD(i)' = TxD(i) - n
    BY <1>9, <2>1
  <2> QED
    BY <1>1, <1>2, <1>8, <2>2 DEF TxInv, TxFetched
<1> QED
  BY <1>11, <1>12, <1>13, <1>14, <1>15 DEF TxInv

\* The oldest store arrives.
LEMMA TxArrives ==
  ASSUME InOrder = TRUE, TxInv, Tx!StoreArrives
  PROVE  /\ Len(stores) \in Nat \ {0} /\ 1 \in DOMAIN stores
         /\ mem' = [mem EXCEPT ![stores[1].place] = stores[1].value]
         /\ stores' \in Seq(TxStore) /\ DOMAIN stores' = 1 .. Len(stores) - 1
         /\ \A k \in DOMAIN stores' : k + 1 \in DOMAIN stores /\ stores'[k] = stores[k + 1]
         /\ UNCHANGED <<tx_index, clean_index, TDH, written_back, cached, wire, pending>>
<1>1. stores \in Seq(TxStore)
  BY DEF TxInv, TxTypes
<1>2. PICK k \in Tx!Drainable :
        /\ mem' = [mem EXCEPT ![stores[k].place] = stores[k].value]
        /\ stores' = Tx!RemoveAt(stores, k)
        /\ UNCHANGED <<tx_index, clean_index, TDH, written_back, cached, wire, pending>>
  BY DEF Tx!StoreArrives, Tx!Drain, Tx!driverVars, Tx!cardVars
<1>3. k = 1 /\ 1 \in DOMAIN stores
  BY DEF Tx!Drainable
<1>4. stores # << >> /\ Len(stores) \in Nat \ {0} /\ DOMAIN stores = 1 .. Len(stores)
  BY <1>1, <1>3
<1>5. /\ stores' \in Seq(TxStore) /\ Len(stores') = Len(stores) - 1
      /\ \A m \in 1 .. Len(stores) - 1 : stores'[m] = stores[m + 1]
  BY <1>1, <1>2, <1>3, <1>4, OldestRemoved
<1>6. DOMAIN stores' = 1 .. Len(stores) - 1
  BY <1>5
<1>7. \A m \in 1 .. Len(stores) - 1 : m + 1 \in 1 .. Len(stores)
  BY <1>4
<1> QED
  BY <1>2, <1>3, <1>4, <1>5, <1>6, <1>7

LEMMA TxArrivesKeeps ==
  ASSUME InOrder = TRUE, TxInv, Tx!StoreArrives
  PROVE  TxInv'
<1> DEFINE p == stores[1].place
           v == stores[1].value
<1>1. /\ 1 \in DOMAIN stores /\ mem' = [mem EXCEPT ![p] = v]
      /\ stores' \in Seq(TxStore)
      /\ \A k \in DOMAIN stores' : k + 1 \in DOMAIN stores /\ stores'[k] = stores[k + 1]
      /\ \A k \in DOMAIN stores : k = 1 \/ (k - 1 \in DOMAIN stores' /\ stores'[k - 1] = stores[k])
      /\ \A k \in DOMAIN stores' : k \in Nat \ {0}
      /\ UNCHANGED <<tx_index, clean_index, TDH, written_back, cached, pending>>
  <2>1. /\ DOMAIN stores = 1 .. Len(stores) /\ Len(stores) \in Nat \ {0}
        /\ DOMAIN stores' = 1 .. Len(stores) - 1
    BY TxArrives DEF TxInv, TxTypes
  <2>2. \A k \in DOMAIN stores' : k + 1 \in DOMAIN stores /\ stores'[k] = stores[k + 1]
    BY TxArrives
  <2>3. \A k \in DOMAIN stores : k = 1 \/ (k - 1 \in DOMAIN stores' /\ (k - 1) + 1 = k)
    BY <2>1
  <2>4. \A k \in DOMAIN stores' : k \in Nat \ {0}
    BY <2>1
  <2> QED
    BY <2>2, <2>3, <2>4, TxArrives
<1>2. p \in Tx!Place /\ DOMAIN mem = Tx!Place
  <2>1. stores[1] \in TxStore
    BY <1>1 DEF TxInv, TxTypes
  <2> QED
    BY <2>1 DEF TxStore, TxInv, TxTypes
<1>3. /\ \A i \in Ring : TxD(i) \in 0 .. QS - 1 /\ TxD(i)' = TxD(i)
      /\ \A i \in Ring, x \in TxPart : TxWant(i, x)' = TxWant(i, x)
      /\ {tx_index, clean_index, TDH, written_back, TDT} \subseteq Ring
  BY <1>1, TxDistances DEF TxD, TxWant, TxInv, TxTypes
<1> HIDE DEF p, v
<1>4. TDT' = IF p = <<"TDT">> THEN v ELSE TDT
  BY <1>1, <1>2, TxPlaces DEF TDT
<1>5. /\ TDT' \in Ring /\ TxD(TDT) <= TxD(TDT') /\ TxD(TDT') <= TxD(tx_index)
  <2>1. CASE p = <<"TDT">>
    BY <1>1, <1>4, <2>1 DEF TxInv, TxLate, p, v
  <2>2. CASE p # <<"TDT">>
    BY <1>3, <1>4, <2>2 DEF TxInv, TxOrdered
  <2> QED
    BY <2>1, <2>2
<1>6. TxTypes' /\ TxOrdered'
  <2>1. DOMAIN mem' = Tx!Place
    BY <1>1, <1>2
  <2>2. /\ TxD(written_back)' = TxD(written_back) /\ TxD(TDH)' = TxD(TDH)
        /\ TxD(TDT)' = TxD(TDT') /\ TxD(tx_index)' = TxD(tx_index)
    BY <1>1 DEF TxD
  <2>3. TxD(TDH) <= TxD(TDT')
    BY <1>3, <1>5 DEF TxInv, TxOrdered
  <2> QED
    BY <1>1, <1>5, <2>1, <2>2, <2>3 DEF TxInv, TxTypes, TxOrdered
<1>7. TxLate'
  <2> SUFFICES ASSUME NEW k \in DOMAIN stores'
      PROVE  /\ stores'[k].place = <<"TDT">> =>
                  /\ stores'[k].value \in Ring
                  /\ TxD(TDT') <= TxD(stores'[k].value) /\ TxD(stores'[k].value) <= TxD(tx_index)
             /\ \A i \in Ring, x \in TxPart : stores'[k].place = <<i, x>> =>
                  /\ TxD(TDT') <= TxD(i) /\ TxD(i) < TxD(tx_index)
                  /\ stores'[k].value = TxWant(i, x)'
    BY <1>1 DEF TxLate, TxD
  <2>1. PICK l \in DOMAIN stores : l = k + 1 /\ stores'[k] = stores[l] /\ 1 < l
    BY <1>1
  <2>2. ASSUME stores[l].place = <<"TDT">>
        PROVE  /\ stores[l].value \in Ring
               /\ TxD(TDT') <= TxD(stores[l].value) /\ TxD(stores[l].value) <= TxD(tx_index)
    <3>1. /\ stores[l].value \in Ring
          /\ TxD(TDT) <= TxD(stores[l].value) /\ TxD(stores[l].value) <= TxD(tx_index)
      BY <2>2 DEF TxInv, TxLate
    <3>2. p = <<"TDT">> => TxD(v) <= TxD(stores[l].value)
      BY <1>1, <2>1, <2>2 DEF TxInv, TxTailLast, p, v
    <3> QED
      BY <1>4, <3>1, <3>2
  <2>3. ASSUME NEW i \in Ring, NEW x \in TxPart, stores[l].place = <<i, x>>
        PROVE  /\ TxD(TDT') <= TxD(i) /\ TxD(i) < TxD(tx_index)
               /\ stores[l].value = TxWant(i, x)
    <3>1. /\ TxD(TDT) <= TxD(i) /\ TxD(i) < TxD(tx_index)
          /\ stores[l].value = TxWant(i, x)
      BY <2>3 DEF TxInv, TxLate
    <3>2. p = <<"TDT">> => TxD(v) <= TxD(i)
      BY <1>1, <2>1, <2>3 DEF TxInv, TxTailLast, p, v
    <3> QED
      BY <1>4, <3>1, <3>2
  <2> QED
    BY <1>3, <2>1, <2>2, <2>3
<1>8. TxTailLast'
  <2> SUFFICES ASSUME NEW k \in DOMAIN stores', NEW l \in DOMAIN stores', k < l,
                      stores'[k].place = <<"TDT">>
      PROVE  /\ stores'[l].place = <<"TDT">> => TxD(stores'[k].value) <= TxD(stores'[l].value)
             /\ \A i \in Ring, x \in TxPart :
                  stores'[l].place = <<i, x>> => TxD(stores'[k].value) <= TxD(i)
    BY <1>1 DEF TxTailLast, TxD
  <2>1. k + 1 \in DOMAIN stores /\ l + 1 \in DOMAIN stores /\ k + 1 < l + 1
    BY <1>1
  <2> QED
    BY <1>1, <2>1 DEF TxInv, TxTailLast
<1>9. \A place : TxLateAt(place) => place = p \/ TxLateAt(place)'
  BY <1>1 DEF TxLateAt, p
<1>10. TxArrived'
  <2> SUFFICES ASSUME NEW i \in Ring, NEW x \in TxPart, TxD(i) < TxD(tx_index),
                      TxD(IF x \in Tx!Field THEN TDH ELSE written_back) <= TxD(i)
               PROVE  TxLateAt(<<i, x>>)' \/ mem'[<<i, x>>] = TxWant(i, x)
    <3> SUFFICES ASSUME NEW i \in Ring, NEW x \in TxPart, (TxD(i) < TxD(tx_index))',
                        (TxD(IF x \in Tx!Field THEN TDH ELSE written_back) <= TxD(i))'
                 PROVE  TxLateAt(<<i, x>>)' \/ mem'[<<i, x>>] = TxWant(i, x)'
      BY DEF TxArrived
    <3>1. TxD(i) < TxD(tx_index) /\ TxD(IF x \in Tx!Field THEN TDH ELSE written_back) <= TxD(i)
      BY <1>1 DEF TxD
    <3> QED
      BY <1>3, <3>1
  <2>1. TxLateAt(<<i, x>>) \/ mem[<<i, x>>] = TxWant(i, x)
    BY DEF TxInv, TxArrived
  <2>2. CASE p = <<i, x>>
    <3>1. mem'[<<i, x>>] = v
      BY <1>1, <1>2, <2>2
    <3>2. v = TxWant(i, x)
      BY <1>1, <2>2 DEF TxInv, TxLate, p, v
    <3> QED
      BY <3>1, <3>2
  <2>3. CASE p # <<i, x>>
    <3>1. mem'[<<i, x>>] = mem[<<i, x>>]
      BY <1>1, <1>2, <2>3, TxPlaces
    <3>2. TxLateAt(<<i, x>>) => TxLateAt(<<i, x>>)'
      BY <1>9, <2>3
    <3> QED
      BY <2>1, <3>1, <3>2
  <2> QED
    BY <2>2, <2>3
<1>11. TxFetched'
  BY <1>1 DEF TxInv, TxFetched, TxD
<1> QED
  BY <1>6, <1>7, <1>8, <1>10, <1>11 DEF TxInv

\* What send stores: all parts of one descriptor, and TDT at last.
LEMMA TxSendStores ==
  ASSUME NEW f \in Frame, NEW t \in Ring, tx_index = t
  PROVE  /\ Tx!SendStores(f) \in Seq(TxStore) /\ Len(Tx!SendStores(f)) = 7
         /\ Tx!SendStores(f)[7] = [place |-> <<"TDT">>, value |-> wrap_ring(t)]
         /\ \A k \in 1 .. 6 : \E x \in TxPart :
              Tx!SendStores(f)[k] =
                [place |-> <<t, x>>,
                 value |-> CASE x = "payload" -> f [] x = "sta" -> "busy" [] OTHER -> "set"]
         /\ \A x \in TxPart : \E k \in 1 .. 6 : Tx!SendStores(f)[k].place = <<t, x>>
<1> DEFINE a == [place |-> <<t, "payload">>, value |-> f]
           s(x) == [place |-> <<t, x>>, value |-> "set"]
           d == [place |-> <<t, "sta">>, value |-> "busy"]
           e == [place |-> <<"TDT">>, value |-> wrap_ring(t)]
<1>2. /\ TxPart = {"addr", "data_len", "dtyp", "dcmd", "sta", "payload"}
      /\ wrap_ring(t) \in Ring
  BY DistanceNext DEF TxPart, Tx!Field
<1>3. {a, s("addr"), s("data_len"), s("dtyp"), d, s("dcmd"), e} \subseteq TxStore
  BY <1>2, TxPlaces DEF TxStore
<1>4. PICK n : n = Tx!SendStores(f)
  OBVIOUS
<1>1. PICK u, v, w : /\ u = <<a>> /\ w = <<e>>
                     /\ v = <<s("addr"), s("data_len"), s("dtyp"), d, s("dcmd")>>
  OBVIOUS
<1>10. n = (u \o v) \o w
  BY <1>1, <1>4, SameRing DEF Tx!SendStores, Tx!DescriptorStores, Tx!Store
<1>11. /\ u \in Seq(TxStore) /\ Len(u) = 1 /\ u[1] = a
       /\ v \in Seq(TxStore) /\ Len(v) = 5
       /\ v[1] = s("addr") /\ v[2] = s("data_len") /\ v[3] = s("dtyp") /\ v[4] = d
       /\ v[5] = s("dcmd")
       /\ w \in Seq(TxStore) /\ Len(w) = 1 /\ w[1] = e
  <2> HIDE DEF a, s, d, e
  <2> QED
    BY <1>1, <1>3
<1> HIDE DEF a, s, d, e
<1>12. PICK q : q = u \o v
  OBVIOUS
<1>13. /\ q \in Seq(TxStore) /\ Len(q) = 6 /\ q[1] = a
       /\ q[2] = v[1] /\ q[3] = v[2] /\ q[4] = v[3] /\ q[5] = v[4] /\ q[6] = v[5]
  <2>1. q \in Seq(TxStore) /\ Len(q) = 6
        /\ \A i \in 1 .. 6 : q[i] = IF i <= 1 THEN u[i] ELSE v[i - 1]
    <3>1. /\ q \in Seq(TxStore) /\ Len(q) = Len(u) + Len(v)
          /\ \A i \in 1 .. Len(u) + Len(v) : q[i] = IF i <= Len(u) THEN u[i] ELSE v[i - Len(u)]
      <4>1. u \in Seq(TxStore) /\ v \in Seq(TxStore)
        BY <1>11, <1>12
      <4> QED
        BY <1>12, <4>1, ConcatProperties
    <3>2. Len(u) = 1 /\ Len(v) = 5 /\ 1 + 5 = 6
      BY <1>11, <1>12
    <3> QED
      BY <3>1, <3>2
  <2> QED
    BY <1>11, <2>1
<1>5. /\ n[1] = a /\ n[2] = s("addr") /\ n[3] = s("data_len") /\ n[4] = s("dtyp")
      /\ n[5] = d /\ n[6] = s("dcmd") /\ n[7] = e /\ Len(n) = 7 /\ n \in Seq(TxStore)
  <2>1. n \in Seq(TxStore) /\ Len(n) = 7
        /\ \A i \in 1 .. 7 : n[i] = IF i <= 6 THEN q[i] ELSE w[i - 6]
    <3>1. /\ n \in Seq(TxStore) /\ Len(n) = Len(q) + Len(w)
          /\ \A i \in 1 .. Len(q) + Len(w) : n[i] = IF i <= Len(q) THEN q[i] ELSE w[i - Len(q)]
      <4>1. q \in Seq(TxStore) /\ w \in Seq(TxStore)
        BY <1>11, <1>10, <1>12, <1>13
      <4>2. n = q \o w
        BY <1>10, <1>12
      <4> QED
        BY <4>1, <4>2, ConcatProperties
    <3>2. Len(q) = 6 /\ Len(w) = 1 /\ 6 + 1 = 7
      BY <1>11, <1>10, <1>12, <1>13
    <3> QED
      BY <3>1, <3>2
  <2> QED
    BY <1>11, <1>13, <2>1
<1> USE DEF a, s, d, e
<1>7. \A k \in 1 .. 6 : k = 1 \/ k = 2 \/ k = 3 \/ k = 4 \/ k = 5 \/ k = 6
  OBVIOUS
<1>8. \A k \in 1 .. 6 : \E x \in TxPart :
        n[k] = [place |-> <<t, x>>,
                value |-> CASE x = "payload" -> f [] x = "sta" -> "busy" [] OTHER -> "set"]
  <2> SUFFICES ASSUME NEW k \in 1 .. 6
      PROVE \E x \in TxPart :
        n[k] = [place |-> <<t, x>>,
                value |-> CASE x = "payload" -> f [] x = "sta" -> "busy" [] OTHER -> "set"]
    OBVIOUS
  <2>1. CASE k = 1
    BY <1>2, <1>5, <2>1
  <2>2. CASE k = 5
    BY <1>2, <1>5, <2>2
  <2>3. CASE k = 2
    BY <1>2, <1>5, <2>3
  <2>4. CASE k = 3
    BY <1>2, <1>5, <2>4
  <2>5. CASE k = 4
    BY <1>2, <1>5, <2>5
  <2>6. CASE k = 6
    BY <1>2, <1>5, <2>6
  <2> QED
    BY <1>7, <2>1, <2>2, <2>3, <2>4, <2>5, <2>6
<1>9. \A x \in TxPart : \E k \in 1 .. 6 : n[k].place = <<t, x>>
  <2>1. /\ n[1].place = <<t, "payload">> /\ n[2].place = <<t, "addr">>
        /\ n[3].place = <<t, "data_len">> /\ n[4].place = <<t, "dtyp">>
        /\ n[5].place = <<t, "sta">> /\ n[6].place = <<t, "dcmd">>
    BY <1>5
  <2>2. {1, 2, 3, 4, 5, 6} \subseteq 1 .. 6
    OBVIOUS
  <2> QED
    BY <1>2, <2>1, <2>2
<1> QED
  BY <1>4, <1>5, <1>8, <1>9

\* send's stores wait behind those that are late.
LEMMA TxSends ==
  ASSUME TxInv, NEW f \in Frame, Tx!Send(f), NEW t \in Ring, t = tx_index
  PROVE  /\ stores' \in Seq(TxStore)
         /\ \A k \in DOMAIN stores : k \in DOMAIN stores' /\ stores'[k] = stores[k]
         /\ \A k \in DOMAIN stores' :
              \/ k \in DOMAIN stores
              \/ \E x \in TxPart :
                   stores'[k] =
                     [place |-> <<t, x>>,
                      value |-> CASE x = "payload" -> f [] x = "sta" -> "busy" [] OTHER -> "set"]
              \/ /\ stores'[k] = [place |-> <<"TDT">>, value |-> wrap_ring(t)]
                 /\ \A l \in DOMAIN stores' : l <= k
         /\ \A x \in TxPart : \E k \in DOMAIN stores' : stores'[k].place = <<t, x>>
<1> DEFINE part(x) == [place |-> <<t, x>>,
                       value |-> CASE x = "payload" -> f [] x = "sta" -> "busy" [] OTHER -> "set"]
           tail == [place |-> <<"TDT">>, value |-> wrap_ring(t)]
<1>1. PICK s : s = Tx!SendStores(f)
  OBVIOUS
<1>2. /\ s \in Seq(TxStore) /\ Len(s) = 7 /\ s[7] = tail
      /\ \A k \in 1 .. 6 : \E x \in TxPart : s[k] = part(x)
      /\ \A x \in TxPart : \E k \in 1 .. 6 : s[k].place = <<t, x>>
  BY <1>1, TxSendStores
<1> HIDE DEF part, tail
<1>3. stores \in Seq(TxStore) /\ stores' = stores \o s
  BY <1>1 DEF Tx!Send, TxInv, TxTypes
<1>4. PICK n \in Nat : n = Len(stores)
  BY <1>3
<1>5. /\ stores' \in Seq(TxStore) /\ Len(stores') = n + 7
      /\ \A i \in 1 .. n + 7 : stores'[i] = IF i <= n THEN stores[i] ELSE s[i - n]
  <2>1. /\ stores' \in Seq(TxStore) /\ Len(stores') = Len(stores) + Len(s)
        /\ \A i \in 1 .. Len(stores) + Len(s) :
             stores'[i] = IF i <= Len(stores) THEN stores[i] ELSE s[i - Len(stores)]
    BY <1>2, <1>3, ConcatProperties
  <2> QED
    BY <1>2, <1>4, <2>1
<1>6. DOMAIN stores = 1 .. n /\ DOMAIN stores' = 1 .. n + 7
  BY <1>3, <1>4, <1>5
<1>7. \A k \in 1 .. n : k \in 1 .. n + 7 /\ stores'[k] = stores[k]
  BY <1>4, <1>5
<1>8. ASSUME NEW k \in 1 .. n + 7
      PROVE  \/ k \in 1 .. n
             \/ \E x \in TxPart : stores'[k] = part(x)
             \/ stores'[k] = tail /\ \A l \in 1 .. n + 7 : l <= k
  <2>1. CASE k <= n
    BY <1>4, <2>1
  <2>2. CASE n < k /\ k < n + 7
    <3>1. k - n \in 1 .. 6 /\ ~(k <= n)
      BY <1>4, <2>2
    <3>2. stores'[k] = s[k - n]
      BY <1>5, <3>1
    <3> QED
      BY <1>2, <3>1, <3>2
  <2>3. CASE k = n + 7
    <3>1. ~(k <= n) /\ k - n = 7 /\ \A l \in 1 .. n + 7 : l <= k
      BY <1>4, <2>3
    <3>2. stores'[k] = s[k - n]
      BY <1>5, <3>1
    <3> QED
      BY <1>2, <3>1, <3>2
  <2> QED
    BY <1>4, <2>1, <2>2, <2>3
<1>9. ASSUME NEW x \in TxPart
      PROVE  \E k \in 1 .. n + 7 : stores'[k].place = <<t, x>>
  <2>1. PICK m \in 1 .. 6 : s[m].place = <<t, x>>
    BY <1>2
  <2>2. n + m \in 1 .. n + 7 /\ ~(n + m <= n) /\ (n + m) - n = m
    BY <1>4
  <2>3. stores'[n + m] = s[m]
    BY <1>5, <2>2
  <2> QED
    BY <2>1, <2>2, <2>3
<1>10. stores' \in Seq(TxStore)
  BY <1>5
<1> QED
  BY <1>6, <1>7, <1>8, <1>9, <1>10 DEF part, tail

LEMMA SendKeeps ==
  ASSUME TxInv, NEW f \in Frame, Tx!Send(f)
  PROVE  /\ TxInv'
         /\ Len(pending) < QS - 1 /\ pending' = Append(pending, f) /\ wire' = wire
<1>0. PICK t \in Ring : t = tx_index
  BY DEF TxInv, TxTypes
<1>1. /\ {t, clean_index, TDH, written_back, TDT} \subseteq Ring
      /\ tx_index' = wrap_ring(t) /\ wrap_ring(t) # clean_index
      /\ pending' = Append(pending, f)
      /\ UNCHANGED <<mem, clean_index, TDH, written_back, cached, wire>>
      /\ TDT' = TDT /\ QS \in Nat
  BY <1>0, SameRing, RingAssumption
     DEF Tx!Send, Tx!can_send, Tx!cardVars, TDT, TxInv, TxTypes
<1>2. \A i \in Ring : TxD(i) \in 0 .. QS - 1 /\ TxD(i)' = TxD(i)
  BY <1>1, TxDistances DEF TxD
<1>3. wrap_ring(t) \in Ring /\ TxD(t) < QS - 1 /\ TxD(wrap_ring(t)) = TxD(t) + 1
  <2>1. Distance(clean_index, t) # QS - 1
    BY <1>1, DistanceNext
  <2>2. Distance(clean_index, t) < QS - 1
    BY <1>1, <1>2, <2>1 DEF TxD
  <2> QED
    BY <1>1, <2>2, DistanceNext DEF TxD
<1>4. /\ TxD(tx_index)' = TxD(t) + 1 /\ TxD(written_back)' = TxD(written_back)
      /\ TxD(TDH)' = TxD(TDH) /\ TxD(TDT)' = TxD(TDT)
  BY <1>1, <1>3 DEF TxD
<1>5. /\ stores' \in Seq(TxStore)
      /\ \A k \in DOMAIN stores : k \in DOMAIN stores' /\ stores'[k] = stores[k]
      /\ \A k \in DOMAIN stores' :
              \/ k \in DOMAIN stores
              \/ \E x \in TxPart :
                   stores'[k] =
                     [place |-> <<t, x>>,
                      value |-> CASE x = "payload" -> f [] x = "sta" -> "busy" [] OTHER -> "set"]
              \/ /\ stores'[k] = [place |-> <<"TDT">>, value |-> wrap_ring(t)]
                 /\ \A l \in DOMAIN stores' : l <= k
      /\ \A x \in TxPart : \E k \in DOMAIN stores' : stores'[k].place = <<t, x>>
      /\ DOMAIN stores' \subseteq Nat
  <2>1. DOMAIN stores' \subseteq Nat
    BY TxSends
  <2> QED
    BY <1>0, <2>1, TxSends
<1>6. /\ Len(pending) = TxD(t) - TxD(written_back) /\ pending \in Seq(Frame)
      /\ TxD(written_back) <= TxD(TDH) /\ TxD(TDH) <= TxD(TDT) /\ TxD(TDT) <= TxD(t)
  BY <1>0 DEF TxInv, TxTypes, TxOrdered
<1>7. /\ pending' \in Seq(Frame) /\ Len(pending') = TxD(t) + 1 - TxD(written_back)
      /\ \A n \in 1 .. TxD(t) - TxD(written_back) : pending'[n] = pending[n]
      /\ pending'[TxD(t) - TxD(written_back) + 1] = f
  BY <1>1, <1>2, <1>6, AppendProperties
<1>8. ASSUME NEW i \in Ring, NEW x \in TxPart,
             TxD(written_back) <= TxD(i), TxD(i) < TxD(t)
      PROVE  TxWant(i, x)' = TxWant(i, x)
  <2>1. TxD(i) - TxD(written_back) + 1 \in 1 .. TxD(t) - TxD(written_back)
    BY <1>1, <1>2, <1>8
  <2>2. /\ TxD(i)' = TxD(i) /\ TxD(written_back)' = TxD(written_back)
        /\ pending'[TxD(i) - TxD(written_back) + 1] = pending[TxD(i) - TxD(written_back) + 1]
    BY <1>2, <1>4, <1>7, <2>1
  <2> QED
    BY <2>2 DEF TxWant
<1>9. ASSUME NEW x \in TxPart
      PROVE  TxWant(t, x)' = CASE x = "payload" -> f [] x = "sta" -> "busy" [] OTHER -> "set"
  <2>1. TxD(t)' - TxD(written_back)' + 1 = TxD(t) - TxD(written_back) + 1
    BY <1>2, <1>4
  <2>2. pending'[TxD(t)' - TxD(written_back)' + 1] = f
    BY <1>7, <2>1
  <2> QED
    BY <2>2 DEF TxWant
<1>10. TxTypes' /\ TxOrdered'
  <2>1. DOMAIN mem' = Tx!Place /\ cached' \in [Ring -> BOOLEAN]
    BY <1>1 DEF TxInv, TxTypes
  <2> QED
    BY <1>1, <1>2, <1>3, <1>4, <1>5, <1>6, <1>7, <2>1 DEF TxTypes, TxOrdered
<1>11. TxLate'
  <2> SUFFICES ASSUME NEW k \in DOMAIN stores'
      PROVE  /\ stores'[k].place = <<"TDT">> =>
                  /\ stores'[k].value \in Ring
                  /\ TxD(TDT) <= TxD(stores'[k].value) /\ TxD(stores'[k].value) <= TxD(t) + 1
             /\ \A i \in Ring, x \in TxPart : stores'[k].place = <<i, x>> =>
                  /\ TxD(TDT) <= TxD(i) /\ TxD(i) < TxD(t) + 1
                  /\ stores'[k].value = TxWant(i, x)'
    <3>1. /\ \A i \in Ring : TxD(i)' = TxD(i)
          /\ \A v : Distance(clean_index', v) = Distance(clean_index, v)
      BY <1>1, <1>2
    <3> QED
      BY <1>4, <3>1 DEF TxLate, TxD
  <2>1. CASE k \in DOMAIN stores
    <3>1. stores'[k] = stores[k]
      BY <1>5, <2>1
    <3>2. ASSUME stores[k].place = <<"TDT">>
          PROVE  /\ stores[k].value \in Ring
                 /\ TxD(TDT) <= TxD(stores[k].value) /\ TxD(stores[k].value) <= TxD(t) + 1
      <4>1. PICK v \in Ring : v = stores[k].value
        BY <2>1, <3>2 DEF TxInv, TxLate
      <4>2. TxD(TDT) <= TxD(v) /\ TxD(v) <= TxD(t)
        BY <1>0, <2>1, <3>2, <4>1 DEF TxInv, TxLate
      <4>3. TxD(v) <= TxD(t) + 1
        BY <1>2, <4>2
      <4> QED
        BY <4>1, <4>2, <4>3
    <3>3. ASSUME NEW i \in Ring, NEW x \in TxPart, stores[k].place = <<i, x>>
          PROVE  /\ TxD(TDT) <= TxD(i) /\ TxD(i) < TxD(t) + 1
                 /\ stores[k].value = TxWant(i, x)'
      <4>1. TxD(TDT) <= TxD(i) /\ TxD(i) < TxD(t) /\ stores[k].value = TxWant(i, x)
        BY <1>0, <2>1, <3>3 DEF TxInv, TxLate
      <4>2. TxD(written_back) <= TxD(i) /\ TxD(i) < TxD(t) + 1
        BY <1>1, <1>2, <1>6, <4>1
      <4> QED
        BY <1>8, <4>1, <4>2
    <3> QED
      BY <3>1, <3>2, <3>3
  <2>2. ASSUME NEW y \in TxPart,
               stores'[k] = [place |-> <<t, y>>,
                 value |-> CASE y = "payload" -> f [] y = "sta" -> "busy" [] OTHER -> "set"]
        PROVE  /\ stores'[k].place # <<"TDT">>
               /\ \A i \in Ring, x \in TxPart : stores'[k].place = <<i, x>> =>
                    /\ TxD(TDT) <= TxD(i) /\ TxD(i) < TxD(t) + 1
                    /\ stores'[k].value = TxWant(i, x)'
    <3>1. stores'[k].place = <<t, y>> /\ stores'[k].value = TxWant(t, y)'
      BY <1>9, <2>2
    <3>2. TxD(TDT) <= TxD(t) /\ TxD(t) < TxD(t) + 1
      BY <1>2, <1>6
    <3>3. \A i, x : <<t, y>> = <<i, x>> => i = t /\ x = y
      OBVIOUS
    <3> QED
      BY <3>1, <3>2, <3>3, TxPlaces
  <2>3. ASSUME stores'[k] = [place |-> <<"TDT">>, value |-> wrap_ring(t)]
        PROVE  /\ stores'[k].place = <<"TDT">> /\ stores'[k].value = wrap_ring(t)
               /\ TxD(TDT) <= TxD(wrap_ring(t)) /\ TxD(wrap_ring(t)) <= TxD(t) + 1
    <3>1. TxD(TDT) <= TxD(t) + 1 /\ TxD(t) + 1 <= TxD(t) + 1
      BY <1>1, <1>2, <1>6
    <3> QED
      BY <1>3, <2>3, <3>1
  <2> QED
    BY <1>3, <1>5, <2>1, <2>2, <2>3, TxPlaces
<1>16. ASSUME NEW k \in DOMAIN stores'
       PROVE  \/ k \in DOMAIN stores
              \/ \E y \in TxPart : stores'[k].place = <<t, y>>
              \/ /\ stores'[k] = [place |-> <<"TDT">>, value |-> wrap_ring(t)]
                 /\ \A l \in DOMAIN stores' : l <= k
  <2>1. ASSUME NEW y \in TxPart,
               stores'[k] = [place |-> <<t, y>>,
                 value |-> CASE y = "payload" -> f [] y = "sta" -> "busy" [] OTHER -> "set"]
        PROVE  stores'[k].place = <<t, y>>
    BY <2>1
  <2> QED
    BY <1>5, <2>1
<1>12. TxTailLast'
  <2> SUFFICES ASSUME NEW k \in DOMAIN stores', NEW l \in DOMAIN stores', k < l,
                      stores'[k].place = <<"TDT">>
      PROVE  /\ stores'[l].place = <<"TDT">> => TxD(stores'[k].value) <= TxD(stores'[l].value)
             /\ \A i \in Ring, x \in TxPart :
                  stores'[l].place = <<i, x>> => TxD(stores'[k].value) <= TxD(i)
    BY <1>1 DEF TxTailLast, TxD
  <2>1. k \in DOMAIN stores /\ stores'[k] = stores[k]
    <3>1. ~(\A m \in DOMAIN stores' : m <= k)
      BY <1>5
    <3>2. ~\E y \in TxPart : stores'[k].place = <<t, y>>
      BY TxPlaces
    <3> QED
      BY <1>5, <1>16, <3>1, <3>2
  <2>2. PICK v \in Ring : v = stores[k].value /\ TxD(v) <= TxD(t)
    BY <1>0, <2>1 DEF TxInv, TxLate
  <2>3. CASE l \in DOMAIN stores
    BY <1>5, <2>1, <2>3 DEF TxInv, TxTailLast
  <2>4. ASSUME NEW y \in TxPart, stores'[l].place = <<t, y>>
        PROVE  /\ stores'[l].place # <<"TDT">>
               /\ \A i \in Ring, x \in TxPart :
                    stores'[l].place = <<i, x>> => TxD(stores'[k].value) <= TxD(i)
    <3>1. \A i, x : <<t, y>> = <<i, x>> => i = t
      OBVIOUS
    <3> QED
      BY <2>1, <2>2, <2>4, <3>1, TxPlaces
  <2>5. ASSUME stores'[l] = [place |-> <<"TDT">>, value |-> wrap_ring(t)]
        PROVE  /\ stores'[l].place = <<"TDT">>
               /\ TxD(stores'[k].value) <= TxD(stores'[l].value)
    <3>1. TxD(v) <= TxD(t) + 1
      BY <1>2, <2>2
    <3> QED
      BY <1>3, <2>1, <2>2, <2>5, <3>1
  <2> QED
    BY <1>16, <2>3, <2>4, <2>5, TxPlaces
<1>13. TxArrived'
  <2> SUFFICES ASSUME NEW i \in Ring, NEW x \in TxPart, (TxD(i) < TxD(tx_index))',
                      (TxD(IF x \in Tx!Field THEN TDH ELSE written_back) <= TxD(i))'
               PROVE  TxLateAt(<<i, x>>)' \/ mem'[<<i, x>>] = TxWant(i, x)'
    BY DEF TxArrived
  <2>1. TxD(i) < TxD(t) + 1 /\ TxD(IF x \in Tx!Field THEN TDH ELSE written_back) <= TxD(i)
    <3>1. TxD(i)' = TxD(i) /\ TxD(tx_index)' = TxD(t) + 1
      BY <1>2, <1>4
    <3>2. TxD(IF x \in Tx!Field THEN TDH ELSE written_back) <= TxD(i)
      BY <1>1, <1>2 DEF TxD
    <3> QED
      BY <3>1, <3>2
  <2>2. CASE i = t
    BY <1>5, <2>2 DEF TxLateAt
  <2>3. CASE i # t
    <3>1. TxD(i) # TxD(t)
      BY <1>1, <2>3, DistanceRange DEF TxD
    <3>2. TxD(i) < TxD(t) /\ TxD(written_back) <= TxD(i)
      BY <1>1, <1>2, <1>6, <2>1, <3>1
    <3>3. TxLateAt(<<i, x>>) \/ mem[<<i, x>>] = TxWant(i, x)
      BY <1>0, <2>1, <3>2 DEF TxInv, TxArrived
    <3>4. TxLateAt(<<i, x>>) => TxLateAt(<<i, x>>)'
      BY <1>5 DEF TxLateAt
    <3> QED
      BY <1>1, <1>8, <3>2, <3>3, <3>4
  <2> QED
    BY <2>2, <2>3
<1>14. TxFetched'
  BY <1>1 DEF TxInv, TxFetched, TxD
<1>15. Len(pending) < QS - 1
  BY <1>1, <1>2, <1>3, <1>6
<1> QED
  BY <1>1, <1>10, <1>11, <1>12, <1>13, <1>14, <1>15 DEF TxInv

-----------------------------------------------------------------------------
(* TxOrder: the theorems.                                                  *)

\* With the last frame transmitted.
TxWire == wire \in Frame \cup {NoFrame}

LEMMA TxStep ==
  ASSUME Tx!TxOrderAssumption, InOrder = TRUE, TxInv, TxWire, [Tx!Next]_(Tx!vars)
  PROVE  TxInv' /\ TxWire' /\ [Tx!Fifo!Next]_(Tx!Fifo!fifoVars)
<1>1. CASE UNCHANGED Tx!vars
  <2>1. UNCHANGED <<mem, stores, tx_index, clean_index, TDH, written_back, cached, wire, pending>>
    BY <1>1 DEF Tx!vars, Tx!driverVars, Tx!cardVars
  <2>2. TxInv'
    <3>1. TxTypes' /\ TxOrdered'
      BY <2>1 DEF TxInv, TxTypes, TxOrdered, TxD, TDT
    <3>2. TxLate' /\ TxTailLast'
      BY <2>1 DEF TxInv, TxLate, TxTailLast, TxWant, TxD, TDT
    <3>3. TxArrived' /\ TxFetched'
      BY <2>1 DEF TxInv, TxArrived, TxFetched, TxLateAt, TxWant, TxD
    <3> QED
      BY <3>1, <3>2, <3>3 DEF TxInv
  <2> QED
    BY <2>1, <2>2 DEF TxWire, Tx!Fifo!fifoVars
<1>2. ASSUME NEW f \in Frame, Tx!Send(f)
      PROVE  TxInv' /\ TxWire' /\ Tx!Fifo!Next
  <2>1. TxInv' /\ Len(pending) < QS - 1 /\ pending' = Append(pending, f) /\ wire' = wire
    BY <1>2, SendKeeps
  <2> QED
    BY <2>1 DEF TxWire, Tx!Fifo!Next, Tx!Fifo!Put
<1>3. CASE Tx!Recycle
  <2>1. UNCHANGED <<wire, pending>>
    BY <1>3 DEF Tx!Recycle, Tx!cardVars
  <2> QED
    BY <1>3, <2>1, RecycleKeeps DEF TxWire, Tx!Fifo!fifoVars
<1>4. CASE Tx!StoreArrives
  <2>1. UNCHANGED <<wire, pending>>
    BY <1>4 DEF Tx!StoreArrives, Tx!cardVars
  <2> QED
    BY <1>4, <2>1, TxArrivesKeeps DEF TxWire, Tx!Fifo!fifoVars
<1>5. CASE Tx!CardFetch
  <2>1. UNCHANGED <<wire, pending>>
    BY <1>5 DEF Tx!CardFetch
  <2> QED
    BY <1>5, <2>1, CardFetchKeeps DEF TxWire, Tx!Fifo!fifoVars
<1>6. CASE Tx!CardTransmit
  <2>1. TxInv' /\ pending # << >> /\ wire' = Head(pending) /\ pending' = Tail(pending)
    BY <1>6, CardTransmitKeeps
  <2>2. pending \in Seq(Frame)
    BY DEF TxInv, TxTypes
  <2> QED
    BY <2>1, <2>2 DEF TxWire, Tx!Fifo!Next, Tx!Fifo!Take
<1> QED
  BY <1>1, <1>2, <1>3, <1>4, <1>5, <1>6 DEF Tx!Next, Tx!SendQueueFull

LEMMA TxInvCorrect ==
  ASSUME Tx!TxOrderAssumption, InOrder = TRUE
  PROVE  Tx!Spec => [](TxInv /\ TxWire)
<1>1. Tx!Init => TxInv /\ TxWire
  BY TxInitKeeps DEF TxWire, Tx!Init
<1>2. TxInv /\ TxWire /\ [Tx!Next]_(Tx!vars) => TxInv' /\ TxWire'
  BY TxStep
<1> QED
  BY <1>1, <1>2, PTL DEF Tx!Spec

\* Every variable of TxOrder keeps to its type, and the card never runs ahead
\* of the packets that were sent, if the stores arrive in program order.
THEOREM TxOrderTypeCorrect ==
  ASSUME Tx!TxOrderAssumption, InOrder = TRUE
  PROVE  Tx!Spec => []Tx!TypeOK
<1>1. TxInv /\ TxWire => Tx!TypeOK
  <2> SUFFICES ASSUME TxInv, TxWire PROVE Tx!TypeOK
    OBVIOUS
  <2>1. \A k \in DOMAIN stores : stores[k].place \in Tx!Place
    <3>1. \A k \in DOMAIN stores : stores[k] \in TxStore
      BY DEF TxInv, TxTypes
    <3> QED
      BY <3>1 DEF TxStore
  <2>2. Len(pending) = Distance(written_back, tx_index)
    <3>1. {clean_index, written_back, tx_index} \subseteq Ring
      BY DEF TxInv, TxTypes
    <3>2. TxD(written_back) <= TxD(tx_index)
      <4>1. {TDH, TDT} \subseteq Ring
        BY DEF TxInv, TxTypes
      <4> QED
        BY <3>1, <4>1, TxDistances DEF TxInv, TxOrdered
    <3> QED
      BY <3>1, <3>2, DistanceShift DEF TxD, TxInv, TxTypes
  <2> QED
    BY <2>1, <2>2, SameRing DEF Tx!TypeOK, TxInv, TxTypes, TxWire, TDT
<1> QED
  BY <1>1, TxInvCorrect, PTL

\* On a processor whose stores arrive in program order (x86), the card
\* transmits what send was given, unaltered and in that order, for every size
\* of the ring and of the batch, although send has no barrier: each step is a
\* step of a first-in first-out queue, or a stutter.
THEOREM TransmitsInOrder ==
  ASSUME Tx!TxOrderAssumption, InOrder = TRUE
  PROVE  Tx!Spec => TxIsFifo
<1>1. Tx!Init => Tx!Fifo!Init
  BY DEF Tx!Init, Tx!Fifo!Init
<1>2. TxInv /\ TxWire /\ [Tx!Next]_(Tx!vars) => [Tx!Fifo!Next]_(Tx!Fifo!fifoVars)
  BY TxStep
<1> QED
  BY <1>1, <1>2, TxInvCorrect, PTL DEF Tx!Spec, TxIsFifo, Tx!TxIsFifo, Tx!Fifo!Spec

-----------------------------------------------------------------------------
(* RxOrder: the inductive invariant.                                       *)

RDT == rx_mem[<<"RDT">>]
RxPart == {"addr", "sta", "payload"}
RxStore == [place : Rx!Place, value : Rx!Entry \cup {"clear", NoFrame} \cup Ring]

\* Where the card finds each part of a packet.
RxPlace(i, x) == IF x = "payload" THEN <<bufs_in_use[i], "payload">> ELSE <<i, x>>

\* Indices are counted from the driver's.
RxD(i) == Distance(rx_index, i)

RxTypes ==
  /\ {rx_index, RDH, rx_written_back, RDT} \subseteq Ring
  /\ DOMAIN rx_mem = Rx!Place
  /\ rx_stores \in Seq(RxStore)
  /\ rx_cached \in [Ring -> Rx!Entry \cup {Rx!NoEntry}]
  /\ delivered \in Frame \cup {NoFrame}
  /\ rx_pending \in Seq(Frame) /\ Len(rx_pending) = RxD(rx_written_back)

\* An entry is in one place: a descriptor, the pool or a packet.
RxEntries ==
  /\ bufs_in_use \in [Ring -> Rx!Entry]
  /\ free \subseteq Rx!Entry /\ held \subseteq Rx!Entry /\ free \cap held = {}
  /\ \A i \in Ring : bufs_in_use[i] \notin free \cup held
  /\ \A i, j \in Ring : bufs_in_use[i] = bufs_in_use[j] => i = j

\* The card is ahead of the driver, and behind the tail that it sees.
RxOrdered == RxD(rx_written_back) <= RxD(RDH) /\ RxD(RDH) <= RxD(RDT)

\* What the driver stored for a descriptor that it gave back.
RxWant(i, x) == IF x = "addr" THEN bufs_in_use[i] ELSE "clear"

\* A store that is late is to a descriptor that the card may not fetch yet, or
\* to its buffer: what an application wrote before it dropped the packet.
RxLate ==
  \A k \in DOMAIN rx_stores :
    /\ rx_stores[k].place = <<"RDT">> =>
         rx_stores[k].value \in Ring /\ RxD(RDT) <= RxD(rx_stores[k].value)
    /\ \A i \in Ring, x \in RxPart : rx_stores[k].place = RxPlace(i, x) =>
         /\ RxD(RDT) <= RxD(i)
         /\ x # "payload" => rx_stores[k].value = RxWant(i, x)

\* A store of RDT gives the card no descriptor of which, or of whose buffer, a
\* store is later, and never less than an earlier one.
RxTailLast ==
  \A k, l \in DOMAIN rx_stores : k < l /\ rx_stores[k].place = <<"RDT">> =>
    /\ rx_stores[l].place = <<"RDT">> =>
         RxD(rx_stores[k].value) <= RxD(rx_stores[l].value)
    /\ \A i \in Ring, x \in RxPart :
         rx_stores[l].place = RxPlace(i, x) => RxD(rx_stores[k].value) <= RxD(i)

\* What is not late is in memory: the address until the card fetched it, the
\* status until it filled the buffer.
RxLateAt(place) == \E k \in DOMAIN rx_stores : rx_stores[k].place = place
RxArrived ==
  \A i \in Ring, x \in {"addr", "sta"} :
    RxD(IF x = "addr" THEN RDH ELSE rx_written_back) <= RxD(i) =>
      RxLateAt(<<i, x>>) \/ rx_mem[<<i, x>>] = RxWant(i, x)

\* The card fetched the address of the buffer that the driver keeps for the
\* descriptor.
RxFetched ==
  \A i \in Ring : RxD(rx_written_back) <= RxD(i) /\ RxD(i) < RxD(RDH) =>
    rx_cached[i] = bufs_in_use[i]

\* The buffers that the card filled hold the frames that wait.
RxFilled ==
  \A i \in Ring : RxD(i) < RxD(rx_written_back) =>
    rx_mem[<<bufs_in_use[i], "payload">>] = rx_pending[RxD(i) + 1]

RxInv ==
  /\ RxTypes /\ RxEntries /\ RxOrdered
  /\ RxLate /\ RxTailLast
  /\ RxArrived /\ RxFetched /\ RxFilled

-----------------------------------------------------------------------------
(* RxOrder: each step.                                                     *)

LEMMA RxPlaces ==
  /\ \A i, x : <<i, x>> # <<"RDT">>
  /\ \A i, j, x, y : <<i, x>> = <<j, y>> => i = j /\ x = y
  /\ \A i \in Ring, x \in {"addr", "sta"} : <<i, x>> \in Rx!Place
  /\ \A b \in Rx!Entry : <<b, "payload">> \in Rx!Place
  /\ <<"RDT">> \in Rx!Place
BY SameRing DEF Rx!Place

\* No two parts share a place.
LEMMA RxPlaceParts ==
  ASSUME RxEntries
  PROVE  /\ \A i \in Ring, x \in RxPart : RxPlace(i, x) # <<"RDT">>
         /\ \A i, j \in Ring, x, y \in RxPart :
              RxPlace(i, x) = RxPlace(j, y) => i = j /\ x = y
         /\ \A i \in Ring, x \in RxPart : RxPlace(i, x) \in Rx!Place
<1>1. \A i \in Ring, x \in RxPart : RxPlace(i, x) # <<"RDT">>
  BY RxPlaces DEF RxPlace
<1>2. ASSUME NEW i \in Ring, NEW j \in Ring, NEW x \in RxPart, NEW y \in RxPart,
             RxPlace(i, x) = RxPlace(j, y)
      PROVE  i = j /\ x = y
  <2>1. PICK a, b : RxPlace(i, x) = <<a, x>> /\ RxPlace(j, y) = <<b, y>>
    BY DEF RxPlace
  <2>2. x = y
    BY <1>2, <2>1, RxPlaces
  <2>3. CASE x = "payload"
    BY <1>2, <2>2, <2>3, RxPlaces DEF RxPlace, RxEntries
  <2>4. CASE x # "payload"
    BY <1>2, <2>2, <2>4, RxPlaces DEF RxPlace
  <2> QED
    BY <2>2, <2>3, <2>4
<1>3. ASSUME NEW i \in Ring, NEW x \in RxPart
      PROVE  RxPlace(i, x) \in Rx!Place
  <2>1. bufs_in_use[i] \in Rx!Entry
    BY DEF RxEntries
  <2> QED
    BY <2>1, RxPlaces DEF RxPlace, RxPart
<1> QED
  BY <1>1, <1>2, <1>3

LEMMA RxInitKeeps ==
  ASSUME Rx!RxOrderAssumption, Rx!Init
  PROVE  RxInv
<1>1. /\ QS \in Nat \ {0} /\ 0 \in Ring /\ QS - 1 \in Ring
      /\ Distance(0, 0) = 0 /\ Distance(0, QS - 1) = QS - 1
      /\ \A i \in Ring : Distance(0, i) \in 0 .. QS - 1
  <2>1. QS \in Nat \ {0}
    BY RingAssumption
  <2> QED
    BY <2>1 DEF Ring, Distance
<1>2. NumEntries \in Nat /\ NumEntries > QS /\ Rx!Entry = 0 .. NumEntries - 1 /\ Rx!NoEntry = NumEntries
  BY SameRing DEF Rx!RxOrderAssumption, Rx!Entry, Rx!NoEntry
<1>3. /\ DOMAIN rx_mem = Rx!Place /\ rx_stores = << >> /\ rx_pending = << >>
      /\ RDT = QS - 1 /\ rx_index = 0 /\ RDH = 0 /\ rx_written_back = 0
      /\ bufs_in_use = [i \in Ring |-> i] /\ free = QS .. NumEntries - 1 /\ held = {}
      /\ rx_cached = [i \in Ring |-> Rx!NoEntry] /\ delivered = NoFrame
  <2>1. DOMAIN rx_mem = Rx!Place
    BY DEF Rx!Init
  <2>2. rx_mem[<<"RDT">>] = QS - 1
    <3>1. <<"RDT">> \in Rx!Place
      BY RxPlaces
    <3>2. ASSUME NEW x PROVE <<"RDT">> \notin Ring \X {x}
      <4> SUFFICES ASSUME <<"RDT">> \in Ring \X {x} PROVE FALSE
        OBVIOUS
      <4>1. PICK i \in Ring, y \in {x} : <<"RDT">> = <<i, y>>
        OBVIOUS
      <4> QED
        BY <4>1, RxPlaces
    <3>3. <<"RDT">> \notin Rx!Ring \X {"addr"} /\ <<"RDT">> \notin Rx!Ring \X {"sta"}
      BY <3>2, SameRing
    <3> QED
      BY <3>1, <3>3 DEF Rx!Init
  <2>3. /\ bufs_in_use = [i \in Ring |-> i] /\ free = QS .. NumEntries - 1
        /\ rx_cached = [i \in Ring |-> Rx!NoEntry]
    BY SameRing DEF Rx!Init
  <2> QED
    BY <2>1, <2>2, <2>3 DEF Rx!Init, RDT
<1>4. RxD(rx_index) = 0 /\ RxD(RDT) = QS - 1 /\ RxD(RDH) = 0 /\ RxD(rx_written_back) = 0
      /\ \A i \in Ring : RxD(i) \in 0 .. QS - 1
  BY <1>1, <1>3 DEF RxD
<1>5. RxTypes
  BY <1>1, <1>3, <1>4 DEF RxTypes
<1>6. RxEntries
  BY <1>1, <1>2, <1>3 DEF RxEntries, Ring
<1>7. RxOrdered
  BY <1>1, <1>4 DEF RxOrdered
<1>8. RxLate /\ RxTailLast
  BY <1>3 DEF RxLate, RxTailLast
<1>9. RxArrived
  <2>1. \A i \in Ring : rx_mem[<<i, "addr">>] = i /\ rx_mem[<<i, "sta">>] = "clear"
    <3> SUFFICES ASSUME NEW i \in Ring
                 PROVE  rx_mem[<<i, "addr">>] = i /\ rx_mem[<<i, "sta">>] = "clear"
      OBVIOUS
    <3>1. /\ <<i, "addr">> \in Rx!Place /\ <<i, "sta">> \in Rx!Place
          /\ <<i, "addr">> # <<"RDT">> /\ <<i, "sta">> # <<"RDT">>
          /\ <<i, "addr">> \in Ring \X {"addr"} /\ <<i, "sta">> \notin Ring \X {"addr"}
          /\ <<i, "sta">> \in Ring \X {"sta"} /\ <<i, "addr">>[1] = i
      BY RxPlaces
    <3> QED
      BY <3>1, SameRing DEF Rx!Init
  <2>2. \A i \in Ring : bufs_in_use[i] = i
    BY <1>3
  <2> QED
    BY <2>1, <2>2 DEF RxArrived, RxWant
<1>10. RxFetched /\ RxFilled
  BY <1>4 DEF RxFetched, RxFilled
<1> QED
  BY <1>5, <1>6, <1>7, <1>8, <1>9, <1>10 DEF RxInv

LEMMA RxDistances ==
  ASSUME RxInv
  PROVE  /\ \A i \in Ring : RxD(i) \in 0 .. QS - 1
         /\ \A i, j \in Ring : RxD(i) = RxD(j) => i = j
         /\ RxD(rx_index) = 0 /\ QS \in Nat
BY DistanceRange, RingAssumption DEF RxD, RxInv, RxTypes

\* A descriptor that the card may fetch has no late store, nor has its buffer.
LEMMA RxSeen ==
  ASSUME RxInv, NEW i \in Ring, RxD(i) < RxD(RDT), NEW x \in RxPart
  PROVE  ~RxLateAt(RxPlace(i, x))
<1>1. RxD(i) \in Int /\ RxD(RDT) \in Int
  BY RxDistances DEF RxInv, RxTypes
<1> QED
  BY <1>1 DEF RxInv, RxLate, RxLateAt

\* receive_packets finds DD only in a descriptor that the card reported.
LEMMA RxLoadDone ==
  ASSUME RxInv, Rx!Load(<<rx_index, "sta">>) = "done"
  PROVE  0 < RxD(rx_written_back)
<1> DEFINE own == {k \in DOMAIN rx_stores : rx_stores[k].place = <<rx_index, "sta">>}
<1>0. /\ rx_index \in Ring /\ rx_written_back \in Ring /\ RxD(rx_index) = 0
      /\ RxD(rx_written_back) \in Nat
  BY RxDistances DEF RxInv, RxTypes
<1> SUFFICES ASSUME RxD(rx_written_back) <= RxD(rx_index) PROVE FALSE
  BY <1>0
<1>1. /\ "sta" \in RxPart /\ RxPlace(rx_index, "sta") = <<rx_index, "sta">>
      /\ RxWant(rx_index, "sta") = "clear"
  BY DEF RxPart, RxPlace, RxWant
<1>2. DOMAIN rx_stores = 1 .. Len(rx_stores) /\ Len(rx_stores) \in Nat
  BY DEF RxInv, RxTypes
<1>3. CASE own = {}
  <2>1. ~RxLateAt(<<rx_index, "sta">>)
    BY <1>3 DEF RxLateAt
  <2>2. rx_mem[<<rx_index, "sta">>] = "clear"
    BY <1>0, <1>1, <2>1 DEF RxInv, RxArrived
  <2> QED
    BY <1>3, <2>2 DEF Rx!Load
<1>4. CASE own # {}
  <2>1. own \in SUBSET (1 .. Len(rx_stores))
    BY <1>2
  <2>2. Tx!Max(own) \in own
    BY <1>2, <1>4, <2>1, LastOf
  <2>3. \A k \in own : rx_stores[k].value = "clear"
    BY <1>0, <1>1 DEF RxInv, RxLate
  <2>4. Rx!Load(<<rx_index, "sta">>) = rx_stores[Tx!Max(own)].value
    BY <1>4 DEF Rx!Load, Rx!Max, Tx!Max
  <2> HIDE DEF own
  <2> QED
    BY <2>2, <2>3, <2>4
<1> QED
  BY <1>3, <1>4

LEMMA RxCardFetchKeeps ==
  ASSUME RxInv, Rx!CardFetch
  PROVE  RxInv'
<1>1. PICK h \in Ring : h = RDH
  BY DEF RxInv, RxTypes
<1>2. /\ h # RDT /\ RDT \in Ring /\ rx_written_back \in Ring
      /\ rx_cached' = [rx_cached EXCEPT ![h] = rx_mem[<<h, "addr">>]]
      /\ RDH' = wrap_ring(h)
      /\ UNCHANGED <<rx_mem, rx_stores, rx_index, bufs_in_use, free, held, delivered,
                     rx_written_back, rx_pending>>
      /\ RDT' = RDT
  BY <1>1 DEF Rx!CardFetch, Rx!driverVars, RDT, RxInv, RxTypes, wrap_ring
<1>3. /\ \A i \in Ring : RxD(i) \in 0 .. QS - 1 /\ RxD(i)' = RxD(i)
      /\ \A i : RxD(i)' = Distance(rx_index, i)
      /\ \A i, x : RxPlace(i, x)' = RxPlace(i, x) /\ RxWant(i, x)' = RxWant(i, x)
      /\ QS \in Nat
  BY <1>2, RxDistances DEF RxD, RxPlace, RxWant
<1>4. RxD(h) < RxD(RDT)
  <2>1. RxD(h) # RxD(RDT)
    BY <1>2, RxDistances
  <2> QED
    BY <1>1, <1>2, <1>3, <2>1 DEF RxInv, RxOrdered
<1>5. RDH' \in Ring /\ RxD(RDH') = RxD(h) + 1
  <2>1. RxD(h) < QS - 1
    BY <1>2, <1>3, <1>4
  <2> QED
    BY <1>2, <2>1, DistanceNext DEF RxD, RxInv, RxTypes
<1>6. rx_mem[<<h, "addr">>] = bufs_in_use[h] /\ bufs_in_use[h] \in Rx!Entry
  <2>1. "addr" \in RxPart /\ RxPlace(h, "addr") = <<h, "addr">> /\ RxWant(h, "addr") = bufs_in_use[h]
    BY DEF RxPart, RxPlace, RxWant
  <2>2. ~RxLateAt(<<h, "addr">>)
    BY <1>4, <2>1, RxSeen
  <2>3. RxD(h) <= RxD(h)
    BY <1>3
  <2> QED
    BY <1>1, <2>1, <2>2, <2>3 DEF RxInv, RxArrived, RxEntries
<1>7. RxTypes'
  BY <1>2, <1>3, <1>5, <1>6 DEF RxInv, RxTypes, RxD
<1>8. RxEntries'
  BY <1>2 DEF RxInv, RxEntries
<1>9. RxOrdered'
  <2>1. /\ RxD(rx_written_back)' = RxD(rx_written_back) /\ RxD(RDT)' = RxD(RDT)
        /\ RxD(RDH)' = RxD(h) + 1
    BY <1>2, <1>5 DEF RxD
  <2> QED
    BY <1>1, <1>2, <1>3, <1>4, <2>1 DEF RxInv, RxOrdered
<1>10. RxLate' /\ RxTailLast'
  BY <1>2 DEF RxInv, RxLate, RxTailLast, RxD, RxPlace, RxWant
<1>11. RxArrived'
  <2> SUFFICES ASSUME NEW i \in Ring, NEW x \in {"addr", "sta"},
                      RxD(IF x = "addr" THEN RDH' ELSE rx_written_back) <= RxD(i)
               PROVE  RxLateAt(<<i, x>>) \/ rx_mem[<<i, x>>] = RxWant(i, x)
    BY <1>2 DEF RxArrived, RxLateAt, RxWant, RxD
  <2>1. RxD(IF x = "addr" THEN RDH ELSE rx_written_back) <= RxD(i)
    BY <1>1, <1>2, <1>3, <1>5
  <2> QED
    BY <2>1 DEF RxInv, RxArrived
<1>12. RxFetched'
  <2> SUFFICES ASSUME NEW i \in Ring, RxD(rx_written_back) <= RxD(i), RxD(i) < RxD(RDH')
               PROVE  rx_cached'[i] = bufs_in_use[i]
    BY <1>2 DEF RxFetched, RxD
  <2>1. CASE i = h
    BY <1>2, <1>6, <2>1 DEF RxInv, RxTypes
  <2>2. CASE i # h
    <3>1. RxD(i) # RxD(h)
      BY <2>2, RxDistances
    <3>2. RxD(i) < RxD(h)
      BY <1>3, <1>5, <3>1
    <3> QED
      BY <1>1, <1>2, <2>2, <3>2 DEF RxInv, RxFetched, RxTypes
  <2> QED
    BY <2>1, <2>2
<1>13. RxFilled'
  BY <1>2 DEF RxInv, RxFilled, RxD
<1> QED
  BY <1>7, <1>8, <1>9, <1>10, <1>11, <1>12, <1>13 DEF RxInv

LEMMA RxCardReceiveKeeps ==
  ASSUME RxInv, NEW f \in Frame, Rx!CardReceive(f)
  PROVE  /\ RxInv'
         /\ Len(rx_pending) < QS - 1 /\ rx_pending' = Append(rx_pending, f)
         /\ delivered' = delivered
<1>1. PICK w \in Ring : w = rx_written_back
  BY DEF RxInv, RxTypes
<1>2. /\ w # RDH /\ {RDH, RDT, rx_index} \subseteq Ring
      /\ rx_mem' = [p \in Rx!Place |-> CASE p = <<rx_cached[w], "payload">> -> f
                                         [] p = <<w, "sta">> -> "done"
                                         [] p = <<w, "addr">> -> Rx!NoEntry
                                         [] OTHER -> rx_mem[p]]
      /\ rx_written_back' = wrap_ring(w)
      /\ rx_pending' = Append(rx_pending, f)
      /\ UNCHANGED <<rx_stores, rx_index, bufs_in_use, free, held, delivered, RDH, rx_cached>>
  BY <1>1 DEF Rx!CardReceive, Rx!driverVars, RxInv, RxTypes, wrap_ring
<1>3. /\ \A i \in Ring : RxD(i) \in 0 .. QS - 1 /\ RxD(i)' = RxD(i)
      /\ QS \in Nat
  BY <1>2, RxDistances DEF RxD
<1>4. RxD(w) < RxD(RDH) /\ RxD(RDH) <= RxD(RDT)
  <2>1. RxD(w) # RxD(RDH)
    BY <1>2, RxDistances
  <2> QED
    BY <1>1, <1>2, <1>3, <2>1 DEF RxInv, RxOrdered
<1>5. wrap_ring(w) \in Ring /\ RxD(wrap_ring(w)) = RxD(w) + 1 /\ RxD(w) < QS - 1
  <2>1. RxD(w) < QS - 1
    BY <1>2, <1>3, <1>4
  <2> QED
    BY <1>2, <2>1, DistanceNext DEF RxD
<1>6. rx_cached[w] = bufs_in_use[w] /\ bufs_in_use[w] \in Rx!Entry
  <2>1. RxD(w) <= RxD(w)
    BY <1>3
  <2> QED
    BY <1>1, <1>4, <2>1 DEF RxInv, RxFetched, RxEntries
<1>7. /\ \A i \in Ring, x \in {"addr", "sta"} : i # w => rx_mem'[<<i, x>>] = rx_mem[<<i, x>>]
      /\ \A i \in Ring : i # w =>
           rx_mem'[<<bufs_in_use[i], "payload">>] = rx_mem[<<bufs_in_use[i], "payload">>]
      /\ rx_mem'[<<bufs_in_use[w], "payload">>] = f
      /\ RDT' = RDT /\ DOMAIN rx_mem' = Rx!Place
  <2>1. ASSUME NEW i \in Ring, NEW x \in {"addr", "sta"}, i # w
        PROVE  rx_mem'[<<i, x>>] = rx_mem[<<i, x>>]
    <3>1. /\ <<i, x>> \in Rx!Place /\ <<i, x>> # <<rx_cached[w], "payload">>
          /\ <<i, x>> # <<w, "sta">> /\ <<i, x>> # <<w, "addr">>
      BY <2>1, RxPlaces
    <3> QED
      BY <1>2, <3>1
  <2>2. ASSUME NEW i \in Ring, i # w
        PROVE  rx_mem'[<<bufs_in_use[i], "payload">>] = rx_mem[<<bufs_in_use[i], "payload">>]
    <3>1. bufs_in_use[i] # bufs_in_use[w] /\ bufs_in_use[i] \in Rx!Entry
      BY <2>2 DEF RxInv, RxEntries
    <3>2. /\ <<bufs_in_use[i], "payload">> \in Rx!Place
          /\ <<bufs_in_use[i], "payload">> # <<rx_cached[w], "payload">>
          /\ <<bufs_in_use[i], "payload">> # <<w, "sta">>
          /\ <<bufs_in_use[i], "payload">> # <<w, "addr">>
      BY <1>6, <3>1, RxPlaces
    <3> QED
      BY <1>2, <3>2
  <2>3. rx_mem'[<<bufs_in_use[w], "payload">>] = f
    <3>1. <<bufs_in_use[w], "payload">> \in Rx!Place
      BY <1>6, RxPlaces
    <3> QED
      BY <1>2, <1>6, <3>1
  <2>4. RDT' = RDT
    <3>1. /\ <<"RDT">> \in Rx!Place /\ <<"RDT">> # <<rx_cached[w], "payload">>
          /\ <<"RDT">> # <<w, "sta">> /\ <<"RDT">> # <<w, "addr">>
      BY RxPlaces
    <3> QED
      BY <1>2, <3>1 DEF RDT
  <2>5. DOMAIN rx_mem' = Rx!Place
    BY <1>2
  <2> QED
    BY <2>1, <2>2, <2>3, <2>4, <2>5
<1>8. /\ RxD(rx_written_back)' = RxD(w) + 1 /\ RxD(RDH)' = RxD(RDH) /\ RxD(RDT)' = RxD(RDT)
      /\ \A i : RxD(i)' = Distance(rx_index, i)
  BY <1>2, <1>5, <1>7 DEF RxD
<1>9. /\ rx_pending \in Seq(Frame) /\ Len(rx_pending) = RxD(w)
  BY <1>1 DEF RxInv, RxTypes
<1>10. /\ rx_pending' \in Seq(Frame) /\ Len(rx_pending') = RxD(w) + 1
       /\ \A n \in 1 .. RxD(w) : rx_pending'[n] = rx_pending[n]
       /\ rx_pending'[RxD(w) + 1] = f
  BY <1>2, <1>9, AppendProperties
<1>11. RxTypes' /\ RxEntries'
  <2>1. RxTypes'
    BY <1>2, <1>5, <1>7, <1>8, <1>10 DEF RxInv, RxTypes
  <2>2. RxEntries'
    BY <1>2 DEF RxInv, RxEntries
  <2> QED
    BY <2>1, <2>2
<1>12. RxOrdered'
  BY <1>2, <1>3, <1>4, <1>8 DEF RxOrdered
<1>13. RxLate' /\ RxTailLast'
  BY <1>2, <1>7 DEF RxInv, RxLate, RxTailLast, RxD, RxPlace, RxWant
<1>14. RxArrived'
  <2> SUFFICES ASSUME NEW i \in Ring, NEW x \in {"addr", "sta"},
                      (RxD(IF x = "addr" THEN RDH ELSE rx_written_back) <= RxD(i))'
               PROVE  RxLateAt(<<i, x>>) \/ rx_mem'[<<i, x>>] = RxWant(i, x)
    <3>1. \A i \in Ring, x \in {"addr", "sta"} :
            RxLateAt(<<i, x>>)' = RxLateAt(<<i, x>>) /\ RxWant(i, x)' = RxWant(i, x)
      BY <1>2 DEF RxLateAt, RxWant
    <3> QED
      BY <3>1 DEF RxArrived
  <2>1. IF x = "addr" THEN RxD(RDH) <= RxD(i) ELSE RxD(w) + 1 <= RxD(i)
    BY <1>2, <1>3, <1>5, <1>8 DEF RxD
  <2>2. i # w
    BY <1>2, <1>3, <1>4, <2>1
  <2>3. RxD(IF x = "addr" THEN RDH ELSE rx_written_back) <= RxD(i)
    BY <1>1, <1>3, <2>1
  <2> QED
    BY <1>7, <2>2, <2>3 DEF RxInv, RxArrived
<1>15. RxFetched'
  <2> SUFFICES ASSUME NEW i \in Ring, RxD(rx_written_back') <= RxD(i), RxD(i) < RxD(RDH)
               PROVE  rx_cached[i] = bufs_in_use[i]
    BY <1>2 DEF RxFetched, RxD
  <2>1. RxD(rx_written_back) <= RxD(i)
    BY <1>1, <1>2, <1>3, <1>5
  <2> QED
    BY <2>1 DEF RxInv, RxFetched
<1>16. RxFilled'
  <2> SUFFICES ASSUME NEW i \in Ring, RxD(i) < RxD(w) + 1
               PROVE  rx_mem'[<<bufs_in_use[i], "payload">>] = rx_pending'[RxD(i) + 1]
    BY <1>2, <1>3, <1>8 DEF RxFilled
  <2>1. CASE i = w
    BY <1>7, <1>10, <2>1
  <2>2. CASE i # w
    <3>1. RxD(i) # RxD(w)
      BY <2>2, RxDistances
    <3>2. RxD(i) < RxD(w) /\ RxD(i) + 1 \in 1 .. RxD(w)
      BY <1>3, <3>1
    <3>3. rx_mem[<<bufs_in_use[i], "payload">>] = rx_pending[RxD(i) + 1]
      BY <1>1, <3>2 DEF RxInv, RxFilled
    <3> QED
      BY <1>7, <1>10, <2>2, <3>2, <3>3
  <2> QED
    BY <2>1, <2>2
<1> QED
  BY <1>2, <1>5, <1>9, <1>11, <1>12, <1>13, <1>14, <1>15, <1>16 DEF RxInv

\* The oldest store arrives.
LEMMA RxArrives ==
  ASSUME InOrder = TRUE, RxInv, Rx!StoreArrives
  PROVE  /\ Len(rx_stores) \in Nat \ {0} /\ 1 \in DOMAIN rx_stores
         /\ rx_mem' = [rx_mem EXCEPT ![rx_stores[1].place] = rx_stores[1].value]
         /\ rx_stores' \in Seq(RxStore) /\ DOMAIN rx_stores' = 1 .. Len(rx_stores) - 1
         /\ \A k \in DOMAIN rx_stores' :
              k + 1 \in DOMAIN rx_stores /\ rx_stores'[k] = rx_stores[k + 1]
         /\ UNCHANGED <<rx_index, bufs_in_use, free, held, delivered,
                        RDH, rx_written_back, rx_cached, rx_pending>>
<1>1. rx_stores \in Seq(RxStore)
  BY DEF RxInv, RxTypes
<1>2. PICK k \in Rx!Drainable :
        /\ rx_mem' = [rx_mem EXCEPT ![rx_stores[k].place] = rx_stores[k].value]
        /\ rx_stores' = Rx!RemoveAt(rx_stores, k)
        /\ UNCHANGED <<rx_index, bufs_in_use, free, held, delivered,
                       RDH, rx_written_back, rx_cached, rx_pending>>
  BY DEF Rx!StoreArrives, Rx!Drain, Rx!driverVars, Rx!cardVars
<1>3. k = 1 /\ 1 \in DOMAIN rx_stores
  BY DEF Rx!Drainable
<1>4. rx_stores # << >> /\ Len(rx_stores) \in Nat \ {0} /\ DOMAIN rx_stores = 1 .. Len(rx_stores)
  BY <1>1, <1>3
<1>5. /\ rx_stores' \in Seq(RxStore) /\ Len(rx_stores') = Len(rx_stores) - 1
      /\ \A m \in 1 .. Len(rx_stores) - 1 : rx_stores'[m] = rx_stores[m + 1]
  <2>1. rx_stores' = Tx!RemoveAt(rx_stores, 1)
    BY <1>2, <1>3 DEF Rx!RemoveAt, Tx!RemoveAt
  <2> QED
    BY <1>1, <1>4, <2>1, OldestRemoved
<1>6. DOMAIN rx_stores' = 1 .. Len(rx_stores) - 1
  BY <1>5
<1>7. \A m \in 1 .. Len(rx_stores) - 1 : m + 1 \in 1 .. Len(rx_stores)
  BY <1>4
<1> QED
  BY <1>2, <1>3, <1>4, <1>5, <1>6, <1>7

LEMMA RxArrivesKeeps ==
  ASSUME InOrder = TRUE, RxInv, Rx!StoreArrives
  PROVE  RxInv'
<1>0. PICK p, v : p = rx_stores[1].place /\ v = rx_stores[1].value
  OBVIOUS
<1>1. /\ 1 \in DOMAIN rx_stores /\ rx_mem' = [rx_mem EXCEPT ![p] = v]
      /\ rx_stores' \in Seq(RxStore)
      /\ \A k \in DOMAIN rx_stores' : k + 1 \in DOMAIN rx_stores /\ rx_stores'[k] = rx_stores[k + 1]
      /\ \A k \in DOMAIN rx_stores :
           k = 1 \/ (k - 1 \in DOMAIN rx_stores' /\ rx_stores'[k - 1] = rx_stores[k])
      /\ \A k \in DOMAIN rx_stores' : k \in Nat \ {0}
      /\ UNCHANGED <<rx_index, bufs_in_use, free, held, delivered,
                     RDH, rx_written_back, rx_cached, rx_pending>>
  <2>1. /\ DOMAIN rx_stores = 1 .. Len(rx_stores) /\ Len(rx_stores) \in Nat \ {0}
        /\ DOMAIN rx_stores' = 1 .. Len(rx_stores) - 1
    BY RxArrives DEF RxInv, RxTypes
  <2>2. \A k \in DOMAIN rx_stores' : k + 1 \in DOMAIN rx_stores /\ rx_stores'[k] = rx_stores[k + 1]
    BY RxArrives
  <2>3. \A k \in DOMAIN rx_stores : k = 1 \/ (k - 1 \in DOMAIN rx_stores' /\ (k - 1) + 1 = k)
    BY <2>1
  <2>4. \A k \in DOMAIN rx_stores' : k \in Nat \ {0}
    BY <2>1
  <2> QED
    BY <1>0, <2>2, <2>3, <2>4, RxArrives
<1>2. p \in Rx!Place /\ DOMAIN rx_mem = Rx!Place
  <2>1. rx_stores[1] \in RxStore
    BY <1>1 DEF RxInv, RxTypes
  <2> QED
    BY <1>0, <2>1 DEF RxStore, RxInv, RxTypes
<1>3. /\ \A i \in Ring : RxD(i) \in 0 .. QS - 1
      /\ {rx_index, RDH, rx_written_back, RDT} \subseteq Ring
      /\ RxEntries
  BY <1>1, RxDistances DEF RxInv, RxTypes
<1>4. /\ \A i : RxD(i)' = Distance(rx_index, i)
      /\ \A i, x : RxPlace(i, x)' = RxPlace(i, x) /\ RxWant(i, x)' = RxWant(i, x)
  BY <1>1 DEF RxD, RxPlace, RxWant
<1>5. RDT' = IF p = <<"RDT">> THEN v ELSE RDT
  BY <1>1, <1>2, RxPlaces DEF RDT
<1>6. RDT' \in Ring /\ RxD(RDT) <= RxD(RDT')
  <2>1. CASE p = <<"RDT">>
    BY <1>0, <1>1, <1>5, <2>1 DEF RxInv, RxLate
  <2>2. CASE p # <<"RDT">>
    BY <1>3, <1>5, <2>2
  <2> QED
    BY <2>1, <2>2
<1>7. RxTypes' /\ RxEntries'
  <2>1. DOMAIN rx_mem' = Rx!Place
    BY <1>1, <1>2
  <2>2. RxTypes'
    BY <1>1, <1>3, <1>6, <2>1 DEF RxInv, RxTypes, RxD
  <2>3. RxEntries'
    BY <1>1 DEF RxInv, RxEntries
  <2> QED
    BY <2>2, <2>3
<1>8. RxOrdered'
  <2>1. /\ RxD(rx_written_back)' = RxD(rx_written_back) /\ RxD(RDH)' = RxD(RDH)
        /\ RxD(RDT)' = RxD(RDT')
    BY <1>1 DEF RxD
  <2> QED
    BY <1>3, <1>6, <2>1 DEF RxInv, RxOrdered
<1>9. RxLate'
  <2> SUFFICES ASSUME NEW k \in DOMAIN rx_stores'
      PROVE  /\ rx_stores'[k].place = <<"RDT">> =>
                  rx_stores'[k].value \in Ring /\ RxD(RDT') <= RxD(rx_stores'[k].value)
             /\ \A i \in Ring, x \in RxPart : rx_stores'[k].place = RxPlace(i, x) =>
                  /\ RxD(RDT') <= RxD(i)
                  /\ x # "payload" => rx_stores'[k].value = RxWant(i, x)
    BY <1>1, <1>4 DEF RxLate, RxD
  <2>1. PICK l \in DOMAIN rx_stores : l = k + 1 /\ rx_stores'[k] = rx_stores[l] /\ 1 < l
    BY <1>1
  <2>2. ASSUME rx_stores[l].place = <<"RDT">>
        PROVE  rx_stores[l].value \in Ring /\ RxD(RDT') <= RxD(rx_stores[l].value)
    <3>1. rx_stores[l].value \in Ring /\ RxD(RDT) <= RxD(rx_stores[l].value)
      BY <2>2 DEF RxInv, RxLate
    <3>2. p = <<"RDT">> => RxD(v) <= RxD(rx_stores[l].value)
      BY <1>0, <1>1, <2>1, <2>2 DEF RxInv, RxTailLast
    <3> QED
      BY <1>5, <3>1, <3>2
  <2>3. ASSUME NEW i \in Ring, NEW x \in RxPart, rx_stores[l].place = RxPlace(i, x)
        PROVE  /\ RxD(RDT') <= RxD(i)
               /\ x # "payload" => rx_stores[l].value = RxWant(i, x)
    <3>1. /\ RxD(RDT) <= RxD(i)
          /\ x # "payload" => rx_stores[l].value = RxWant(i, x)
      BY <2>3 DEF RxInv, RxLate
    <3>2. p = <<"RDT">> => RxD(v) <= RxD(i)
      BY <1>0, <1>1, <2>1, <2>3 DEF RxInv, RxTailLast
    <3> QED
      BY <1>5, <3>1, <3>2
  <2> QED
    BY <2>1, <2>2, <2>3
<1>10. RxTailLast'
  <2> SUFFICES ASSUME NEW k \in DOMAIN rx_stores', NEW l \in DOMAIN rx_stores', k < l,
                      rx_stores'[k].place = <<"RDT">>
      PROVE  /\ rx_stores'[l].place = <<"RDT">> =>
                  RxD(rx_stores'[k].value) <= RxD(rx_stores'[l].value)
             /\ \A i \in Ring, x \in RxPart :
                  rx_stores'[l].place = RxPlace(i, x) => RxD(rx_stores'[k].value) <= RxD(i)
    BY <1>1, <1>4 DEF RxTailLast, RxD
  <2>1. PICK m \in DOMAIN rx_stores, n \in DOMAIN rx_stores :
          m < n /\ rx_stores'[k] = rx_stores[m] /\ rx_stores'[l] = rx_stores[n]
    BY <1>1
  <2>2. RxTailLast /\ rx_stores[m].place = <<"RDT">>
    BY <2>1 DEF RxInv
  <2>3. /\ rx_stores[n].place = <<"RDT">> =>
             RxD(rx_stores[m].value) <= RxD(rx_stores[n].value)
        /\ \A i \in Ring, x \in RxPart :
             rx_stores[n].place = RxPlace(i, x) => RxD(rx_stores[m].value) <= RxD(i)
    BY <2>1, <2>2 DEF RxTailLast
  <2> QED
    BY <2>1, <2>3
<1>11. \A place : RxLateAt(place) => place = p \/ RxLateAt(place)'
  BY <1>0, <1>1 DEF RxLateAt
<1>12. RxArrived'
  <2> SUFFICES ASSUME NEW i \in Ring, NEW x \in {"addr", "sta"},
                      RxD(IF x = "addr" THEN RDH ELSE rx_written_back) <= RxD(i)
               PROVE  RxLateAt(<<i, x>>)' \/ rx_mem'[<<i, x>>] = RxWant(i, x)
    <3> SUFFICES ASSUME NEW i \in Ring, NEW x \in {"addr", "sta"},
                        (RxD(IF x = "addr" THEN RDH ELSE rx_written_back) <= RxD(i))'
                 PROVE  RxLateAt(<<i, x>>)' \/ rx_mem'[<<i, x>>] = RxWant(i, x)'
      BY DEF RxArrived
    <3>1. RxD(IF x = "addr" THEN RDH ELSE rx_written_back) <= RxD(i)
      BY <1>1 DEF RxD
    <3> QED
      BY <1>4, <3>1
  <2>1. RxLateAt(<<i, x>>) \/ rx_mem[<<i, x>>] = RxWant(i, x)
    BY DEF RxInv, RxArrived
  <2>2. CASE p = <<i, x>>
    <3>1. rx_mem'[<<i, x>>] = v
      BY <1>1, <1>2, <2>2
    <3>2. x \in RxPart /\ x # "payload" /\ RxPlace(i, x) = <<i, x>>
      BY DEF RxPart, RxPlace
    <3>3. v = RxWant(i, x)
      <4>1. rx_stores[1].place = RxPlace(i, x)
        BY <1>0, <2>2, <3>2
      <4>2. rx_stores[1].value = RxWant(i, x)
        BY <1>1, <3>2, <4>1 DEF RxInv, RxLate
      <4> QED
        BY <1>0, <4>2
    <3> QED
      BY <3>1, <3>3
  <2>3. CASE p # <<i, x>>
    <3>1. rx_mem'[<<i, x>>] = rx_mem[<<i, x>>]
      BY <1>1, <1>2, <2>3, RxPlaces
    <3>2. RxLateAt(<<i, x>>) => RxLateAt(<<i, x>>)'
      BY <1>11, <2>3
    <3> QED
      BY <2>1, <3>1, <3>2
  <2> QED
    BY <2>2, <2>3
<1>13. RxFetched'
  BY <1>1 DEF RxInv, RxFetched, RxD
<1>14. RxFilled'
  <2> SUFFICES ASSUME NEW i \in Ring, RxD(i) < RxD(rx_written_back)
               PROVE  rx_mem'[<<bufs_in_use[i], "payload">>] = rx_pending[RxD(i) + 1]
    BY <1>1 DEF RxFilled, RxD
  <2>1. "payload" \in RxPart /\ RxPlace(i, "payload") = <<bufs_in_use[i], "payload">>
    BY DEF RxPart, RxPlace
  <2>2. RxD(i) < RxD(RDT)
    BY <1>3 DEF RxInv, RxOrdered
  <2>3. ~RxLateAt(<<bufs_in_use[i], "payload">>)
    BY <2>1, <2>2, RxSeen
  <2>4. p # <<bufs_in_use[i], "payload">>
    BY <1>0, <1>1, <2>3 DEF RxLateAt
  <2>5. <<bufs_in_use[i], "payload">> \in Rx!Place
    BY <1>3, <2>1, RxPlaceParts
  <2>6. rx_mem'[<<bufs_in_use[i], "payload">>] = rx_mem[<<bufs_in_use[i], "payload">>]
    BY <1>1, <1>2, <2>4, <2>5
  <2> QED
    BY <2>6 DEF RxInv, RxFilled
<1> QED
  BY <1>7, <1>8, <1>9, <1>10, <1>12, <1>13, <1>14 DEF RxInv

\* A packet is not a receive buffer: a store to it is to no descriptor's part.
LEMMA WriteAndDropKeeps ==
  ASSUME Rx!RxOrderAssumption, RxInv, NEW b \in held, Rx!WriteAndDrop(b)
  PROVE  RxInv'
<1>1. PICK e : e = [place |-> <<b, "payload">>, value |-> NoFrame]
  OBVIOUS
<1>2. /\ rx_stores' = Append(rx_stores, e)
      /\ held' = held \ {b} /\ free' = free \cup {b}
      /\ UNCHANGED <<rx_mem, rx_index, bufs_in_use, delivered, RDH, rx_written_back,
                     rx_cached, rx_pending>>
      /\ RDT' = RDT
  BY <1>1 DEF Rx!WriteAndDrop, Rx!Store, Rx!cardVars, RDT
<1>3. b \in Rx!Entry /\ \A i \in Ring : bufs_in_use[i] # b
  BY DEF RxInv, RxEntries
<1>4. e \in RxStore
  BY <1>1, <1>3, RxPlaces DEF RxStore
<1>5. /\ rx_stores' \in Seq(RxStore)
      /\ \A k \in DOMAIN rx_stores : k \in DOMAIN rx_stores' /\ rx_stores'[k] = rx_stores[k]
      /\ \A k \in DOMAIN rx_stores' : k \in DOMAIN rx_stores \/ rx_stores'[k] = e
      /\ \A k, l \in DOMAIN rx_stores' : k < l => k \in DOMAIN rx_stores
  <2>1. PICK n \in Nat : n = Len(rx_stores)
    BY DEF RxInv, RxTypes
  <2>2. rx_stores \in Seq(RxStore)
    BY DEF RxInv, RxTypes
  <2>3. /\ rx_stores' \in Seq(RxStore) /\ Len(rx_stores') = n + 1
        /\ \A i \in 1 .. n : rx_stores'[i] = rx_stores[i]
        /\ rx_stores'[n + 1] = e
    BY <1>2, <1>4, <2>1, <2>2, AppendProperties
  <2>4. DOMAIN rx_stores = 1 .. n /\ DOMAIN rx_stores' = 1 .. n + 1
    BY <2>1, <2>2, <2>3
  <2>5. /\ \A k \in 1 .. n : k \in 1 .. n + 1
        /\ \A k \in 1 .. n + 1 : k \in 1 .. n \/ k = n + 1
        /\ \A k, l \in 1 .. n + 1 : k < l => k \in 1 .. n
    BY <2>1
  <2> QED
    BY <2>3, <2>4, <2>5
<1>6. e.place # <<"RDT">> /\ \A i \in Ring, x \in RxPart : e.place # RxPlace(i, x)
  <2>1. e.place = <<b, "payload">>
    BY <1>1
  <2>2. ASSUME NEW i \in Ring, NEW x \in RxPart PROVE <<b, "payload">> # RxPlace(i, x)
    <3>1. CASE x = "payload"
      BY <1>3, <3>1, RxPlaces DEF RxPlace
    <3>2. CASE x # "payload"
      BY <3>2, RxPlaces DEF RxPlace
    <3> QED
      BY <3>1, <3>2
  <2> QED
    BY <2>1, <2>2, RxPlaces
<1>7. /\ \A i : RxD(i)' = Distance(rx_index, i)
      /\ \A i, x : RxPlace(i, x)' = RxPlace(i, x) /\ RxWant(i, x)' = RxWant(i, x)
  BY <1>2 DEF RxD, RxPlace, RxWant
<1>8. RxTypes'
  BY <1>2, <1>5 DEF RxInv, RxTypes, RxD
<1>9. RxEntries'
  BY <1>2, <1>3 DEF RxInv, RxEntries
<1>10. RxOrdered' /\ RxFetched' /\ RxFilled'
  BY <1>2 DEF RxInv, RxOrdered, RxFetched, RxFilled, RxD
<1>11. RxLate'
  <2> SUFFICES ASSUME NEW k \in DOMAIN rx_stores'
      PROVE  /\ rx_stores'[k].place = <<"RDT">> =>
                  rx_stores'[k].value \in Ring /\ RxD(RDT) <= RxD(rx_stores'[k].value)
             /\ \A i \in Ring, x \in RxPart : rx_stores'[k].place = RxPlace(i, x) =>
                  /\ RxD(RDT) <= RxD(i)
                  /\ x # "payload" => rx_stores'[k].value = RxWant(i, x)
    BY <1>2, <1>7 DEF RxLate, RxD
  <2> QED
    BY <1>5, <1>6 DEF RxInv, RxLate
<1>12. RxTailLast'
  <2> SUFFICES ASSUME NEW k \in DOMAIN rx_stores', NEW l \in DOMAIN rx_stores', k < l,
                      rx_stores'[k].place = <<"RDT">>
      PROVE  /\ rx_stores'[l].place = <<"RDT">> =>
                  RxD(rx_stores'[k].value) <= RxD(rx_stores'[l].value)
             /\ \A i \in Ring, x \in RxPart :
                  rx_stores'[l].place = RxPlace(i, x) => RxD(rx_stores'[k].value) <= RxD(i)
    BY <1>2, <1>7 DEF RxTailLast, RxD
  <2>1. k \in DOMAIN rx_stores /\ rx_stores'[k] = rx_stores[k]
    BY <1>5
  <2> QED
    BY <1>5, <1>6, <2>1 DEF RxInv, RxTailLast
<1>13. RxArrived'
  <2>1. \A place : RxLateAt(place) => RxLateAt(place)'
    BY <1>5 DEF RxLateAt
  <2>2. \A i \in Ring, x \in {"addr", "sta"} :
          (RxD(IF x = "addr" THEN RDH ELSE rx_written_back) <= RxD(i))' <=>
          RxD(IF x = "addr" THEN RDH ELSE rx_written_back) <= RxD(i)
    BY <1>2 DEF RxD
  <2> QED
    BY <1>2, <1>7, <2>1, <2>2 DEF RxInv, RxArrived
<1> QED
  BY <1>8, <1>9, <1>10, <1>11, <1>12, <1>13 DEF RxInv

\* The stores of receive_packets wait behind those that are late.
LEMMA RxReceives ==
  ASSUME RxInv, NEW b \in free, Rx!Receive(b), NEW i \in Ring, i = rx_index
  PROVE  /\ rx_stores' \in Seq(RxStore)
         /\ \A k \in DOMAIN rx_stores : k \in DOMAIN rx_stores' /\ rx_stores'[k] = rx_stores[k]
         /\ \A k \in DOMAIN rx_stores' :
              \/ k \in DOMAIN rx_stores
              \/ rx_stores'[k] = [place |-> <<i, "addr">>, value |-> b]
              \/ rx_stores'[k] = [place |-> <<i, "sta">>, value |-> "clear"]
              \/ /\ rx_stores'[k] = [place |-> <<"RDT">>, value |-> i]
                 /\ \A l \in DOMAIN rx_stores' : l <= k
         /\ \A x \in {"addr", "sta"} :
              \E k \in DOMAIN rx_stores' : rx_stores'[k].place = <<i, x>>
         /\ DOMAIN rx_stores' \subseteq Nat
<1> DEFINE a == [place |-> <<i, "addr">>, value |-> b]
           c == [place |-> <<i, "sta">>, value |-> "clear"]
           r == [place |-> <<"RDT">>, value |-> i]
<1>1. PICK s : s = <<a, c, r>>
  OBVIOUS
<1>2. rx_stores \in Seq(RxStore) /\ rx_stores' = rx_stores \o s
  BY <1>1 DEF Rx!Receive, Rx!RearmStores, Rx!Store, RxInv, RxTypes
<1>3. {a, c, r} \subseteq RxStore
  <2>1. b \in Rx!Entry
    BY DEF RxInv, RxEntries
  <2> QED
    BY <2>1, RxPlaces DEF RxStore
<1>4. a.place = <<i, "addr">> /\ c.place = <<i, "sta">>
  OBVIOUS
<1> HIDE DEF a, c, r
<1>5. s \in Seq(RxStore) /\ Len(s) = 3 /\ s[1] = a /\ s[2] = c /\ s[3] = r
  BY <1>1, <1>3
<1>6. PICK n \in Nat : n = Len(rx_stores)
  BY <1>2
<1>7. /\ rx_stores' \in Seq(RxStore) /\ Len(rx_stores') = n + 3
      /\ \A k \in 1 .. n + 3 : rx_stores'[k] = IF k <= n THEN rx_stores[k] ELSE s[k - n]
  <2>1. /\ rx_stores' \in Seq(RxStore) /\ Len(rx_stores') = Len(rx_stores) + Len(s)
        /\ \A k \in 1 .. Len(rx_stores) + Len(s) :
             rx_stores'[k] = IF k <= Len(rx_stores) THEN rx_stores[k] ELSE s[k - Len(rx_stores)]
    BY <1>2, <1>5, ConcatProperties
  <2> QED
    BY <1>5, <1>6, <2>1
<1>8. DOMAIN rx_stores = 1 .. n /\ DOMAIN rx_stores' = 1 .. n + 3
  BY <1>2, <1>6, <1>7
<1>9. \A k \in 1 .. n : k \in 1 .. n + 3 /\ rx_stores'[k] = rx_stores[k]
  BY <1>6, <1>7
<1>10. rx_stores'[n + 1] = a /\ rx_stores'[n + 2] = c /\ rx_stores'[n + 3] = r
  <2>1. /\ ~(n + 1 <= n) /\ ~(n + 2 <= n) /\ ~(n + 3 <= n)
        /\ (n + 1) - n = 1 /\ (n + 2) - n = 2 /\ (n + 3) - n = 3
        /\ {n + 1, n + 2, n + 3} \subseteq 1 .. n + 3
    BY <1>6
  <2> QED
    BY <1>5, <1>7, <2>1
<1>11. \A k \in 1 .. n + 3 :
         \/ k \in 1 .. n \/ k = n + 1 \/ k = n + 2
         \/ k = n + 3 /\ \A l \in 1 .. n + 3 : l <= k
  BY <1>6
<1>12. \A x \in {"addr", "sta"} : \E k \in 1 .. n + 3 : rx_stores'[k].place = <<i, x>>
  <2>1. n + 1 \in 1 .. n + 3 /\ n + 2 \in 1 .. n + 3
    BY <1>6
  <2> QED
    BY <1>4, <1>10, <2>1
<1>13. DOMAIN rx_stores' \subseteq Nat
  BY <1>6, <1>8
<1> QED
  BY <1>7, <1>8, <1>9, <1>10, <1>11, <1>12, <1>13 DEF a, c, r

LEMMA RxPlacePartsNext ==
  RxEntries' =>
    /\ \A j \in Ring, x \in RxPart : RxPlace(j, x)' # <<"RDT">>
    /\ \A j, k \in Ring, x, y \in RxPart :
         RxPlace(j, x)' = RxPlace(k, y)' => j = k /\ x = y
<1>1. RxEntries =>
        /\ \A j \in Ring, x \in RxPart : RxPlace(j, x) # <<"RDT">>
        /\ \A j, k \in Ring, x, y \in RxPart :
             RxPlace(j, x) = RxPlace(k, y) => j = k /\ x = y
  BY RxPlaceParts
<1>2. (RxEntries =>
        /\ \A j \in Ring, x \in RxPart : RxPlace(j, x) # <<"RDT">>
        /\ \A j, k \in Ring, x, y \in RxPart :
             RxPlace(j, x) = RxPlace(k, y) => j = k /\ x = y)'
  BY <1>1, PTL
<1> QED
  BY <1>2

LEMMA ReceiveKeeps ==
  ASSUME Rx!RxOrderAssumption, RxInv, NEW b \in free, Rx!Receive(b)
  PROVE  /\ RxInv'
         /\ rx_pending # << >> /\ delivered' = Head(rx_pending)
         /\ rx_pending' = Tail(rx_pending)
<1>1. PICK i \in Ring : i = rx_index
  BY DEF RxInv, RxTypes
<1>2. /\ {RDH, RDT, rx_written_back} \subseteq Ring
      /\ Rx!Load(<<i, "sta">>) = "done"
      /\ delivered' = Rx!Load(<<bufs_in_use[i], "payload">>)
      /\ held' = held \cup {bufs_in_use[i]} /\ free' = free \ {b}
      /\ bufs_in_use' = [bufs_in_use EXCEPT ![i] = b]
      /\ rx_index' = wrap_ring(i)
      /\ rx_pending' = SubSeq(rx_pending, 2, Len(rx_pending))
      /\ UNCHANGED <<rx_mem, RDH, rx_written_back, rx_cached>>
      /\ RDT' = RDT
  BY <1>1, SameRing DEF Rx!Receive, Rx!cardVars, RxInv, RxTypes, RDT
<1>3. /\ \A j \in Ring : RxD(j) \in 0 .. QS - 1
      /\ RxD(i) = 0 /\ QS \in Nat
      /\ \A j \in Ring : j # i => 1 <= RxD(j)
  <2>1. \A j \in Ring : j # i => RxD(j) # 0
    BY <1>1, RxDistances
  <2> QED
    BY <1>1, <2>1, RxDistances
<1>4. /\ 1 <= RxD(rx_written_back) /\ RxD(rx_written_back) <= RxD(RDH) /\ RxD(RDH) <= RxD(RDT)
      /\ RxD(RDT) <= QS - 1
  BY <1>1, <1>2, <1>3, RxLoadDone DEF RxInv, RxOrdered
<1>5. wrap_ring(i) \in Ring /\ RxD(wrap_ring(i)) = 1
  <2>1. RxD(i) < QS - 1
    BY <1>2, <1>3, <1>4
  <2> QED
    BY <1>1, <1>3, <2>1, DistanceNext DEF RxD
<1>6. /\ \A j \in Ring : 1 <= RxD(j) => Distance(rx_index', j) = RxD(j) - 1
      /\ Distance(rx_index', i) = QS - 1
  <2>1. \A j \in Ring :
          Distance(wrap_ring(i), j) = IF 1 <= RxD(j) THEN RxD(j) - 1 ELSE RxD(j) - 1 + QS
    BY <1>1, <1>5, DistanceShift DEF RxD
  <2> QED
    BY <1>2, <1>3, <2>1
<1>7. /\ \A j : RxD(j)' = Distance(rx_index', j)
      /\ RxD(RDH)' = RxD(RDH) - 1 /\ RxD(RDT)' = RxD(RDT) - 1
      /\ RxD(rx_written_back)' = RxD(rx_written_back) - 1
  <2>1. 1 <= RxD(RDH) /\ 1 <= RxD(RDT)
    BY <1>2, <1>3, <1>4
  <2> QED
    BY <1>2, <1>4, <1>6, <2>1 DEF RxD
<1>8. /\ rx_stores' \in Seq(RxStore)
      /\ \A k \in DOMAIN rx_stores : k \in DOMAIN rx_stores' /\ rx_stores'[k] = rx_stores[k]
      /\ \A k \in DOMAIN rx_stores' :
           \/ k \in DOMAIN rx_stores
           \/ rx_stores'[k] = [place |-> <<i, "addr">>, value |-> b]
           \/ rx_stores'[k] = [place |-> <<i, "sta">>, value |-> "clear"]
           \/ /\ rx_stores'[k] = [place |-> <<"RDT">>, value |-> i]
              /\ \A l \in DOMAIN rx_stores' : l <= k
      /\ \A x \in {"addr", "sta"} :
           \E k \in DOMAIN rx_stores' : rx_stores'[k].place = <<i, x>>
      /\ DOMAIN rx_stores' \subseteq Nat
  BY <1>1, RxReceives
<1>9. RxEntries /\ b \in Rx!Entry /\ \A j \in Ring : bufs_in_use[j] # b
  BY DEF RxInv, RxEntries
<1>10. /\ bufs_in_use'[i] = b /\ \A j \in Ring : j # i => bufs_in_use'[j] = bufs_in_use[j]
       /\ bufs_in_use' \in [Ring -> Rx!Entry]
  BY <1>2, <1>9 DEF RxEntries
<1>11. RxEntries'
  <2>1. free' \subseteq Rx!Entry /\ held' \subseteq Rx!Entry /\ free' \cap held' = {}
    BY <1>1, <1>2, <1>9 DEF RxEntries
  <2>2. ASSUME NEW j \in Ring PROVE bufs_in_use'[j] \notin free' \cup held'
    <3>1. CASE j = i
      <4>1. b \notin held /\ b # bufs_in_use[i]
        BY <1>9 DEF RxEntries
      <4> QED
        BY <1>2, <1>10, <3>1, <4>1
    <3>2. CASE j # i
      <4>1. bufs_in_use[j] # bufs_in_use[i] /\ bufs_in_use[j] \notin free \cup held
        BY <1>9, <3>2 DEF RxEntries
      <4> QED
        BY <1>2, <1>10, <3>2, <4>1
    <3> QED
      BY <3>1, <3>2
  <2>3. ASSUME NEW j \in Ring, NEW k \in Ring, bufs_in_use'[j] = bufs_in_use'[k]
        PROVE  j = k
    BY <1>9, <1>10, <2>3 DEF RxEntries
  <2> QED
    BY <1>10, <2>1, <2>2, <2>3 DEF RxEntries
<1>12. /\ \A j \in Ring, x \in RxPart : j # i =>
            RxPlace(j, x)' = RxPlace(j, x) /\ RxWant(j, x)' = RxWant(j, x)
       /\ \A x \in {"addr", "sta"} : RxPlace(i, x)' = <<i, x>>
       /\ RxWant(i, "addr")' = b /\ RxWant(i, "sta")' = "clear"
  BY <1>10 DEF RxPlace, RxWant
<1>13. /\ \A j \in Ring, x \in RxPart : RxPlace(j, x)' # <<"RDT">>
       /\ \A j, k \in Ring, x, y \in RxPart :
            RxPlace(j, x)' = RxPlace(k, y)' => j = k /\ x = y
  BY <1>11, RxPlacePartsNext
<1>14. \A k \in DOMAIN rx_stores, x \in RxPart : rx_stores[k].place # RxPlace(i, x)
  <2>1. RxD(i) < RxD(RDT)
    BY <1>2, <1>3, <1>4
  <2> QED
    BY <2>1, RxSeen DEF RxLateAt
<1>15. ASSUME NEW k \in DOMAIN rx_stores, rx_stores[k].place = <<"RDT">>
       PROVE  /\ rx_stores[k].value \in Ring /\ RxD(RDT) <= RxD(rx_stores[k].value)
              /\ Distance(rx_index', rx_stores[k].value) = RxD(rx_stores[k].value) - 1
  <2>1. PICK v \in Ring : v = rx_stores[k].value /\ RxD(RDT) <= RxD(v)
    BY <1>15 DEF RxInv, RxLate
  <2>2. 1 <= RxD(v)
    BY <1>2, <1>3, <1>4, <2>1
  <2> QED
    BY <1>6, <2>1, <2>2
<1>16. ASSUME NEW k \in DOMAIN rx_stores, NEW j \in Ring, NEW x \in RxPart,
              rx_stores[k].place = RxPlace(j, x)', j # i
       PROVE  /\ rx_stores[k].place = RxPlace(j, x)
              /\ RxD(RDT) <= RxD(j) /\ Distance(rx_index', j) = RxD(j) - 1
              /\ x # "payload" => rx_stores[k].value = RxWant(j, x)'
  <2>1. rx_stores[k].place = RxPlace(j, x) /\ RxWant(j, x)' = RxWant(j, x)
    BY <1>12, <1>16
  <2>2. RxD(RDT) <= RxD(j) /\ (x # "payload" => rx_stores[k].value = RxWant(j, x))
    BY <2>1 DEF RxInv, RxLate
  <2>3. Distance(rx_index', j) = RxD(j) - 1
    BY <1>3, <1>6, <1>16
  <2> QED
    BY <2>1, <2>2, <2>3
<1>17. /\ "addr" \in RxPart /\ "sta" \in RxPart
       /\ \A x \in RxPart : x # "payload" => x \in {"addr", "sta"}
  BY DEF RxPart
<1>18. RxLate'
  <2> SUFFICES ASSUME NEW k \in DOMAIN rx_stores'
      PROVE  /\ rx_stores'[k].place = <<"RDT">> =>
                  /\ rx_stores'[k].value \in Ring
                  /\ RxD(RDT) - 1 <= Distance(rx_index', rx_stores'[k].value)
             /\ \A j \in Ring, x \in RxPart : rx_stores'[k].place = RxPlace(j, x)' =>
                  /\ RxD(RDT) - 1 <= Distance(rx_index', j)
                  /\ x # "payload" => rx_stores'[k].value = RxWant(j, x)'
    BY <1>7 DEF RxLate, RxD
  <2>0. RxD(RDT) - 1 <= Distance(rx_index', i)
    BY <1>2, <1>3, <1>6
  <2>1. CASE k \in DOMAIN rx_stores
    <3>1. rx_stores'[k] = rx_stores[k]
      BY <1>8, <2>1
    <3>2. ASSUME rx_stores[k].place = <<"RDT">>
          PROVE  /\ rx_stores[k].value \in Ring
                 /\ RxD(RDT) - 1 <= Distance(rx_index', rx_stores[k].value)
      BY <1>2, <1>3, <1>15, <2>1, <3>2
    <3>3. ASSUME NEW j \in Ring, NEW x \in RxPart, rx_stores[k].place = RxPlace(j, x)'
          PROVE  /\ RxD(RDT) - 1 <= Distance(rx_index', j)
                 /\ x # "payload" => rx_stores[k].value = RxWant(j, x)'
      <4>1. CASE j = i
        <5>1. x # "payload" => rx_stores[k].place = RxPlace(i, x)
          BY <3>3, <4>1, <1>12, <1>17 DEF RxPlace
        <5> QED
          BY <1>14, <2>0, <2>1, <4>1, <5>1
      <4>2. CASE j # i
        BY <1>2, <1>3, <1>16, <2>1, <3>3, <4>2
      <4> QED
        BY <4>1, <4>2
    <3> QED
      BY <3>1, <3>2, <3>3
  <2>2. ASSUME NEW y \in {"addr", "sta"}, NEW v, v = RxWant(i, y)',
               rx_stores'[k] = [place |-> <<i, y>>, value |-> v]
        PROVE  /\ rx_stores'[k].place # <<"RDT">>
               /\ \A j \in Ring, x \in RxPart : rx_stores'[k].place = RxPlace(j, x)' =>
                    /\ RxD(RDT) - 1 <= Distance(rx_index', j)
                    /\ x # "payload" => rx_stores'[k].value = RxWant(j, x)'
    <3>1. rx_stores'[k].place = RxPlace(i, y)' /\ rx_stores'[k].value = v
      BY <1>12, <2>2
    <3>2. y \in RxPart
      BY <1>17
    <3>3. \A j \in Ring, x \in RxPart : rx_stores'[k].place = RxPlace(j, x)' => j = i /\ x = y
      BY <1>13, <3>1, <3>2
    <3> QED
      BY <1>13, <2>0, <2>2, <3>1, <3>2, <3>3
  <2>3. ASSUME rx_stores'[k] = [place |-> <<"RDT">>, value |-> i]
        PROVE  /\ rx_stores'[k].place = <<"RDT">> /\ rx_stores'[k].value = i
    BY <2>3
  <2> QED
    BY <1>8, <1>12, <1>13, <2>0, <2>1, <2>2, <2>3
<1>19. RxTailLast'
  <2> SUFFICES ASSUME NEW k \in DOMAIN rx_stores', NEW l \in DOMAIN rx_stores', k < l,
                      rx_stores'[k].place = <<"RDT">>
      PROVE  /\ rx_stores'[l].place = <<"RDT">> =>
                  Distance(rx_index', rx_stores'[k].value) <= Distance(rx_index', rx_stores'[l].value)
             /\ \A j \in Ring, x \in RxPart : rx_stores'[l].place = RxPlace(j, x)' =>
                  Distance(rx_index', rx_stores'[k].value) <= Distance(rx_index', j)
    BY DEF RxTailLast, RxD
  <2>1. k \in DOMAIN rx_stores /\ rx_stores'[k] = rx_stores[k]
    <3>1. ~(\A m \in DOMAIN rx_stores' : m <= k)
      BY <1>8
    <3>2. ASSUME NEW x, NEW v, rx_stores'[k] = [place |-> <<i, x>>, value |-> v] PROVE FALSE
      <4>1. rx_stores'[k].place = <<i, x>>
        BY <3>2
      <4> QED
        BY <4>1, RxPlaces
    <3> QED
      BY <1>8, <3>1, <3>2
  <2>2. PICK v \in Ring : /\ v = rx_stores[k].value /\ RxD(RDT) <= RxD(v)
                          /\ Distance(rx_index', v) = RxD(v) - 1
    BY <1>15, <2>1
  <2>3. Distance(rx_index', v) <= Distance(rx_index', i)
    BY <1>3, <1>6, <2>2
  <2>4. CASE l \in DOMAIN rx_stores
    <3>1. rx_stores'[l] = rx_stores[l]
      BY <1>8, <2>4
    <3>2. ASSUME rx_stores[l].place = <<"RDT">>
          PROVE  Distance(rx_index', v) <= Distance(rx_index', rx_stores[l].value)
      <4>1. PICK u \in Ring : u = rx_stores[l].value /\ Distance(rx_index', u) = RxD(u) - 1
        BY <1>15, <2>4, <3>2
      <4>2. RxD(v) <= RxD(u)
        BY <2>1, <2>2, <2>4, <3>2, <4>1 DEF RxInv, RxTailLast
      <4> QED
        BY <1>3, <2>2, <4>1, <4>2
    <3>3. ASSUME NEW j \in Ring, NEW x \in RxPart, rx_stores[l].place = RxPlace(j, x)'
          PROVE  Distance(rx_index', v) <= Distance(rx_index', j)
      <4>1. CASE j = i
        BY <2>3, <4>1
      <4>2. CASE j # i
        <5>1. rx_stores[l].place = RxPlace(j, x) /\ Distance(rx_index', j) = RxD(j) - 1
          BY <1>16, <2>4, <3>3, <4>2
        <5>2. RxD(v) <= RxD(j)
          BY <2>1, <2>2, <2>4, <5>1 DEF RxInv, RxTailLast
        <5> QED
          BY <1>3, <2>2, <5>1, <5>2
      <4> QED
        BY <4>1, <4>2
    <3> QED
      BY <2>1, <2>2, <3>1, <3>2, <3>3
  <2>5. ASSUME NEW y \in {"addr", "sta"}, NEW u, rx_stores'[l] = [place |-> <<i, y>>, value |-> u]
        PROVE  /\ rx_stores'[l].place # <<"RDT">>
               /\ \A j \in Ring, x \in RxPart :
                    rx_stores'[l].place = RxPlace(j, x)' => j = i
    <3>1. rx_stores'[l].place = RxPlace(i, y)' /\ y \in RxPart
      BY <1>12, <1>17, <2>5
    <3> QED
      BY <1>13, <3>1
  <2>6. ASSUME rx_stores'[l] = [place |-> <<"RDT">>, value |-> i]
        PROVE  rx_stores'[l].place = <<"RDT">> /\ rx_stores'[l].value = i
    BY <2>6
  <2> QED
    BY <1>8, <1>13, <2>1, <2>2, <2>3, <2>4, <2>5, <2>6
<1>20. RxArrived'
  <2> SUFFICES ASSUME NEW j \in Ring, NEW x \in {"addr", "sta"},
                      (RxD(IF x = "addr" THEN RDH ELSE rx_written_back) <= RxD(j))'
               PROVE  RxLateAt(<<j, x>>)' \/ rx_mem'[<<j, x>>] = RxWant(j, x)'
    BY DEF RxArrived
  <2>1. CASE j = i
    BY <1>8, <2>1 DEF RxLateAt
  <2>2. CASE j # i
    <3>1. RxD(j)' = RxD(j) - 1
      BY <1>3, <1>6, <1>7, <2>2
    <3>2. RxD(IF x = "addr" THEN RDH ELSE rx_written_back) <= RxD(j)
      <4>1. CASE x = "addr"
        BY <1>2, <1>3, <1>7, <3>1, <4>1
      <4>2. CASE x # "addr"
        BY <1>2, <1>3, <1>7, <3>1, <4>2
      <4> QED
        BY <4>1, <4>2
    <3>3. RxLateAt(<<j, x>>) \/ rx_mem[<<j, x>>] = RxWant(j, x)
      BY <3>2 DEF RxInv, RxArrived
    <3>4. RxLateAt(<<j, x>>) => RxLateAt(<<j, x>>)'
      BY <1>8 DEF RxLateAt
    <3>5. RxWant(j, x)' = RxWant(j, x)
      BY <1>12, <1>17, <2>2 DEF RxPart
    <3> QED
      BY <1>2, <3>3, <3>4, <3>5
  <2> QED
    BY <2>1, <2>2
<1>21. RxFetched'
  <2> SUFFICES ASSUME NEW j \in Ring, RxD(rx_written_back) - 1 <= RxD(j)', RxD(j)' < RxD(RDH) - 1
               PROVE  rx_cached[j] = bufs_in_use'[j]
    BY <1>2, <1>7 DEF RxFetched
  <2>1. j # i
    BY <1>2, <1>3, <1>6, <1>7
  <2>2. RxD(j)' = RxD(j) - 1
    BY <1>3, <1>6, <1>7, <2>1
  <2>3. RxD(rx_written_back) <= RxD(j) /\ RxD(j) < RxD(RDH)
    BY <1>2, <1>3, <2>2
  <2> QED
    BY <1>10, <2>1, <2>3 DEF RxInv, RxFetched
<1>22. /\ rx_pending \in Seq(Frame) /\ Len(rx_pending) = RxD(rx_written_back) /\ rx_pending # << >>
       /\ rx_pending' = Tail(rx_pending)
       /\ rx_pending' \in Seq(Frame) /\ Len(rx_pending') = RxD(rx_written_back) - 1
       /\ \A n \in 1 .. RxD(rx_written_back) - 1 : rx_pending'[n] = rx_pending[n + 1]
  <2>1. rx_pending \in Seq(Frame) /\ Len(rx_pending) = RxD(rx_written_back)
    BY DEF RxInv, RxTypes
  <2>2. rx_pending # << >>
    BY <1>4, <2>1
  <2>3. rx_pending' = Tail(rx_pending)
    BY <1>2, <2>1, <2>2
  <2>4. Tail(rx_pending) \in Seq(Frame) /\ Len(Tail(rx_pending)) = Len(rx_pending) - 1
        /\ \A n \in 1 .. Len(rx_pending) - 1 : Tail(rx_pending)[n] = rx_pending[n + 1]
    BY <2>1, <2>2, HeadTailProperties
  <2> QED
    BY <2>1, <2>2, <2>3, <2>4
<1>23. RxFilled'
  <2> SUFFICES ASSUME NEW j \in Ring, RxD(j)' < RxD(rx_written_back) - 1
               PROVE  rx_mem[<<bufs_in_use'[j], "payload">>] = rx_pending'[RxD(j)' + 1]
    BY <1>2, <1>7 DEF RxFilled
  <2>1. j # i
    BY <1>2, <1>3, <1>6, <1>7
  <2>2. RxD(j)' = RxD(j) - 1 /\ 1 <= RxD(j)
    BY <1>3, <1>6, <1>7, <2>1
  <2>3. RxD(j) < RxD(rx_written_back) /\ RxD(j) \in 1 .. RxD(rx_written_back) - 1
        /\ RxD(j)' + 1 = RxD(j)
    BY <1>2, <1>3, <2>2
  <2>4. rx_mem[<<bufs_in_use[j], "payload">>] = rx_pending[RxD(j) + 1]
    BY <2>3 DEF RxInv, RxFilled
  <2> QED
    BY <1>10, <1>22, <2>1, <2>3, <2>4
<1>24. delivered' = rx_pending[1]
  <2>1. "payload" \in RxPart /\ RxPlace(i, "payload") = <<bufs_in_use[i], "payload">>
    BY DEF RxPart, RxPlace
  <2>2. {k \in DOMAIN rx_stores : rx_stores[k].place = <<bufs_in_use[i], "payload">>} = {}
    BY <1>14, <2>1
  <2>3. delivered' = rx_mem[<<bufs_in_use[i], "payload">>]
    BY <1>2, <2>2 DEF Rx!Load
  <2>4. RxD(i) < RxD(rx_written_back) /\ RxD(i) + 1 = 1
    BY <1>2, <1>3, <1>4
  <2> QED
    BY <2>3, <2>4 DEF RxInv, RxFilled
<1>25. delivered' \in Frame
  <2>1. 1 \in 1 .. Len(rx_pending)
    BY <1>2, <1>3, <1>4, <1>22
  <2> QED
    BY <1>22, <1>24, <2>1
<1>26. RxTypes'
  BY <1>2, <1>5, <1>7, <1>8, <1>22, <1>25 DEF RxInv, RxTypes
<1>27. RxOrdered'
  BY <1>2, <1>3, <1>4, <1>7 DEF RxOrdered
<1>28. Head(rx_pending) = rx_pending[1]
  BY <1>22
<1> QED
  BY <1>11, <1>18, <1>19, <1>20, <1>21, <1>22, <1>23, <1>24, <1>26, <1>27, <1>28 DEF RxInv

-----------------------------------------------------------------------------
(* RxOrder: the theorems.                                                  *)

LEMMA RxStep ==
  ASSUME Rx!RxOrderAssumption, InOrder = TRUE, RxInv, [Rx!Next]_(Rx!vars)
  PROVE  RxInv' /\ [Rx!Fifo!Next]_(Rx!Fifo!fifoVars)
<1>1. CASE UNCHANGED Rx!vars
  <2>1. UNCHANGED <<rx_mem, rx_stores, rx_index, bufs_in_use, free, held, delivered,
                    RDH, rx_written_back, rx_cached, rx_pending>>
    BY <1>1 DEF Rx!vars, Rx!driverVars, Rx!cardVars
  <2>2. RxTypes' /\ RxEntries' /\ RxOrdered'
    BY <2>1 DEF RxInv, RxTypes, RxEntries, RxOrdered, RxD, RDT
  <2>3. RxLate' /\ RxTailLast'
    BY <2>1 DEF RxInv, RxLate, RxTailLast, RxWant, RxPlace, RxD, RDT
  <2>4. RxArrived' /\ RxFetched' /\ RxFilled'
    BY <2>1 DEF RxInv, RxArrived, RxFetched, RxFilled, RxLateAt, RxWant, RxD
  <2> QED
    BY <2>1, <2>2, <2>3, <2>4 DEF RxInv, Rx!Fifo!fifoVars
<1>2. ASSUME NEW b \in free, Rx!Receive(b)
      PROVE  RxInv' /\ Rx!Fifo!Next
  <2>1. /\ RxInv' /\ rx_pending # << >> /\ delivered' = Head(rx_pending)
        /\ rx_pending' = Tail(rx_pending)
    BY <1>2, ReceiveKeeps
  <2> QED
    BY <2>1 DEF Rx!Fifo!Next, Rx!Fifo!Take
<1>3. ASSUME NEW b \in held, Rx!WriteAndDrop(b)
      PROVE  RxInv' /\ UNCHANGED <<rx_pending, delivered>>
  BY <1>3, WriteAndDropKeeps DEF Rx!WriteAndDrop
<1>4. CASE Rx!StoreArrives
  <2>1. UNCHANGED <<rx_pending, delivered>>
    BY <1>4 DEF Rx!StoreArrives, Rx!driverVars
  <2> QED
    BY <1>4, <2>1, RxArrivesKeeps DEF Rx!Fifo!fifoVars
<1>5. CASE Rx!CardFetch
  <2>1. UNCHANGED <<rx_pending, delivered>>
    BY <1>5 DEF Rx!CardFetch, Rx!driverVars
  <2> QED
    BY <1>5, <2>1, RxCardFetchKeeps DEF Rx!Fifo!fifoVars
<1>6. ASSUME NEW f \in Frame, Rx!CardReceive(f)
      PROVE  RxInv' /\ Rx!Fifo!Next
  <2>1. /\ RxInv' /\ Len(rx_pending) < QS - 1 /\ rx_pending' = Append(rx_pending, f)
        /\ delivered' = delivered
    BY <1>6, RxCardReceiveKeeps
  <2> QED
    BY <2>1 DEF Rx!Fifo!Next, Rx!Fifo!Put
<1> QED
  BY <1>1, <1>2, <1>3, <1>4, <1>5, <1>6 DEF Rx!Next, Rx!Fifo!fifoVars

LEMMA RxInvCorrect ==
  ASSUME Rx!RxOrderAssumption, InOrder = TRUE
  PROVE  Rx!Spec => []RxInv
<1>1. Rx!Init => RxInv
  BY RxInitKeeps
<1>2. RxInv /\ [Rx!Next]_(Rx!vars) => RxInv'
  BY RxStep
<1> QED
  BY <1>1, <1>2, PTL DEF Rx!Spec

\* Every variable of RxOrder keeps to its type, no entry is in two descriptors,
\* and the frames that wait are those between the driver's index and the
\* card's, if the stores arrive in program order.
THEOREM RxOrderTypeCorrect ==
  ASSUME Rx!RxOrderAssumption, InOrder = TRUE
  PROVE  Rx!Spec => []Rx!TypeOK
<1>1. RxInv => Rx!TypeOK
  <2> SUFFICES ASSUME RxInv PROVE Rx!TypeOK
    OBVIOUS
  <2>1. \A k \in DOMAIN rx_stores : rx_stores[k].place \in Rx!Place
    <3>1. \A k \in DOMAIN rx_stores : rx_stores[k] \in RxStore
      BY DEF RxInv, RxTypes
    <3> QED
      BY <3>1 DEF RxStore
  <2>2. Len(rx_pending) = Distance(rx_index, rx_written_back)
    BY DEF RxInv, RxTypes, RxD
  <2>3. bufs_in_use \in [Ring -> Rx!Entry] /\ Rx!IsInjective(bufs_in_use)
    BY DEF RxInv, RxEntries, Rx!IsInjective
  <2>4. free \subseteq Rx!Entry /\ held \subseteq Rx!Entry
    BY DEF RxInv, RxEntries
  <2> QED
    BY <2>1, <2>2, <2>3, <2>4, SameRing DEF Rx!TypeOK, RxInv, RxTypes, RDT
<1> QED
  BY <1>1, RxInvCorrect, PTL

\* On a processor whose stores arrive in program order (x86), receive_packets
\* gives the callback the frames that arrived, unaltered and in that order, for
\* every size of the ring and of the pool, whatever applications write to the
\* packets that they drop, although the driver has no barrier: each step is a
\* step of a first-in first-out queue, or a stutter.
THEOREM ReceivesInOrder ==
  ASSUME Rx!RxOrderAssumption, InOrder = TRUE
  PROVE  Rx!Spec => RxIsFifo
<1>1. Rx!Init => Rx!Fifo!Init
  BY DEF Rx!Init, Rx!Fifo!Init
<1>2. RxInv /\ [Rx!Next]_(Rx!vars) => [Rx!Fifo!Next]_(Rx!Fifo!fifoVars)
  BY RxStep
<1> QED
  BY <1>1, <1>2, RxInvCorrect, PTL DEF Rx!Spec, RxIsFifo, Rx!RxIsFifo, Rx!Fifo!Spec

-----------------------------------------------------------------------------
(* All of them.                                                            *)

\* Every variable of the five models keeps to its type, one model beside the
\* other, with stores in program order and one thread at the pool, and any
\* number of ports.
THEOREM AllTypesCorrect ==
  ASSUME Tx!TxOrderAssumption, Rx!RxOrderAssumption, O!OpenAssumption,
         OneThread, InOrder = TRUE
  PROVE  Tx!Spec /\ Rx!Spec /\ Race!Spec /\ Spec /\ O!Spec => []AccessesTypeOK
<1>1. Tx!TypeOK /\ Rx!TypeOK /\ Race!TypeOK /\ TypeOK /\ O!TypeOK => AccessesTypeOK
  BY DEF AccessesTypeOK
<1> QED
  BY <1>1, TxOrderTypeCorrect, RxOrderTypeCorrect, RaceTypeCorrect, TypeCorrect,
     OpenTypeCorrect, PTL
=============================================================================
