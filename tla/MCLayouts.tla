------------------------------ MODULE MCLayouts -------------------------------
(***************************************************************************)
(* Layouts for TLC, and beside it the layout of a descriptor               *)
(* (Descriptors).  A behaviour belongs to one of the three models, `part`; *)
(* the others stay as they are initially, the registers as they are after  *)
(* power-on with all bits clear.                                           *)
(***************************************************************************)
EXTENDS Layouts

CONSTANTS BufferAddress, FrameLength     \* of Descriptors

VARIABLES
  part,
  rx, rx_address, rx_fetched, rx_written, tx, tx_given, tx_state

descriptorVars == <<rx, rx_address, rx_fetched, rx_written, tx, tx_given, tx_state>>

D == INSTANCE Descriptors WITH Address <- BufferAddress, Length <- FrameLength

ASSUME D!DescriptorsAssumption /\ P!PacketAssumption

LayoutsInit ==
  /\ Init /\ D!Init /\ P!Init
  /\ part \in {"registers", "descriptors", "packets"}
  /\ part # "registers" => power_on = {} /\ mask = {}

LayoutsNext ==
  /\ UNCHANGED part
  /\ \/ part = "registers"   /\ Next   /\ UNCHANGED <<descriptorVars, packetVars>>
     \/ part = "descriptors" /\ D!Next /\ UNCHANGED <<vars, packetVars>>
     \/ part = "packets"     /\ P!Next /\ UNCHANGED <<vars, descriptorVars>>

LayoutsSpec ==
  LayoutsInit /\ [][LayoutsNext]_<<part, vars, descriptorVars, packetVars>>

\* Every variable of the three models keeps to its type.
LayoutsTypeOK == TypeOK /\ D!TypeOK /\ P!TypeOK

\* The driver reads from a descriptor what the card reported: see Descriptors.
ReportIsRead == D!ReportIsRead

\* The card finds in a descriptor what send wrote: see Descriptors.
PacketIsDescribed == D!PacketIsDescribed
=============================================================================
