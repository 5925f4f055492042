---------------------------- MODULE EarlierDesign ----------------------------
(***************************************************************************)
(* The two models of src/doc/main side by side: Synced and Semaphore       *)
(* (PhySync), and open (IgbOpen), which does not use them yet.  They share *)
(* no state.                                                               *)
(***************************************************************************)
EXTENDS PhySync

CONSTANTS TryCount, PhyBit        \* see IgbOpen

VARIABLES
  open_pc, result, tries, CTRL, CTRL_EXT, RCTL, TCTL, EIMS, MDIC, mii_reg,
  phy, phy_before

openVars == <<open_pc, result, tries, CTRL, CTRL_EXT, RCTL, TCTL, EIMS, MDIC,
              mii_reg, phy, phy_before>>

O == INSTANCE IgbOpen WITH pc <- open_pc

\* open leaves the PHY powered up: see IgbOpen.
PhyIsPoweredUp == O!PhyIsPoweredUp

\* open returns, also from a card that never finishes its reset: see IgbOpen.
OpenReturns == O!OpenReturns
=============================================================================
