----------------------------- MODULE MCIgbDevice -----------------------------
(***************************************************************************)
(* IgbDevice for TLC.  The constants are given in the configurations.      *)
(***************************************************************************)
EXTENDS IgbDevice
=============================================================================
