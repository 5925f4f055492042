--------------------------- MODULE MCDeviceInit ---------------------------
(***************************************************************************)
(* DeviceInit for TLC.                                                     *)
(***************************************************************************)
EXTENDS DeviceInit
=============================================================================
