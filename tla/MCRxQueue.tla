------------------------------ MODULE MCRxQueue ------------------------------
(***************************************************************************)
(* RxQueue for TLC.  The constants are given in the configurations.        *)
(***************************************************************************)
EXTENDS RxQueue
=============================================================================
