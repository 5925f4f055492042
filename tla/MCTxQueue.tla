------------------------------ MODULE MCTxQueue ------------------------------
(***************************************************************************)
(* TxQueue for TLC.  The constants are given in the configurations.        *)
(***************************************************************************)
EXTENDS TxQueue
=============================================================================
