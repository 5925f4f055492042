----------------------------- MODULE MCPoolRace -----------------------------
(***************************************************************************)
(* PoolRace for TLC.  The constants are given in the configurations.       *)
(***************************************************************************)
EXTENDS PoolRace
=============================================================================
