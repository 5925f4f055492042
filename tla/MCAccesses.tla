------------------------------ MODULE MCAccesses ------------------------------
(***************************************************************************)
(* Accesses for TLC.  A behaviour belongs to one of the models, `part`;    *)
(* the others stay as they are initially.                                  *)
(***************************************************************************)
EXTENDS Accesses

VARIABLE part

ASSUME /\ Tx!OrderAssumption /\ Tx!TxOrderAssumption /\ Rx!RxOrderAssumption
       /\ Race!ThreadAssumption /\ O!OpenAssumption

AccessesInit ==
  /\ Init /\ Tx!Init /\ Rx!Init /\ Race!Init /\ O!Init
  /\ part \in {"send", "receive", "pool", "sync", "open"}
  /\ part # "sync" => firmware = {}
  /\ part # "open" => phy = {} /\ RCTL = {} /\ EIMS = {} /\ MDIC = O!Idle

AccessesNext ==
  /\ UNCHANGED part
  /\ \/ part = "send"    /\ Tx!Next
        /\ UNCHANGED <<rxVars, poolVars, vars, openVars>>
     \/ part = "receive" /\ Rx!Next
        /\ UNCHANGED <<txVars, poolVars, vars, openVars>>
     \/ part = "pool"    /\ Race!Next
        /\ UNCHANGED <<txVars, rxVars, vars, openVars>>
     \/ part = "sync"    /\ Next
        /\ UNCHANGED <<txVars, rxVars, poolVars, openVars>>
     \/ part = "open"    /\ O!Next
        /\ UNCHANGED <<txVars, rxVars, poolVars, vars>>

\* The fairness of open, which asks for nothing as long as open is not called.
AccessesSpec ==
  /\ AccessesInit
  /\ [][AccessesNext]_<<part, txVars, rxVars, poolVars, vars, openVars>>
  /\ O!Fairness
=============================================================================
