------------------------------ MODULE MCCharging ------------------------------
(***************************************************************************)
(* The instance of ChargingSession that TLC checks.  Until the first       *)
(* session has begun nothing but a start in progress names a transaction,  *)
(* and the transactions are alike: the first start names always the same   *)
(* one, and the next ones that or another.                                 *)
(***************************************************************************)
EXTENDS ChargingSession

FirstTx == CHOOSE t \in Tx : TRUE

InTurn == lastRun = 0 /\ job' # job => job'.tx \in {FirstTx, NoTx}

MCSpec == Init /\ [][Next /\ InTurn]_vars /\ Fairness
===============================================================================
