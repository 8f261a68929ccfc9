---------------------------- MODULE MCTransactions ----------------------------
(***************************************************************************)
(* The instance of Transactions in which ends are followed: two            *)
(* transactions, one of which can supersede the other.  Ids nothing knows  *)
(* of yet are alike, so they are taken in one order: it makes half of the  *)
(* behaviours, which name the same things otherwise, unnecessary.          *)
(***************************************************************************)
EXTENDS Transactions

Untouched(t) ==
  /\ rows[t] = "none"
  /\ t \notin {running, retained, work.tx}
  /\ \A r \in requests \cup Range(commands) \cup Range(reports) \cup Range(chain) :
       r.tx # t

InTurn ==
  \A r \in requests' \ requests :
    Untouched(r.tx) => r.tx = CHOOSE t \in Tx : Untouched(t)

MCSpec == Init /\ [][Next /\ InTurn]_vars /\ Fairness
===============================================================================
