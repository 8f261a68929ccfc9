--------------------------- MODULE SessionContract ---------------------------
(***************************************************************************)
(* What a charger promises about its charging sessions, whatever happens   *)
(* to its power supply and its network:                                    *)
(*   - at most one session is open at any time, and a session that was     *)
(*     closed is never opened again;                                       *)
(*   - the end of a session is announced at most once, and never while     *)
(*     the session is still the open one.                                  *)
(* An announcement may be missing (the charger lost power before it could  *)
(* be sent), which is why nothing here is fair.                            *)
(*                                                                         *)
(* Sessions are numbered by the start that opened them.                    *)
(***************************************************************************)
EXTENDS Naturals

VARIABLES
  open,       \* the session a power cut would resume, 0 when there is none
  opened,     \* how many sessions have been opened so far
  announced   \* the sessions whose end has reached the broker

vars == <<open, opened, announced>>

Init ==
  /\ open = 0
  /\ opened = 0
  /\ announced = {}

Open ==
  /\ open = 0
  /\ opened' = opened + 1
  /\ open' = opened'
  /\ UNCHANGED announced

Close ==
  /\ open # 0
  /\ open' = 0
  /\ UNCHANGED <<opened, announced>>

Announce(r) ==
  /\ r \notin announced
  /\ r # open
  /\ announced' = announced \cup {r}
  /\ UNCHANGED <<open, opened>>

Next ==
  \/ Open
  \/ Close
  \/ \E r \in 1..opened : Announce(r)

Spec == Init /\ [][Next]_vars
==============================================================================
