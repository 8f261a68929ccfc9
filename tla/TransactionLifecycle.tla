------------------------- MODULE TransactionLifecycle -------------------------
(***************************************************************************)
(* What the backend promises a tenant about a charging transaction:        *)
(*   - it is requested, confirmed, stopped on request and finally over,    *)
(*     and what is over ("stopped") never changes again; a request the     *)
(*     device never confirmed fails, and may still turn out to have ended; *)
(*   - the tenant is told of a start, a failure and a stop at most once    *)
(*     each, only of what did happen, never of both a start and a failure, *)
(*     and of a start only before the stop.                                *)
(* An event may be missing (the service died before it wrote it), which is *)
(* why nothing here is fair.                                               *)
(***************************************************************************)

CONSTANT Tx

VARIABLES
  state,   \* of each transaction
  told     \* the events recorded for the tenant about each transaction

vars == <<state, told>>

States == {"none", "starting", "active", "stopping", "stopped", "failed"}

Init ==
  /\ state = [t \in Tx |-> "none"]
  /\ told = [t \in Tx |-> {}]

Move(t, from, to) ==
  /\ state[t] \in from
  /\ state' = [state EXCEPT ![t] = to]
  /\ UNCHANGED told

Request(t) == Move(t, {"none"}, "starting")

Confirm(t) == Move(t, {"starting"}, "active")

RequestStop(t) == Move(t, {"starting", "active"}, "stopping")

Finish(t) == Move(t, {"starting", "active", "stopping", "failed"}, "stopped")

\* Requests that were never confirmed fail together.
Expire(expired) ==
  /\ \A t \in expired : state[t] = "starting"
  /\ state' = [t \in Tx |-> IF t \in expired THEN "failed" ELSE state[t]]
  /\ UNCHANGED told

Tell(t, event) ==
  /\ event \notin told[t]
  /\ told' = [told EXCEPT ![t] = @ \cup {event}]
  /\ UNCHANGED state

TellStarted(t) ==
  /\ state[t] \in {"active", "stopping"}
  /\ told[t] = {}
  /\ Tell(t, "TransactionStarted")

TellFailed(t) ==
  /\ state[t] \in {"failed", "stopped"}
  /\ "TransactionStarted" \notin told[t]
  /\ Tell(t, "TransactionFailed")

TellStopped(t) ==
  /\ state[t] = "stopped"
  /\ Tell(t, "TransactionStopped")

Next ==
  \/ \E t \in Tx :
       \/ Request(t) \/ Confirm(t) \/ RequestStop(t) \/ Finish(t)
       \/ TellStarted(t) \/ TellFailed(t) \/ TellStopped(t)
  \/ \E expired \in SUBSET Tx : Expire(expired)

Spec == Init /\ [][Next]_vars
==============================================================================
