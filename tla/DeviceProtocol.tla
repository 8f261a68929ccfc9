---------------------------- MODULE DeviceProtocol ----------------------------
(***************************************************************************)
(* What a charger says over MQTT, and the reducer that the API, the        *)
(* telemetry service and the portal build their view of a charger with.    *)
(*                                                                         *)
(* A message is a record; only what the firmware publishes occurs, so the  *)
(* reducer's refusal of malformed payloads is left out.                    *)
(***************************************************************************)

EXTENDS Sequences, SequencesExt

CONSTANTS
  Unknown,   \* null: not heard of yet
  NoTx       \* idle: no transaction

Status(up) == [kind |-> "status", online |-> up]
Relay(on) == [kind |-> "relay", on |-> on]
TxState(tx) == [kind |-> "tx", tx |-> tx]
Meter(values) == [kind |-> "meter", values |-> values]

emptyDeviceState ==
  [online |-> Unknown, relay |-> Unknown, meter |-> Unknown, transaction |-> Unknown]

\* MUTANT of applyMessage: readings do not tell that the charger is online.
applyMessage_OnlineBySaying(state, m) ==
  CASE m.kind = "status" -> [state EXCEPT !.online = m.online]
    [] m.kind = "relay"  -> [state EXCEPT !.relay = m.on]
    [] m.kind = "tx"     -> [state EXCEPT !.transaction = m.tx]
    [] m.kind = "meter"  -> [state EXCEPT !.meter = m.values]

\* Transaction states and readings also tell that the charger is online.
applyMessage(state, m) ==
  CASE m.kind = "status" -> [state EXCEPT !.online = m.online]
    [] m.kind = "relay"  -> [state EXCEPT !.relay = m.on]
    [] m.kind = "tx"     -> [state EXCEPT !.online = TRUE, !.transaction = m.tx]
    [] m.kind = "meter"  -> [state EXCEPT !.online = TRUE, !.meter = m.values]

----------------------------------------------------------------------------
(* The broker retains the last message of these kinds, per charger.         *)

RetainedKinds == {"status", "relay", "tx"}

NothingRetained == [k \in RetainedKinds |-> <<>>]

RetainAll(retained, messages) ==
  [k \in RetainedKinds |->
     LET ofKind == {i \in DOMAIN messages : messages[i].kind = k}
     IN IF ofKind = {} THEN retained[k] ELSE <<messages[Max(ofKind)]>>]

\* What arrives when a connection breaks while the outbox waits for the
\* acknowledgement of its first message: that message, or not, and the will.
LastWords(outbox) ==
  {<<Status(FALSE)>>} \union
    (IF outbox = <<>> THEN {} ELSE {<<Head(outbox), Status(FALSE)>>})

\* What a new subscription to DEVICE_STATE_TOPICS is sent first.
OnSubscribe(retained) == retained["status"] \o retained["relay"] \o retained["tx"]
===============================================================================
