----------------------------- MODULE RelayCommand -----------------------------
(***************************************************************************)
(* Switching a contactor over HTTP: setRelay of the API's device bus, the  *)
(* broker, and the command handler of one charger.                         *)
(*                                                                         *)
(* A call publishes a command under an id of its own and waits, under a    *)
(* timer, for a relay message that carries the id.  The charger puts the   *)
(* id of its last command into every relay message, also into those that   *)
(* a session's start or end, or a reconnect, make it publish.  Commands    *)
(* and answers are QoS 1: what was not acknowledged is sent again on the   *)
(* next connection.  The broker retains the last status, relay and         *)
(* transaction message for whoever subscribes later.                       *)
(***************************************************************************)
EXTENDS DeviceProtocol, Naturals, Functions

CONSTANTS
  Session,          \* the transaction of a session: ids are not told apart
  MaxCalls,         \* bound: calls of setRelay
  MaxFaults,        \* bound: connections lost, and restarts, on either side
  MaxSessions,      \* bound: charging sessions started
  MaxBacklog        \* bound: messages waiting at the charger when it is told more

ASSUME ConstantsAssumption ==
  /\ MaxCalls \in Nat
  /\ Unknown \notin BOOLEAN
  /\ Session # NoTx
  /\ MaxFaults \in Nat
  /\ MaxSessions \in Nat
  /\ MaxBacklog \in Nat

VARIABLES
  call,            \* the API's calls: arguments, progress and answer
  pending,         \* pending: calls whose timer runs
  apiUp,           \* the API is connected and subscribed
  outgoing,        \* mqtt.js: commands not acknowledged yet
  inbox,           \* messages on their way from the broker to the API
  known,           \* states: what the API believes of the charger
  retained,        \* broker: the retained messages of the charger
  toDevice,        \* commands on their way from the broker to the charger
  deviceUp,        \* the charger is connected and subscribed
  relay,           \* the contactor
  charging,        \* s_active
  requestId,       \* s_request_id of relay_remote.c
  outbox,          \* esp-mqtt: messages not acknowledged yet
  faultCount, sessions,   \* so far
  watched,         \* history: calls since which the API missed no message
  carriedOut,      \* history: calls whose command switched the contactor
  refused          \* history: calls whose command the guard refused

api == <<call, pending, known>>
apiClient == <<apiUp, outgoing>>
contactor == <<relay, charging, requestId>>
counters == <<faultCount, sessions>>
history == <<carriedOut, refused>>
vars == <<api, apiClient, inbox, retained, toDevice, deviceUp, contactor,
          outbox, counters, watched, history>>

----------------------------------------------------------------------------
(* Calls and messages                                                       *)

\* Calls are numbered in the order they are made; the number is the id.
Calls == 1..MaxCalls

NoCall == 0

RelayMessage(on, id, no) ==
  [kind |-> "relay", on |-> on, id |-> id, rejected |-> no]

\* relay_remote_publish_state, from where nothing was refused.
RelayState(on, id) == RelayMessage(on, id, FALSE)

StatusMessages == [kind : {"status"}, online : BOOLEAN]

RelayMessages ==
  [kind : {"relay"}, on : BOOLEAN, id : Calls \cup {NoCall}, rejected : BOOLEAN]

TxMessages == [kind : {"tx"}, tx : {Session, NoTx}]

Message == StatusMessages \cup RelayMessages \cup TxMessages

Answers == {"none", "on", "off", "rejected", "timeout", "offline", "unavailable"}

\* The status the route answers with; 0 while it has not.
StatusOf(answer) ==
  CASE answer \in {"on", "off"}           -> 200
    [] answer \in {"offline", "rejected"} -> 409
    [] answer = "timeout"                 -> 504
    [] answer = "unavailable"             -> 503
    [] answer = "none"                    -> 0

\* on, force: the arguments.  answer: how the call's promise settled.
Call ==
  [stage : {"new", "made", "lost"}, on : BOOLEAN, force : BOOLEAN, answer : Answers]

NewCall == [stage |-> "new", on |-> FALSE, force |-> FALSE, answer |-> "none"]

----------------------------------------------------------------------------
Init ==
  /\ call = [c \in Calls |-> NewCall]
  /\ pending = {}
  /\ apiUp = FALSE
  /\ outgoing = <<>>
  /\ inbox = <<>>
  /\ known = emptyDeviceState
  /\ retained = NothingRetained
  /\ toDevice = <<>>
  /\ deviceUp = FALSE
  /\ relay = FALSE
  /\ charging = FALSE
  /\ requestId = NoCall
  /\ outbox = <<>>
  /\ faultCount = 0 /\ sessions = 0
  /\ watched = {}
  /\ carriedOut = {}
  /\ refused = {}

(***************************************************************************)
(* The API                                                                  *)
(***************************************************************************)

\* setRelay fails at once while the API is disconnected or the charger is
\* known to be offline.  Otherwise the timer starts and the command goes out.
SetRelay(c, on, force) ==
  LET ends == IF ~apiUp THEN "unavailable"
              ELSE IF known.online = FALSE THEN "offline" ELSE "none"
  IN /\ call[c].stage = "new"
     /\ \A d \in 1..(c - 1) : call[d].stage # "new"
     /\ call' = [call EXCEPT ![c] =
          [stage |-> "made", on |-> on, force |-> force, answer |-> ends]]
     /\ IF ends = "none"
        THEN /\ pending' = pending \cup {c}
             /\ outgoing' = Append(outgoing, c)
        ELSE UNCHANGED <<pending, outgoing>>
     /\ watched' = IF apiUp THEN watched \cup {c} ELSE watched
     /\ UNCHANGED <<apiUp, inbox, known, retained, toDevice, deviceUp,
                    contactor, outbox, counters, history>>

\* MUTANT of Settle: the call is forgotten, but its promise is not settled.
Settle_Forgets(c, how) ==
  /\ pending' = pending \ {c}
  /\ UNCHANGED call

\* The first settlement of a call stands, and takes it out of the map.
Settle(c, how) ==
  /\ call' = [call EXCEPT ![c].answer = how]
  /\ pending' = pending \ {c}

\* The timer of a call fires, whether or not its command ever left.
Timeout(c) ==
  /\ c \in pending
  /\ Settle(c, "timeout")
  /\ UNCHANGED <<known, apiClient, inbox, retained, toDevice, deviceUp,
                 contactor, outbox, counters, watched, history>>

\* What a relay message says to the call it names.
Answer(m) == IF m.rejected THEN "rejected" ELSE IF m.on THEN "on" ELSE "off"

\* MUTANT of Receive: the ids are not compared.
Receive_AnyCall ==
  /\ inbox # <<>>
  /\ LET m == Head(inbox) IN
       /\ known' = applyMessage(known, m)
       /\ IF m.kind = "relay" /\ pending # {}
            THEN \E c \in pending : Settle(c, Answer(m))
            ELSE UNCHANGED <<call, pending>>
  /\ inbox' = Tail(inbox)
  /\ UNCHANGED <<apiClient, retained, toDevice, deviceUp, contactor, outbox,
                 counters, watched, history>>

\* onMessage: the reducer, then the pending call of that id, if there is one.
Receive ==
  /\ inbox # <<>>
  /\ LET m == Head(inbox) IN
       /\ known' = applyMessage(known, m)
       /\ IF m.kind = "relay" /\ m.id \in pending
            THEN Settle(m.id, Answer(m))
            ELSE UNCHANGED <<call, pending>>
  /\ inbox' = Tail(inbox)
  /\ UNCHANGED <<apiClient, retained, toDevice, deviceUp, contactor, outbox,
                 counters, watched, history>>

\* on("connect"): the API subscribes, and the retained messages come first.
\* The client sends again what was not acknowledged.
ApiConnect ==
  /\ ~apiUp
  /\ apiUp' = TRUE
  /\ inbox' = OnSubscribe(retained)
  /\ UNCHANGED <<outgoing, api, retained, toDevice, deviceUp, contactor,
                 outbox, counters, watched, history>>

\* Commands are not retained, and a charger that is away has no subscription.
PassOn(c) == toDevice' = IF deviceUp THEN Append(toDevice, c) ELSE toDevice

\* A clean session: the broker keeps nothing for the API.  It may have taken a
\* command that it did not acknowledge.
LoseApiLink ==
  /\ faultCount < MaxFaults
  /\ faultCount' = faultCount + 1
  /\ apiUp' = FALSE
  /\ inbox' = <<>>
  /\ watched' = {}
  /\ \/ UNCHANGED toDevice
     \/ apiUp /\ outgoing # <<>> /\ PassOn(Head(outgoing))
  /\ UNCHANGED <<retained, deviceUp, contactor, outbox, sessions, history>>

ApiDisconnect ==
  /\ apiUp
  /\ LoseApiLink
  /\ UNCHANGED <<api, outgoing>>

\* The process is restarted: its callers lose their connection.
ApiRestart ==
  /\ LoseApiLink
  /\ call' = [c \in Calls |->
       IF call[c].stage = "made" THEN [call[c] EXCEPT !.stage = "lost"] ELSE call[c]]
  /\ pending' = {}
  /\ known' = emptyDeviceState
  /\ outgoing' = <<>>

(***************************************************************************)
(* The broker                                                               *)
(***************************************************************************)

\* Takes a command of the API and acknowledges it.
TakeCommand ==
  /\ apiUp
  /\ outgoing # <<>>
  /\ PassOn(Head(outgoing))
  /\ outgoing' = Tail(outgoing)
  /\ UNCHANGED <<apiUp, api, inbox, retained, deviceUp, contactor, outbox, counters,
                 watched, history>>

\* Retains messages of the charger and passes them on.
Publish(messages) ==
  /\ retained' = RetainAll(retained, messages)
  /\ inbox' = IF apiUp THEN inbox \o messages ELSE inbox

\* Takes a report of the charger and acknowledges it.
TakeReport ==
  /\ deviceUp
  /\ outbox # <<>>
  /\ Publish(<<Head(outbox)>>)
  /\ outbox' = Tail(outbox)
  /\ UNCHANGED <<api, apiClient, toDevice, deviceUp, contactor, counters, watched,
                 history>>

(***************************************************************************)
(* The charger                                                              *)
(***************************************************************************)

\* charging_session_publish_state
ThisTx == TxState(IF charging THEN Session ELSE NoTx)

\* MUTANT of DeviceConnect: the connect callback leaves the relay out.
DeviceConnect_NoRelay ==
  /\ ~deviceUp
  /\ deviceUp' = TRUE
  /\ outbox' = outbox \o <<Status(TRUE), ThisTx>>
  /\ UNCHANGED <<api, apiClient, inbox, retained, toDevice, contactor,
                 counters, watched, history>>

\* It subscribes and publishes its status, relay and transaction state.
DeviceConnect ==
  /\ ~deviceUp
  /\ deviceUp' = TRUE
  /\ outbox' = outbox \o <<Status(TRUE), RelayState(relay, requestId), ThisTx>>
  /\ UNCHANGED <<api, apiClient, inbox, retained, toDevice, contactor,
                 counters, watched, history>>

\* The broker publishes the last will, after what it took and the charger has
\* not heard of.  A clean session: commands are dropped.
LoseDevice ==
  /\ deviceUp
  /\ faultCount < MaxFaults
  /\ faultCount' = faultCount + 1
  /\ deviceUp' = FALSE
  /\ toDevice' = <<>>
  /\ \E words \in LastWords(outbox) : Publish(words)
  /\ UNCHANGED <<api, apiClient, relay, charging, sessions, watched, history>>

DeviceDisconnect == LoseDevice /\ UNCHANGED <<outbox, requestId>>

\* Contactor and session come back from flash, the rest does not.
DeviceReset ==
  /\ LoseDevice
  /\ outbox' = <<>>
  /\ requestId' = NoCall

Attentive == Len(outbox) <= MaxBacklog

Says(messages) == outbox' = outbox \o messages

\* MUTANT of Refuse: the refusal is not sent with the state.
Refuse_Unsaid(c) ==
  /\ requestId' = c
  /\ refused' = refused \cup {c}
  /\ Says(<<RelayState(relay, c)>>)
  /\ UNCHANGED <<relay, charging, carriedOut>>

\* A plain off does not end a session.  The reason is published once; the id
\* stays, and later messages carry it without the reason.
Refuse(c) ==
  /\ requestId' = c
  /\ refused' = refused \cup {c}
  /\ Says(<<RelayMessage(relay, c, TRUE)>>)
  /\ UNCHANGED <<relay, charging, carriedOut>>

\* A forced off ends the session first, which publishes under the old id.
Switch(c, ends) ==
  /\ relay' = call[c].on
  /\ charging' = (charging /\ ~ends)
  /\ requestId' = c
  /\ carriedOut' = carriedOut \cup {c}
  /\ Says((IF ends THEN <<RelayState(FALSE, requestId)>> ELSE <<>>)
            \o <<RelayState(call[c].on, c)>>)
  /\ UNCHANGED refused

\* relay_remote_handle_command, with the guard of the charging session.
HandleCommand ==
  /\ toDevice # <<>>
  /\ Attentive
  /\ toDevice' = Tail(toDevice)
  /\ LET c == Head(toDevice)
         guarded == charging /\ ~call[c].on
     IN IF guarded /\ ~call[c].force THEN Refuse(c) ELSE Switch(c, guarded)
  /\ UNCHANGED <<api, apiClient, inbox, retained, deviceUp, counters, watched>>

\* A transaction command starts a session (start_locked) ...
StartSession ==
  /\ deviceUp
  /\ Attentive
  /\ ~charging
  /\ sessions < MaxSessions
  /\ sessions' = sessions + 1
  /\ charging' = TRUE
  /\ relay' = TRUE
  /\ Says(<<TxState(Session), RelayState(TRUE, requestId)>>)
  /\ UNCHANGED <<requestId, api, apiClient, inbox, retained, toDevice,
                 deviceUp, faultCount, watched, history>>

\* ... or ends it (end_locked).
EndSession ==
  /\ deviceUp
  /\ Attentive
  /\ charging
  /\ charging' = FALSE
  /\ relay' = FALSE
  /\ Says(<<RelayState(FALSE, requestId), TxState(NoTx)>>)
  /\ UNCHANGED <<requestId, api, apiClient, inbox, retained, toDevice,
                 deviceUp, counters, watched, history>>

----------------------------------------------------------------------------
Api ==
  \/ \E c \in Calls, on, force \in BOOLEAN :
       ~(on /\ force) /\ SetRelay(c, on, force)    \* forcing an on has no effect
  \/ \E c \in Calls : Timeout(c)
  \/ Receive \/ ApiConnect \/ ApiDisconnect \/ ApiRestart

Broker == TakeCommand \/ TakeReport

Device ==
  \/ DeviceConnect \/ DeviceDisconnect \/ DeviceReset
  \/ HandleCommand \/ StartSession \/ EndSession

Next == Api \/ Broker \/ Device

Spec == Init /\ [][Next]_vars

----------------------------------------------------------------------------
(* Properties                                                               *)

TypeOK ==
  /\ call \in [Calls -> Call]
  /\ pending \in SUBSET Calls
  /\ apiUp \in BOOLEAN
  /\ outgoing \in Seq(Calls)
  /\ inbox \in Seq(Message)
  /\ known \in [online : BOOLEAN \cup {Unknown}, relay : BOOLEAN \cup {Unknown},
                 meter : {Unknown}, transaction : {Session, NoTx, Unknown}]
  /\ retained \in [RetainedKinds -> Seq(Message)]
  /\ toDevice \in Seq(Calls)
  /\ deviceUp \in BOOLEAN
  /\ relay \in BOOLEAN
  /\ charging \in BOOLEAN
  /\ requestId \in Calls \cup {NoCall}
  /\ outbox \in Seq(Message)
  /\ faultCount \in 0..MaxFaults
  /\ sessions \in 0..MaxSessions
  /\ watched \in SUBSET Calls
  /\ carriedOut \in SUBSET Calls
  /\ refused \in SUBSET Calls

Resolved(c) == StatusOf(call[c].answer) = 200

\* "200 means the device really switched", as long as the API missed nothing: the first message with the id of a call is the one its
\* own command provoked, whatever sessions, reconnects and resends add to it.
ResolvedIsSwitched ==
  \A c \in watched :
    Resolved(c) => c \in carriedOut /\ (call[c].answer = "on") = call[c].on

\* A caller who gets a 409 was refused by a charger that is charging, or by the
\* API that takes it for offline; and a call that resolved had its command
\* handled, even if the answer came from a retained message after an outage of
\* the API.
AnswersAreTheDevices ==
  \A c \in Calls :
    /\ StatusOf(call[c].answer) = 409 => c \in refused \/ call[c].answer = "offline"
    /\ Resolved(c) => c \in carriedOut \cup refused

\* All that was published has arrived.
Arrived ==
  /\ apiUp /\ inbox = <<>>
  /\ deviceUp => outbox = <<>>

\* Once all has arrived, what the API believes of a charger that is connected
\* is true, although it keeps that in memory only and may subscribe after the
\* charger spoke, except that a session it has seen may have been ended by a
\* forced off.  (A charger that is away may be taken for one that is online:
\* its retained transaction state, read after its status, says so.)
KnownIsTrue ==
  Arrived /\ deviceUp =>
    /\ known.online = TRUE
    /\ known.relay = relay
    /\ charging => known.transaction = Session

\* The call is over for its caller: its promise settled, and its command was
\* acknowledged.
Returned(c) == call[c].answer # "none" /\ c \notin Range(outgoing)

\* No caller is left waiting for nothing: one that has not returned waits for a
\* timer that runs, or for the broker to acknowledge its command.  (The timer
\* alone does not bound the wait: a call that timed out does not return before
\* the broker can be reached again.)
NobodyWaitsForNothing ==
  /\ TypeOK
  /\ \A c \in Calls :
       call[c].stage = "made" =>
         Returned(c) \/ c \in pending \/ c \in Range(outgoing)
==============================================================================
