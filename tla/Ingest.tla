-------------------------------- MODULE Ingest --------------------------------
(***************************************************************************)
(* How the telemetry service turns the messages of one charger into        *)
(* events and readings: the Ingester, the DeviceRegistry, the chain of     *)
(* transaction work and the cache of transaction rows in index.ts.         *)
(*                                                                         *)
(* The charger says what it does; its outbox sends a message again that    *)
(* was not acknowledged when the connection broke.  The service keeps its  *)
(* session at the broker while it runs, and subscribes anew whenever it    *)
(* connects.  What the charger is, the service learns from messages only.  *)
(*                                                                         *)
(* Of a session's end there is the tx state, or, when an administrator's   *)
(* forced off ended it, none: tx/end and tx/meter messages are not in this *)
(* stream, as the Ingester passes them on before the reducer and what      *)
(* becomes of them changes neither its states nor the cache.               *)
(***************************************************************************)
EXTENDS DeviceProtocol, Naturals

CONSTANTS
  Tx,           \* transactions
  MaxFaults,    \* bound: connections lost, restarts, lookups that fail
  MaxCommands,  \* bound: commands that neither start nor end a transaction
  MaxBacklog    \* bound: messages waiting when the charger says more

ASSUME IngestAssumption ==
  /\ NoTx \notin Tx
  /\ {MaxFaults, MaxCommands, MaxBacklog} \subseteq Nat
  /\ Unknown \notin BOOLEAN /\ Unknown \notin Tx \union {NoTx}

VARIABLES
  \* the charger
  deviceUp,    \* "down", "connecting" or "up"
  relay,       \* the contactor
  session,     \* the transaction that runs, or NoTx
  started,     \* transactions started so far
  outbox,      \* messages not acknowledged by the broker
  \* the broker
  retained,    \* the retained messages of the charger
  inbox,       \* on their way to the service, or queued in its session
  \* the database
  registered,  \* the charger has a row in devices
  rows,        \* transactions with a row
  log,         \* device_events: the last status and the last relay event
  reading,     \* meter_readings: the transaction of this process's last one
  \* the service
  linkUp,      \* connected and subscribed
  ids,         \* registry.ids has the charger
  states,      \* ingester.states: the charger's
  chain,       \* transaction work waiting, in order
  cache,       \* txRowIds
  faults, commands,  \* so far
  \* history
  cutOff,      \* the transaction an administrator ended and no state was told since
  missed,      \* a message was dropped since the last subscription
  untied       \* transactions whose row the last lookup did not find

device == <<deviceUp, relay, session, started, outbox>>
broker == <<retained, inbox>>
database == <<registered, rows, log, reading>>
counters == <<faults, commands>>
history == <<missed, untied, cutOff>>
vars == <<device, broker, database, linkUp, ids, states, chain, cache,
          counters, history>>

NoEvents == [status |-> Unknown, relay |-> Unknown]

Init ==
  /\ deviceUp = "down" /\ relay = FALSE /\ session = NoTx
  /\ started = {} /\ outbox = <<>>
  /\ retained = NothingRetained /\ inbox = <<>>
  /\ registered = FALSE /\ rows = {}
  /\ log = NoEvents /\ reading = Unknown
  /\ linkUp = FALSE /\ ids = FALSE
  /\ states = emptyDeviceState /\ chain = <<>> /\ cache = {}
  /\ faults = 0 /\ commands = 0
  /\ missed = FALSE /\ untied = {} /\ cutOff = NoTx

Fault == faults < MaxFaults /\ faults' = faults + 1 /\ UNCHANGED commands

----------------------------------------------------------------------------
(* The broker                                                               *)

\* A message is retained, and passed to the service; while that is away, its
\* session keeps what is QoS 1.
Publish(m) ==
  /\ retained' = RetainAll(retained, <<m>>)
  /\ inbox' = IF linkUp \/ m.kind # "meter" THEN Append(inbox, m) ELSE inbox

----------------------------------------------------------------------------
(* The charger                                                              *)

Attentive == Len(outbox) + Len(inbox) <= MaxBacklog

\* The status goes out at once, before what is left in the outbox.
DeviceConnect ==
  /\ deviceUp = "down"
  /\ deviceUp' = "connecting"
  /\ outbox' = <<Status(TRUE)>> \o outbox
  /\ UNCHANGED <<relay, session, started, broker, database, linkUp, ids,
                 states, chain, cache, counters, history>>

\* on_mqtt_connected; a reading may have come in before.
Announce ==
  /\ deviceUp = "connecting"
  /\ deviceUp' = "up"
  /\ outbox' = outbox \o <<Relay(relay), TxState(session)>>
  /\ cutOff' = NoTx
  /\ UNCHANGED <<relay, session, started, broker, database, linkUp, ids,
                 states, chain, cache, counters, missed, untied>>

Says(messages) ==
  /\ outbox' = outbox \o messages
  /\ UNCHANGED <<deviceUp, broker, database, linkUp, ids, states, chain, cache,
                 faults, missed, untied>>

\* The transaction the charger last told of on its connection.
Told ==
  CASE deviceUp # "up" -> NoTx
    [] session = NoTx -> cutOff
    [] OTHER -> session

\* Readings come for ever, at a fixed period.  One that was taken just before a
\* session began or ended counts by when it is published.
PublishReading ==
  /\ deviceUp # "down" /\ Attentive
  /\ Says(<<Meter([during |-> Told, announced |-> deviceUp = "up"])>>)
  /\ UNCHANGED <<relay, session, started, commands, cutOff>>

\* A relay command switches the contactor, unless a session is on, which keeps it
\* closed; either way it is answered with where the contactor is.
Switch(on) ==
  /\ deviceUp = "up" /\ Attentive
  /\ commands < MaxCommands
  /\ commands' = commands + 1
  /\ relay' = IF session = NoTx THEN on ELSE relay
  /\ Says(<<Relay(relay')>>)
  /\ UNCHANGED <<session, started, cutOff>>

\* A start of the transaction that runs, or a stop of one that does not.
Confirm ==
  /\ deviceUp = "up" /\ Attentive
  /\ commands < MaxCommands
  /\ commands' = commands + 1
  /\ Says(<<TxState(session)>>)
  /\ cutOff' = NoTx
  /\ UNCHANGED <<relay, session, started>>

\* Transaction ids are new, and in no order: which one is next does not matter.
Fresh(t) == t \notin started /\ t = CHOOSE u \in Tx : u \notin started

\* A start ends the session that is on, whose contactor opens for a moment.
StartTx(t) ==
  /\ deviceUp = "up" /\ Attentive /\ Fresh(t)
  /\ session' = t /\ started' = started \union {t} /\ relay' = TRUE
  /\ LET start == <<TxState(t), Relay(TRUE)>>
     IN  Says(IF session = NoTx THEN start ELSE <<Relay(FALSE)>> \o start)
  /\ cutOff' = NoTx
  /\ UNCHANGED commands

EndTx ==
  /\ deviceUp = "up" /\ Attentive /\ session # NoTx
  /\ session' = NoTx /\ relay' = FALSE
  /\ Says(<<Relay(FALSE), TxState(NoTx)>>)
  /\ UNCHANGED <<started, commands, cutOff>>

\* relay_guard, then the relay command itself: the session ends, the contactor is
\* reported twice, and no transaction state is published.
ForceOff ==
  /\ deviceUp = "up" /\ Attentive /\ session # NoTx
  /\ session' = NoTx /\ relay' = FALSE /\ cutOff' = session
  /\ Says(<<Relay(FALSE), Relay(FALSE)>>)
  /\ UNCHANGED <<started, commands>>

Deliver ==
  /\ deviceUp # "down" /\ outbox # <<>>
  /\ Publish(Head(outbox))
  /\ outbox' = Tail(outbox)
  /\ UNCHANGED <<deviceUp, relay, session, started, database, linkUp, ids,
                 states, chain, cache, counters, history>>

\* The connection breaks, and the broker publishes the last will.  It may have
\* taken the first message of the outbox without the charger hearing of it.
DeviceDisconnect ==
  /\ deviceUp # "down" /\ Fault
  /\ deviceUp' = "down"
  /\ \E words \in LastWords(outbox) :
       /\ retained' = RetainAll(retained, words)
       /\ inbox' = inbox \o IF linkUp \/ Head(words).kind # "meter" THEN words ELSE Tail(words)
  /\ \/ UNCHANGED outbox
     \/ outbox' = <<>>       \* a reset: contactor and session come from flash
  /\ UNCHANGED <<relay, session, started, database, linkUp, ids, states, chain,
                 cache, history>>

----------------------------------------------------------------------------
(* The API                                                                  *)

RegisterDevice ==
  /\ ~registered
  /\ registered' = TRUE
  /\ UNCHANGED <<device, broker, rows, log, reading, linkUp, ids, states, chain,
                 cache, counters, history>>

\* Before or after the charger has started: the command goes first.
CreateRow(t) ==
  /\ registered /\ t \notin rows
  /\ rows' = rows \union {t}
  /\ UNCHANGED <<device, broker, registered, log, reading, linkUp, ids, states,
                 chain, cache, counters, history>>

----------------------------------------------------------------------------
(* The registry                                                             *)

\* The timer's refresh ends; nothing tells whether one that fails was tried.
Refresh ==
  /\ ids # registered
  /\ ids' = registered
  /\ UNCHANGED <<device, broker, database, linkUp, states, chain, cache, counters,
                 history>>

----------------------------------------------------------------------------
(* The connection and the process                                           *)

\* MUTANT of Connect: a session that persists is not subscribed again.
Connect_Once ==
  /\ ~linkUp
  /\ linkUp' = TRUE
  /\ missed' = FALSE
  /\ UNCHANGED <<device, broker, database, ids, states, chain, cache, counters, untied, cutOff>>

\* A session that persists: what it queued comes before what is retained.
Connect ==
  /\ ~linkUp
  /\ linkUp' = TRUE
  /\ inbox' = inbox \o OnSubscribe(retained)
  /\ missed' = FALSE
  /\ UNCHANGED <<device, retained, database, ids, states, chain, cache,
                 counters, untied, cutOff>>

LinkLost ==
  /\ linkUp /\ Fault
  /\ linkUp' = FALSE
  /\ UNCHANGED <<device, broker, database, ids, states, chain, cache, history>>

\* A new process has a client id of its own: what was queued for the last one
\* is never read.  It fills its registry before it connects.
Restart ==
  /\ Fault
  /\ linkUp' = FALSE
  /\ inbox' = <<>>
  /\ ids' = registered
  /\ states' = emptyDeviceState /\ chain' = <<>> /\ cache' = {}
  /\ missed' = FALSE /\ untied' = {} /\ reading' = Unknown
  /\ UNCHANGED <<device, retained, registered, rows, log, cutOff>>

----------------------------------------------------------------------------
(* The Ingester                                                             *)

\* A status or a relay message becomes an event if it changes the state.
Event(field, previous, next) ==
  log' = IF previous = next THEN log ELSE [log EXCEPT ![field] = next]

\* MUTANT of Reading: the cache is asked by charger only.
Reading_ByDevice(next) ==
  reading' = IF cache = {} THEN NoTx ELSE CHOOSE t \in cache : TRUE

\* A reading is tied to the transaction the charger last told of, if its row
\* is in the cache.
Reading(next) ==
  reading' = IF next.transaction \in cache THEN next.transaction ELSE NoTx

\* One message: dropped while the charger is not in the ids, and else
\* applied to its state, and recorded by kind.
IngestMessage ==
  /\ linkUp /\ inbox # <<>>
  /\ inbox' = Tail(inbox)
  /\ LET m == Head(inbox)
         next == applyMessage(states, m)
     IN  IF ~ids
           THEN /\ missed' = TRUE
                /\ UNCHANGED <<states, chain, log, reading>>
           ELSE /\ states' = next
                /\ \/ /\ m.kind = "status"
                      /\ Event("status", states.online, next.online)
                      /\ UNCHANGED <<chain, reading>>
                   \/ /\ m.kind = "relay"
                      /\ Event("relay", states.relay, next.relay)
                      /\ UNCHANGED <<chain, reading>>
                   \/ /\ m.kind = "tx"
                      /\ chain' = IF m.tx = NoTx THEN chain ELSE Append(chain, m.tx)
                      /\ UNCHANGED <<log, reading>>
                   \/ /\ m.kind = "meter"
                      /\ Reading(next)
                      /\ UNCHANGED <<chain, log>>
                /\ UNCHANGED missed
  /\ UNCHANGED <<device, retained, registered, rows, linkUp, ids, cache,
                 counters, untied, cutOff>>

\* The transaction work of one state: onState, then the row goes into the
\* cache.  Without a row the charger is told to stop, and either lookup may
\* fail, which ends the work.
HandleState ==
  /\ chain # <<>>
  /\ chain' = Tail(chain)
  /\ LET t == Head(chain)
     IN  \/ /\ t \in rows
            /\ cache' = cache \union {t}
            /\ untied' = untied \ {t}
            /\ UNCHANGED counters
         \/ /\ IF t \in rows THEN Fault ELSE UNCHANGED counters
            /\ untied' = untied \union {t}
            /\ UNCHANGED cache
  /\ UNCHANGED <<device, broker, database, linkUp, ids, states, missed, cutOff>>

----------------------------------------------------------------------------

Charger ==
  \/ DeviceConnect \/ Announce \/ PublishReading \/ Deliver \/ DeviceDisconnect
  \/ (\E on \in BOOLEAN : Switch(on)) \/ Confirm
  \/ (\E t \in Tx : StartTx(t)) \/ EndTx \/ ForceOff

Service ==
  \/ Refresh \/ Connect \/ LinkLost \/ Restart
  \/ IngestMessage \/ HandleState

Next == Charger \/ Service \/ RegisterDevice \/ (\E t \in Tx : CreateRow(t))

Spec == Init /\ [][Next]_vars

\* Both sides reconnect for ever and handle what has come, the registry is
\* refreshed by a timer, and readings are taken at a fixed period.
FairSpec ==
  /\ Spec
  /\ WF_vars(DeviceConnect \/ Deliver) /\ WF_vars(PublishReading)
  /\ WF_vars(Connect \/ IngestMessage) /\ WF_vars(Refresh)

----------------------------------------------------------------------------
(* Properties                                                               *)

\* All that the charger said has been read by the service.
AllRead == linkUp /\ inbox = <<>> /\ deviceUp = "up" /\ outbox = <<>>

\* What the service believes of a charger that is connected is true, and the
\* last relay event recorded is what the contactor does: whatever was sent
\* twice, queued while the service was away, or said before it ran; unless it
\* dropped a message because the charger was not in its registry yet.  A
\* transaction it believes to run may be one an administrator has cut off, which
\* no state tells of.
StateIsTrue ==
  AllRead /\ ids /\ ~missed =>
    /\ states.online = TRUE
    /\ states.relay = relay
    /\ IF session = NoTx
         THEN states.transaction = cutOff
         ELSE states.transaction = session
    /\ log.relay = relay

\* A reading is tied to no transaction but the one it was published in, or one cut
\* off before it with no state told since, once the charger has announced itself
\* on its connection; and when all work is done, readings are tied to the
\* transaction the charger tells of, unless its row was not there, which makes
\* the service stop it, or could not be looked up.
ReadingsAreTied ==
  /\ states.meter # Unknown /\ reading \in Tx /\ states.meter.announced =>
       reading = states.meter.during
  /\ chain = <<>> /\ states.transaction \in Tx \ untied => states.transaction \in cache

\* A registered charger that stays connected is known to be online before
\* long, although what it said before its registration was read is lost.
RegisteredIsHeard ==
  []<>(registered => states.online = TRUE \/ deviceUp = "down")

\* Recorded events are changes: while a process runs, no status event repeats
\* the one before it.
EventsAreChanges ==
  [][IngestMessage /\ ids /\ Head(inbox).kind = "status"
       /\ states.online \notin {Unknown, Head(inbox).online}
     => log.status # Head(inbox).online]_vars
===============================================================================
