# ChargeLatch in TLA+

Specifications of the ChargeLatch system: the firmware of a charger, the
services that run charging transactions on it, the portal that shows it, the
factory that makes it, and the delivery of what happens to the tenants. The
modules are translated from the code; every definition that models code is
listed in `PROJECT.json` with the lines it stands for.

* [Inventory](#inventory): the parts of the system, their state, what is hard
* [Modules](#modules): which module models what, and how it corresponds to code
* [Runs](#runs): what TLC checks, the bounds, the fairness
* [Divergences](#divergences): where the code does not do what a comment says
* [Proofs](#proofs): what TLAPS proves, and along which argument
* [Not modelled](#not-modelled) and [Plan](#plan)

## Inventory

**Charger firmware** (`apps/firmware`, C, ESP-IDF). One board per device.

| Component | State | Operations | What is hard |
|---|---|---|---|
| `charging_session` | active id, base counter, sequence; the same in flash ("session") | start, stop, relay guard, note a reading, publish progress, restore at boot | power cut between two flash writes of one handler; three tasks under one mutex |
| `relay_control`, `relay_remote` | contactor, its stored position ("relay"), last request id | switch, report, guard | flash write failures are ignored; retained state |
| `device_mqtt` | connection, outbox of esp-mqtt | publish (enqueue), connect callback, dispatch | everything not acknowledged is sent again, in order |
| `meter_telemetry`, `sdm_meter` | last reading | poll, publish | reading may be missing or partial |
| `provisioning` | Wi-Fi credentials, their backup, fallback window, two timers, event bits | connect, open a Bluetooth window, close it or end it, count down again | three tasks share the state without a lock; one supervisor takes bits of several causes |
| `device_identity` | none (reads a partition once) | load | - |

**Backend** (`apps/api`, `apps/telemetry`, TypeScript on Bun; `packages/*`).

| Component | State | Operations | What is hard |
|---|---|---|---|
| Partner API (`partner.ts`, `transactions.ts`) | rows `starting`, `stopping` | start, stop, read | several awaits per request; command and row are not one step |
| Device bus (`device-bus.ts`) | view of every device, pending relay commands | send command, set relay, follow states | stale view; answers after the timeout |
| Transaction processor (`telemetry/transactions.ts`) | rows, one chain of work per device | state, end, meter value, sweep | each decides on a row read before an await; API and sweep write too |
| Webhook outbox and dispatcher (`webhooks.ts`) | `webhook_deliveries` | enqueue, pass, post, retry, give up | passes that die between post and update; order per transaction |
| Batch writer (`writer.ts`) | two buffers, timer, chain of flushes | add, flush, write, put back | half of a batch fails; outages; shutdown |
| Aggregation job (migration `0005`) | `meter_readings_15m`, whose newest bucket is the watermark | aggregate | rows that are stored after their bucket was made |
| Ingest, registry, cache of row ids (`ingest.ts`, `registry.ts`, `index.ts`) | last state per device, ids of known devices, rows seen | message to event, reading or transaction work; refresh | messages before a registration is known; queued, retained and live messages in one stream; a cache filled behind two lookups |
| Device protocol (`packages/device-protocol`) | none: a reducer from messages to a state | apply a message | shared by three views of a charger that start at different times |
| Admin, factory and telemetry routes (`admin.ts`, `devices.ts`) | `devices`, `tenants` | register, build a partition, record a flash, list, assign | look, insert and look again are separate statements |

**Clients**: the factory app registers and flashes a board (`Station.tsx`,
`lib/workflow.ts`, with `packages/nvs-partition`); the admin web app shows cards
and assigns tenants; the admin mobile app provisions a board over Bluetooth.
**Infrastructure**: EMQX, Keycloak, Postgres/Timescale, Redis; external, modelled
by what the code relies on.

How they interact. The API and the telemetry service share the database and
never call one another. Both talk to a charger through the broker only: commands
(`cmd/tx`, `cmd/relay`) are not retained and are lost when the charger is away;
states (`status`, `tx`, `relay`) are retained; ends, progress and readings
(`tx/end`, `tx/meter`, `meter`) are not. All but the readings are QoS 1. The API
inserts a row and requests stops; every other transition of a transaction is made
by the telemetry service, from what the charger reports, and leaves an event in
the outbox table, which the dispatcher posts to the tenant. API, telemetry service
and portal each build a view of a charger with the same reducer, from messages
that reach them over connections of their own. A station of the factory writes the
registry through the API and the board's flash itself.

What makes each component correct:

* charger: an active session has power; flash would resume exactly the session
  that runs; an end, once announced, is the only one of its session and final;
  retained messages are true once nothing is under way.
* provisioning: stored credentials are ones that connected; a charger without
  its network does not stay unreachable, and does not stop trying.
* transactions: rows and events follow one lifecycle whatever races; no end is
  missed; an event is lost by a failure in its own flow or not at all; a stop request
  reaches a charger that runs the transaction.
* dispatcher: events of a transaction arrive in order; what is recorded as
  settled is not sent again; every event is settled in the end.
* writer and job: rows are stored in the order they arrived, nothing is lost
  without a fault, what a full buffer gives up is the oldest, and a bucket the job
  leaves behind is complete.
* views (API, ingest, portal): once all is read, what is believed of a connected
  charger is what it last told of itself; a registered charger is noticed; a reading
  belongs to the transaction the charger had told of when it published it.
* factory: one identity per board, whatever stations and requests overlap; a
  recorded flash was verified; a unit that is done is what its label says.

The hazards behind these, each at its line, are in `PROJECT.json`.

## Modules

| Module | Models | Runs | Proofs |
|---|---|---|---|
| `SessionContract` | what a charger promises about its sessions (abstract) | | |
| `ChargingSession` | session, contactor, flash, MQTT client of a charger | by `MCCharging` | `Charger_proofs` |
| `Provisioning` | supervisor, windows, timers and events of a charger's Wi-Fi | `provisioning` | `Charger_proofs` |
| `TransactionLifecycle` | what the backend promises a tenant about a transaction (abstract) | | |
| `Transactions` | API requests, telemetry service, sweep, and the charger with atomic handlers | `tx_safety`, `tx_failed_charges` | `Transactions_proofs` |
| `WebhookDispatcher` | passes over one tenant's outbox | `webhook` | `WebhookDispatcher_proofs` |
| `ReadingStore` | batch writer and aggregation job | `readings` | `ReadingStore_proofs` |
| `DeviceProtocol` | messages, the reducer, what the broker retains | by those that extend it | |
| `RelayCommand` | `setRelay`, the API's view of a charger, the charger's relay handler | `relay` | `RelayCommand_proofs` |
| `Ingest` | ingester, registry and cache of the telemetry service, over one charger | `ingest*` | `Ingest_proofs` |
| `Dashboard` | the portal's page of cards, the list and the assignment it asks for | `dashboard` | `Dashboard_proofs` |
| `NvsPartition` | the layout of an identity partition, and the partition table (pure) | by `factory` | |
| `FactoryWorkflow` | stations, registration and flash routes, boards | `factory` | `FactoryWorkflow_proofs` |
| `MCCharging` | the charger's instance, with the first transaction named in advance | `session` | |
| `MCTransactions` | an instance of two transactions, taken in one order | `tx_ends` | |
| `MCFactory` | the bundles and the symmetry of the factory's instance | `factory` | |

`DeviceProtocol` is extended by `RelayCommand`, `Ingest` and `Dashboard`, so the three
views of a charger use one reducer as in the code; `NvsPartition` is extended by
`FactoryWorkflow`. `Charger_proofs` extends both parts of a charger, which is why the
names of `Provisioning` (`WifiInit`, `WifiSpec`, ...) are its own. `ChargingSession`
and `Transactions` take their contract by `INSTANCE`, as refinement mappings.

Operators named `X_Something` that are marked MUTANT are variants of `X` with a
bug in them; no specification uses them. They document, for each property,
a mistake that it would catch.

### ChargingSession

State. `session` is `s_active`, `s_tx_id` and `s_meter_start` (`NoSession` when
idle), `contactor` is `s_on` and its pin, `nvsSession` and `nvsRelay` are the two
flash namespaces, `outbox` and `inflight` are esp-mqtt's outbox (sent but not
acknowledged messages come first), `retainedTx` and `retainedRelay` are the
broker's. `run`, `lastRun` and `ends` are history: the number of the start that
opened a session, which the firmware does not have, and the `tx/end` messages
that reached the broker; so is `shown`, the sessions with a base it was shown.

Actions. A handler holds the session's mutex from its first to its last line, so
handlers of the three tasks do not interleave; a power cut can. A handler is
therefore cut at its flash writes, and `pc` says where it is: ending a session
is `EndContactor` (switch, store position) and `EndSession` (erase, enqueue the
messages); starting one is `StartId`, `StartBase`, `StartPower`. Steps in memory
ride with the write before them. `Commandable` is the guard of commands:
clean-session subscriptions end with the connection. `Connect` is the callback
that publishes both states, `Disconnect` makes everything unacknowledged due
again. `PowerLoss` stands for every reset, also for the assertion that fails
when a connect or a reading arrives before `charging_session_init` made the
mutex (`app_main.c` starts MQTT and meter first). Boot has three steps: `BootRelay`
puts the contactor where flash says, `NetworkFound` is the end of the wait for Wi-Fi
(`app_main.c:51`, as long as it takes), and only then comes `SessionInit`.

`NvsMayFail` lets each flash write be lost, as no caller looks at the result. The
run has it FALSE, since most of its properties are promises of a flash that works;
that a session is powered even when flash writes fail is `SessionsArePowered`, proved.

### Provisioning

State. Three tasks without a lock: `loop` is what the driver, the manager and
Bluetooth have posted and the event loop has not handled, `bits` are
`s_supervisor_events`, `supervisor` is the line of `open_fallback_window` or
`close_fallback_window` the supervisor has reached. `config` and `station` are the
driver's, `manager` the provisioning manager's, `backup`, `fallbackActive`,
`gotNewCreds` and `clientConnected` the statics of the same names. `accepted`, `late`
and `refused` are history.

Actions. `HandleDisconnected` to `HandleClient` are the branches of the event
handlers with the notes they make (`note_disconnected`, `note_connected`);
`ReconnectTimeout` and `WindowTimeout` are the timers' callbacks; `Rest`,
`WindowIsDone` and `WindowIsOver` are what the supervisor does with the bits it
woke up for, `OpenWindow`, `OpenFails` and `WindowOpened`, and `CloseWindow`,
`WindowClosed`, `ConfigRestored`, `ConnectsAgain` and `CountsDown`, the steps of the
two functions others can come in between. The result of `esp_wifi_set_config` is
ignored in the code: `ConfigRestored` may leave the configuration as it was, which
`refused` remembers until new credentials connect.

External, and assumed: after credentials connected the manager makes no attempt
any more; the blocking stop of the manager takes longer than the event loop needs
for what was posted before; a connect does not succeed before the same function
has started the timer, a few instructions later. Power loss is not in this module.

### Transactions

State. `rows` is the column `state`, `outbox` the deliveries of a transaction,
`requests` the API requests between two awaits, `chain` and `work` the messages of
the device's chain and the one in progress, `sweep` the rows the sweep failed and
has not written events for, `commands` and `reports` what is under way to and
from the charger.

Actions. Every handler is cut at its awaits. A start request is `RequestStart`
(no row found), `SendStart` (publish, or `DeviceOfflineError`), `Create`. A stop
request is `RequestStop`, `MarkStopping`, `SendStop`. A message of the chain is
`Find`, then depending on the row found `StopDevice`, or a guarded update
(`Confirm`, `Finish`) followed by `CountDeliveries` and `InsertDelivery`, the
two statements of `enqueue`. The sweep is one update and, per row, the same two
statements. Faults are of six kinds: connection or power of the charger, the telemetry
process, its connection, any call, and the API's view of a charger that has come back.
Each strikes once at most, and the constant `Faults` says which may strike in the same
behaviour. A lost connection delivers a prefix of the reports that will be delivered
again. `mishap` is history: since the charger connected, a failing call or the API's
view of it as offline came where a stop was going to be sent (`Withhold`).

After a restart the service sees only the retained state: the client id holds a
random part, so the session the broker kept belongs to a client that never comes
back.

### WebhookDispatcher

`Pass` holds the locals of `runTenant`, `todo` being what is left of the list it read;
`Current` is the loop's delivery, the first of these; `ReadList`, `Skip`, `NoUrl`,
`Post`, `RecordDelivered` and `RecordFailed` are its branches, one await each. `due` is
whether `nextAttemptAt` has come. A post that fails may have arrived. `PassDies` is a
call that throws or a process that is killed: `finally` (or the new process) resets the
flag, and nothing that was posted is undone.

### ReadingStore

`readings`, `events`, `timer` are the fields of `BatchWriter`; `flushes` counts
what is chained to `flushing` and `write` is the link in progress. `Insert` and
`InsertFails` are the two insertions, the latter also after the database
committed. `Aggregate` is `aggregate_meter_readings` with its defaults. Rows are
numbered by arrival, `buckets` maps a bucket to the readings its row was computed
from (the averages computed from them are left out).

### RelayCommand

State. `call` holds the arguments of each call of `setRelay` and how its promise
settled, `pending` is the map of the same name, `known` is `states`. `outgoing` and
`sent` are mqtt.js's store of unacknowledged commands, `outbox` and `inflight` that
of esp-mqtt, `inbox` and `toDevice` what the broker has sent to either side.
`requestId` is `s_request_id` of `relay_remote.c`; `s_rejected` lives only within a
handler, so it is the field of one message. `watched`, `carriedOut` and `refused`
are history.

Actions. `SetRelay` is the call up to its first await, with its two early
failures. `Timeout` and `Receive` settle it, the one that comes first; `StatusOf` is
what the admin route answers the portal with. `HandleCommand` is the charger's
handler including the guard, which ends a session when forced; `StartSession` and
`EndSession` stand for the transaction commands, which publish the relay state
under whatever id is the last. `DeviceConnect` and `LoseDevice` are the connect
callback and the last will. Handlers are atomic: `ChargingSession` shows what a
power cut in the middle of one does.

### Ingest

State. The charger (`relay`, `session`, `outbox`), the broker (`retained`, and
`inbox`, which is also the session kept for the service while its link is down),
the database (`registered`, `rows`, the last events in `log`, the transaction of
the last `reading`), and the service: `ids` of the registry, `states` of the
ingester, `chain` of transaction work, `cache` of row ids. `missed`, `untied` and
`cutOff` are history.

Actions. `IngestMessage` is `Ingester.ingest` for a message of each kind, synchronous in
the code and atomic here; `HandleState` the link of the chain that looks the row up
again and fills the cache; `Refresh` the registry's timer. `Connect` subscribes, so
that what was queued comes before what is retained; `Restart` is a new process with
a client id of its own. `DeviceConnect` and `Announce` are what a charger that connects
says: its status at once, its states when the callback has run, readings perhaps
in between. `StartTx`, `EndTx`, `Confirm` (a start or stop that changes nothing) and
`Switch` publish what the handlers of `charging_session.c` publish, in its order;
`ForceOff` ends a session and tells of the contactor alone, and `cutOff` is the
transaction it leaves behind until a state is told again. A reading is noted and
published in two steps of the meter's task, between which a session may begin or end:
`PublishReading` is the second, and says which transaction the charger had told of
by then. The messages `tx/end` and `tx/meter` do not pass the reducer
(`ingest.ts:84-93`) and are left to `Transactions`.

### Dashboard

State. `shown` is the card of one charger, `load` and `list` the requests for the
list, on their way or answered and not yet read, `asks` the assignments likewise,
`inbox` the messages on their way to the page, `view` the device bus of the API,
which the lists come from. `dropped` and `blurred` are history.

Actions. `ListArrives` is `load()` with its merge, `Receive` the handler of the live
feed with its refetch, at most once in half a minute (`refetchDue`),
`AssignArrives` the answer of an assignment. Answers come in any order, over
connections other than that of the messages. The charger `Starts`, `Ends`, `Repeats`
what it said, `Switches`, and `IsForcedOff` as in `Ingest`. A list names the newest
`ListLimit` chargers (200, `admin.ts:176`, `devices.ts:61`): `newer` counts those that
`RegisterAnother` adds after the one of the card, and `Listed` is whether it is named.

### FactoryWorkflow and NvsPartition

State. `run` is the state of a station's page and the locals of `provisionDevice`,
`call` the request a station waits for and the statement of the handler it is at,
`rows` and `sequence` the registry with its identity column, `flash` what the boards
hold and `plugged` where they are. `written`, `latest` and `contested` are history.

Actions. `Start` is the click up to the first await, with the checks that come before
the board is registered (`Fits`); `Registered`, `GotPartition`, `Erase`,
`WriteFirmware`, `WriteIdentity`, `Recorded`, `Reset` the steps of the run;
`WriteBreaks`, `PortLost`, `CallFails` its failures, and `GiveUp` a browser that is gone
while the API works on. `RegisterLooks`, `RegisterUpdates`, `RegisterInserts` and
`RegisterLooksAgain` are the statements of `register`: a station that overlaps with
another can interleave at each.

`NvsPartition` lays entries out on pages as `generateNvsPartition` does, refuses what it
refuses, and reads as the firmware's NVS library does; `parsePartitionTable` finds
the partition whose size that takes. The images of the run are these.

## Runs

| Run | Distinct states | Shows |
|---|---|---|
| `session` | 769,660 | with two transactions and every interleaving of commands, readings, power cuts at each flash write and connections: power, flash, ends, bases and retained messages agree, `SessionContract` is implemented, the proofs' inductive invariant holds, and a session in flash is resumed once the charger has its network |
| `tx_safety` | 2,165,829 | one transaction under each kind of fault, with concurrent requests, sweep and chain: rows and events implement `TransactionLifecycle`, nothing follows the stop, the chain's sequences count up |
| `tx_ends` | 1,150,597 | two transactions that supersede one another, with a connection that drops and a stale view of it, a call that fails, or a service that crashes: no end is missed, each failure loses one event at most and nothing else any, a stop request reaches a charger that runs the transaction |
| `webhook` | 626,499 | order, duplicates and schedule of deliveries, and that each is settled |
| `readings` | 362,810 | order and completeness of stored readings and of the buckets made from them, and which readings a full buffer gives up |
| `relay` | 3,264,504 | what callers of `setRelay` are told is what the charger did, and what the API believes of a charger becomes true, across sessions, outages and restarts |
| `ingest` | 1,817,785 | what the service believes of a charger becomes what that has told, a reading is tied to no other transaction than the one told of, and a charger registered late is heard, with superseding starts and forced offs |
| `dashboard` | 1,533,239 | what a card shows is what the charger has told, however lists, messages and assignments overlap, and a registered charger among the newest gets a card |
| `provisioning` | 409,983 | the configuration stays one that was accepted, and a charger without its network opens windows and retries for as long as it has none |
| `factory` | 751,949 | two stations and two boards that are pulled and moved, requests that fail or run on: identities stay with their boards, a unit that is done is right |
| `tx_failed_charges`, `ingest_offline_twice` | | counterexamples, see [Divergences](#divergences) |

`NoEndIsMissed` speaks of behaviours in which nothing but the charger's connection fails
(`faults \subseteq {"drop"}`): when the service crashes, ends are lost for good.
`OnlyFailuresLoseEvents` speaks of all: a crash, or a call that fails between the update
of a row and the insertion of its event, loses that event and no other, and races,
repeated reports and lost connections lose none. `StopReachesTheDevice` speaks of all
as well, and excepts the time from a failing call, or a charger taken for offline, where
a stop was going to be sent, to the next connection of the charger (`mishap`): see
[Divergences](#divergences).

**Bounds.** All are constants that appear in guards. `MCCharging` and `MCTransactions`
take the ids of transactions in one order: ids that nothing names yet are alike, so
behaviours that differ in which of them comes next differ in names only, which no
property tells apart (a symmetry set would not be sound for the liveness properties).

* `MaxRuns` (2) of `ChargingSession`: sessions started. Two are needed for a start that
  supersedes, and for an end confused with that of a later session; the proofs are for
  any number. `MaxSeq` (1): progress messages, which change nothing else. `MaxBacklog`
  (1): messages waiting when the next command, progress message or disconnection comes;
  with the messages of one handler on top, up to five wait, enough to have acknowledged,
  sent and unsent ones of two handlers together.
* `MaxPending` (2 or 1): requests, commands and reports under way when a request or a
  progress message is added. Two gives two concurrent requests, or a request and a
  report, next to the chain's and the sweep's work in progress. `MaxMeter` (1 or 0):
  progress events per transaction. `Faults`: which faults may strike in one behaviour,
  each once, at any point. `tx_safety` has each of the six alone, as they do not build
  on one another there; `tx_ends` a dropped connection and a stale view after it, a
  failing call, or a crash; `tx_failed_charges` needs none.
* `MaxEvents` (3), two transactions: an event behind another of its transaction and one
  of another transaction. `Retries` (1) and `MaxPerPass` (2) stand for the six entries
  of the schedule and the ten attempts of a pass: both limits are reached. `MaxTroubles`
  (1): a pass that dies or a URL that changes.
* `MaxRows` (2), `MaxBuffered` (2), `MaxArrivals` (3): three rows fill a batch, leave
  one waiting, and overflow the buffer when they are put back. `MaxBucket` (3): three
  buckets close, so one is left behind by the watermark. `MaxFaults` (1).
* `RelayCommand`: `MaxCalls` (2): two calls under way, or one after the other.
  `MaxSessions` (1): a session that starts and ends around them. `MaxFaults` (1) on
  either side. `MaxBacklog` (0): a handler runs when the reports of the one before are
  acknowledged; one message at a time is sent and not acknowledged, so that in each
  direction a message can still be sent twice.
* `Ingest`: two transactions, so that a reading can be tied to the wrong one;
  `MaxFaults` (1), and 2 in `ingest_offline_twice`: a connection lost on either side, a
  restart or a lookup that fails; `MaxCommands` (1): a command that neither starts nor
  ends a transaction; `MaxBacklog` (0): as above.
* `Dashboard`: `MaxChanges` (3) things happen at the charger, enough to come up, charge
  and go; at most two lists on their way (the refetch is held back half a minute, by
  when a request is over); one assignment, which a list can overlap on either side.
  `ListLimit` (1) stands for the 200: one charger more takes this one off the list.
* `Provisioning`: two networks, the stored one and another; `MaxPosted` (3) events wait
  when an attempt, a connection or a timer ends. Nothing else is bounded.
* `FactoryWorkflow`: `MaxRuns` (2) runs over two stations and two boards: at the same
  time on two boards, on one board moved from one station to the other, or one after the
  other; `MaxGivenUp` (1) request runs on. Three meters, one not in the firmware. Pages
  of 5 entries and partitions of 3 to 4 pages are the smallest in which the meter's
  entries cross a page, fit, or do not fit; the code has 126.

**Deadlock** is checked where a system must always be able to go on (`session`,
`webhook`). In the other modules everything may be over: each id was used, each row
arrived and the clock is at its bound, each call returned, each run ended. In
`Provisioning` it is a charger that is stranded (see [Divergences](#divergences)). These
runs say `CHECK_DEADLOCK FALSE`; the liveness properties state what must not stop.

**Fairness.** Only what the code schedules itself:

* `ChargingSession`: a handler in progress continues, and power is not cut for ever in
  the moment between finding the network and `charging_session_init`, a few calls later
  (strong fairness of `SessionInit`). Nothing is assumed of commands, readings or the
  network, finding it (`NetworkFound`) included: `app_main.c:51` waits for it for ever,
  and `SessionsResume` says in its premise that the charger gets past that line again
  and again. A charger that never finds its network does not resume its session.
* `Transactions`: the broker delivers, a charger that lost its connection connects again
  (esp-mqtt does), a stop request that was begun goes on to the answer of its call, the
  service works on its chain and is started again (PM2 does). An awaited call may fail
  instead. Nothing is assumed of requests, of what starts a transaction, of users, of
  the sweep or of faults.
* `WebhookDispatcher`: the timer goes off, a pass goes on, time passes. The endpoint may
  refuse every post.
* `ReadingStore`: timers and insertions are answered, the job runs.
* `Ingest`: both sides reconnect and handle what has come, the registry is refreshed by
  its timer, readings are taken at a fixed period. `Dashboard`: the feed reconnects,
  of the requests for a list some are answered, readings come, half a minute passes.
  Nothing is assumed of registrations, commands or assignments.
* `Provisioning`: tasks run, timers go off, attempts end, and a manager that succeeded
  stops. Two are strong: the reconnect timer, which every connection stops again, goes
  off if it keeps running again and again, and so starting the manager, which may fail,
  succeeds if it is possible again and again. Nothing is assumed of networks or clients.

## Divergences

Runs with a counterexample, where the code does otherwise than a comment in the
repository says. `PROJECT.json` quotes the lines.

* `tx_failed_charges`: `onState` finds a row `starting`, the sweep fails it, the
  guarded update then matches nothing and the charger is not told to stop.
* `ingest_offline_twice`: a transaction state sets `online`, also a retained one of a
  charger that is away. A service that connects reads the status, then the state that
  contradicts it, and records the offline of its next subscription as a change, though
  "every reconnect republishes the retained status/relay messages, and those must not
  produce duplicate rows" (`ingest.ts:55-56`).

Without a run of their own, met while modelling:

* A forced off by an administrator ends the session without publishing the transaction
  state (`charging_session.c:171`); the retained `tx` goes on showing a session that is
  over (`RetainedTxIsTrueOrEnded` is what does hold). So do the views of the telemetry
  service and of the portal, and readings stay tied to the transaction that is over,
  until the charger tells its state again, at a command or its next connection.
  `StateIsTrue`, `ReadingsAreTied` and `CardsAreTrue` say just that: what runs, or what
  was cut off (`cutOff`) and nothing told of since.
* Every transition "writes the tenant's webhook event in the same flow"
  (`telemetry/transactions.ts:2-3`), but not in the same database transaction: a crash
  or a failing call between the update and the insertion loses the event, and the report
  that comes again finds nothing to update. `OnlyFailuresLoseEvents` says that each
  failure costs one event at most, and nothing else any.
* "If the device is offline the telemetry service re-sends the stop when it comes back,
  so the request is never lost" (`partner.ts:171-172`): when the call that sends the
  command fails, or the API takes the charger for offline that has just come back, the
  charger is connected and is sent nothing until its next connection. Nothing bounds
  when that is. `StopReachesTheDevice` excludes this (`mishap`).
* The list of chargers is "newest first, at most 200" (`admin.ts:73`, `devices.ts:61`),
  and the page has cards for what is listed only: with more chargers than that an older
  one has no card, loses the one it had at the next load, and asks for a load with
  every message, once in half a minute. `RegisteredIsShown` speaks of listed chargers.
* A stop request whose charger turns out to be idle leaves the row in `stopping`: an
  idle state is not looked at (`telemetry/transactions.ts:38`), and the sweep looks at
  `starting` only.
* The sweep is not part of a device's chain, and count and insertion are two statements
  (`webhooks.ts:37`), so two events can have the same sequence. `NothingFollowsTheStop`
  excludes transactions the sweep failed from the part that numbers them.
* "A persistent session: the broker queues QoS 1 messages published while this service
  is down" (`telemetry/src/index.ts:40`): the client id is new in every process, so what
  is queued is for a client that never comes back. `Restart` of `Ingest` and the crash
  of `Transactions` lose it.
* `ResolvedIsSwitched` speaks of calls during which the API missed nothing (`watched`).
  For all calls it does not hold, although `device-bus.ts:51-53` says that "a resolved
  promise means the contactor really was switched": an off is refused while the API is
  disconnected, the session's start or end then makes the charger publish the same id
  without the refusal, and the API, reconnecting before its timer fires, takes that
  retained message for the answer. `AnswersAreTheDevices` is what holds of every call.
* Messages of a charger before the registry knows it are dropped, its retained states
  with them, until they are said again: `StateIsTrue` excludes it (`missed`),
  `RegisteredIsHeard` is what holds.
* The portal drops messages that come before the list they are for, the list does not
  say which transaction runs, and a list never changes a card that is there: such a card
  shows no transaction until the next change (`CardsAreTrue` excludes it by `dropped`).
  Two assignments at a time can be answered in the other order than they were made, and
  a list asked for before a registration takes the card off that a later one brought
  (`blurred`).
* Of two registrations of one board at the same time, the one that loses the race gets
  the row without its own choice of the meter (`devices.ts:57`, otherwise line 48); a
  run that fails after registration leaves the registry ahead of the board. `contested`
  and `latest` in `DoneUnitIsRight`.
* Provisioning: a charger that connects with new credentials and loses that network
  before the supervisor has handled the end of the manager has no timer and no attempt
  left (`provisioning.c:456-460`), though the two are said to be "alternating until one
  of them works": the history variable `late`, which the liveness properties exclude. A
  reconnect bit that was set just before the connection opens a window on a charger that
  is connected; credentials that connect while the window is being closed are replaced
  by the backup. The result of putting the backup back is ignored
  (`provisioning.c:433`): refused, it leaves the charger with the configuration of the
  window, blank or never connected (`refused`).

## Proofs

Every theorem holds for all sets and all bounds of its module, under the assumptions
the module declares: the markers for "none" are not members of the sets they
complement, bounds are natural numbers. Two of the factory have one hypothesis more,
`ImagesAreReadBack`, which says of the layout of an image alone that reading it gives
what it was made of; TLC evaluates it on the instance of `MCFactory`.

`Charger_proofs` proves, of `ChargingSession`:

* `TypeCorrect`: `Spec => []TypeOK`.
* `InvariantHolds`: `Spec => []IInv`, the inductive invariant.
* `FlashAgrees`, `EndsAreFinal`, `SessionsArePowered`: the invariants
  `FlashHoldsTheSession`, `EndIsFinal` and `ActiveIsPowered`, the last one even
  if flash writes get lost.
* `ChargerKeepsContract`: if flash writes are not lost, `Spec` implements
  `SessionContract`, with `open` read from flash, `opened` the number of starts
  and `announced` the sessions whose end reached the broker.

The argument. None of these is inductive alone. That an end is final needs the
ends still waiting in the outbox to be as final as those delivered (`EndsInv`
speaks of both), since a delivery turns one into the other, any number of times.
That nothing holds an ended session needs memory and flash to agree, which at
rest they do but in the middle of a handler they do not: `FlashInv` says what
flash holds at each `pc`. That a new session is not one of those ended needs
every number used to be at most `lastRun` (`RunInv`), and the steps of a handler
need to know what they work on (`PcInv`). `IInv` is the conjunction, with
`FlashInv` and `EndsInv` assumed only when flash writes take effect.
`ActiveIsPowered` is preserved under the types and `PcInv` alone, which say
nothing of flash: while the power is on, no handler reads anything back from it.

and, adding to that invariant what the broker is told:

* `PositionIsTold`: `RetainedRelayIsTrue`; `SessionIsTold`: `RetainedTxIsTrueOrEnded`.
* `AcksArriveInOrder`: `EndsArriveInOrder`.
* `BaseIsBilled`: `AnnouncedBaseIsBilled`.

The argument. What the broker retains is true when the last message of its kind that is
still in the outbox is, or, when none is left or what is left was sent before, what the
broker holds already: `Told` says so of one kind of message, and `ToldInv` of both kinds
and at each `pc`, as within a handler they are told of in turn. Resending moves the mark
between sent and due back to the first message without disturbing the last. The order of
ends and starts is that of the outbox: no message names a run later than the newest
(`Newest`), what the broker has seen, what was sent and what is due name ascending runs
(`UpTo`, `InOrder`), and the end of a run is the last that is said of it (`EndsLast`,
`SentEnds`). For the base, `AllShown` collects the bases of a session the broker has
been or will be shown: all are the one in flash while the session is open (`BaseInv`),
and the one its end carries afterwards.

and, of `Provisioning`:

* `WifiInvariantHolds`: `WifiSpec => []WifiInv`.
* `AcceptedAreStored`: `StoredAreTheAccepted`.

The argument. Between windows the manager is off, so the configuration has to be right
whenever the manager is off and no window is being closed (`ConfigInv`). The manager
gets there in two ways. It stops by itself after a success; then the configuration is
what connected, and the handler of the success has recorded it before the end is
handled, since what the loop holds of the manager is how the manager is, in order,
unless the supervisor stopped it meanwhile (`ReportsInv`). Or the supervisor stops it
and puts the backup back; then the backup must be what connected last. It is, from the
moment a window is opened until there is a success in it or it has been closed
(`BackupInv`): a window opens only while the manager is off, so that what it copies is
right (a backup the driver refuses sets `refused`, and then nothing is claimed until new
credentials connect), and a success in it sets `s_fallback_got_new_creds`, after which
the supervisor waits for the manager's own end instead of closing the window. The three
tasks set bits in any order; the invariant says nothing of them, because the supervisor
looks at its own flags before it acts on one.

`Transactions_proofs` proves:

* `TypeCorrect`, `RecordsInvariant`, `InvariantHolds`: the types, the inductive
  invariant of the database alone, and that of database, service and charger together.
* `StopIsLast`: `NothingFollowsTheStop`.
* `BackendKeepsLifecycle`: rows and recorded events implement `TransactionLifecycle`.
* `EndsAreHeardOf`: `NoEndIsMissed`; `FailuresLoseOneEach`: `OnlyFailuresLoseEvents`.

The argument. A row's state bounds what the tenant may have been told (`RowsInv`). The
service awaits between its update of a row, the count of the deliveries and the
insertion, so what it is about to tell must still be true and untold (`WorkInv`), while
the sweep, which does not wait in line with it, does the same for its failures
(`SweepInv`). Sequence numbers run behind the positions in the outbox, and keep pace as
long as no sweep comes between (`OrderInv`). These make each step of the database one of
the lifecycle, or a stutter. That no end is missed needs the messages between charger
and service, and holds where only losses of single messages are possible (`Reliable`):
every run the backend counts as active is the charger's, or an end of it is under way
(`ActiveRuns`); of what is under way, a report that a transaction runs is outdated only
by a later end of it (`StatesAreTrue`). That failures lose one event each holds under
any faults (`LossInv`): a transaction whose row says confirmed or ended, and of which
nothing was told or is being told, became one by a crash or a failing call. No other
step leaves an event behind, whatever races with it, and these two leave behind that of
the message in work, of which there is one; the number of the lost is at most that of
the failures that struck.

`RelayCommand_proofs` proves:

* `TypeCorrect`, `InvariantHolds`.
* `CallsResolveTruly`: `ResolvedIsSwitched`; `AnswersComeFromTheDevice`:
  `AnswersAreTheDevices`.
* `WaitsEndSomewhere`: `NobodyWaitsForNothing`.
* `PictureIsTrue`: `KnownIsTrue`.

The argument. A message names a call only if the charger handled its command (`IdInv`),
so an answer is one (`CallInv`, `CommandsInv`). That a call resolves with its own
switch, and not with a state that only happens to name it, is about order: the first
message under way that names a waiting call is the one published by the handler that
switched for it (`WaitsInv`, `SwitchedInv`). The picture is true in the end because of
each kind of message the last word is true wherever it is: in the charger's outbox,
retained at the broker or on its way from there, or believed already (`KnownInv`).

`ReadingStore_proofs` proves:

* `InvariantHolds`, `TypeCorrect`.
* `RowsAreInOrder`: `WrittenInOrder`; `FaultsApartOnce`: `ExactlyOnceWithoutFaults`.
* `WatermarkIsSafe`: `FinalBucketsAreComplete`.

The argument. Every row that arrived is in one place: queued, under way in an insertion,
stored, or gone, which only a full queue or the end of a process explains (`Placed`,
`WriteInv`, `QueueInv`, `KeptInv`). The queue ascends, what is under way precedes it,
and what is put back after a failure goes in front of it: hence the order (`OrderInv`).
Without faults the process leaves only after the flushes it waits for have emptied the
queue, which is what the exit handler, the timer and the number of flushes must agree on
(`OnceInv`, `Leaving`). What is given up is the front of the queue of readings, when
that is longer than its bound: what stays is newer, and as what was queued at that
moment has arrived and goes on to be preferred, there were `MaxBuffered` rows to keep
instead (`DropInv`). A bucket is made of the stored readings of its time (`BucketInv`).
The watermark is that of the newest stored reading; as rows are stored in order, older
ones are stored by then, or never will be (`Final`).

`WebhookDispatcher_proofs` proves:

* `InvariantHolds`: `Spec => []IInv`, which contains `TypeOK`.
* `TableAccounts`: `AttemptsAreCounted`.
* `SettledStaysSettled`: `SettledIsNotSent`.
* `OrderIsKept`: `EventsArriveInOrder`.

The argument. A pass works from a list it read earlier, so everything hangs on what
relates the list to the table. As one pass runs at a time (`OnePass`, from the
dispatcher's `running` flag), no other pass changes a row behind its back: what is on
the list is still pending with the attempts it was read with (`ListIsFresh`). Hence what
is posted is pending, and the attempt that is recorded is the one that was made. For the
order, an earlier pending event of the same transaction must be on the list, where its
turn comes first, or have left it by blocking its transaction (`NothingIsOvertaken`).
The transaction of the delivery that is posted is blocked already while the post is
under way, but its own later events are not overtaken: that is what `HeldUp` takes out.
`WithinSchedule` says that what is pending has attempts left, which is why an attempt
without a next delay is the last. That a list that is not empty has a first element is
the well-foundedness of the numbers.

`FactoryWorkflow_proofs` proves:

* `InvariantHolds`, `TypeCorrect`.
* `OneIdentityPerBoard`: `IdentityIsTheBoards`; `LabelledUnitsAreRight`:
  `DoneUnitIsRight`, both if `ImagesAreReadBack`.
* `CountedFlashesWereMade`: `RecordedWasVerified`; `SequenceIsTight`:
  `NumbersAreNotBurnt`.

The argument. Nothing locks a board: another station can register it, or a request that
was given up can still run, at any await. What does hold is that only the run that has a
board's port open writes to it, and that this is the latest run started on the board
(`Sure`): so what a run has written stays until a later one writes (`Holds`), and that
one is not done with the label of the first. What a handler or a run has looked up stays
true, as rows are never removed and keep their board (`Sound`, `Sure`), and an image is
that of its row, so a flash holds an identity of its own board or none
(`OwnIdentity`). The meter can change under a run: a board that is not `contested`
has one registration at a time (`Alone`), which belongs to the latest run, and its row
has that run's meter (`Chosen`). For the sequence, requests that may still take a number
and the numbers taken are together at most the runs started (`SequenceInv`); for the
counter, flashes counted and requests about to count are at most the verified ones
(`RecordInv`).

`Ingest_proofs` proves:

* `InvariantHolds`: `Spec => []IInv`, which contains `DataTypes`.
* `StatesAreTrue`: `StateIsTrue`; `ReadingsTied`: `ReadingsAreTied`.

The argument. What a charger says passes the broker, which keeps the last word of each
kind and queues all of them. Of a charger that has announced itself, the last word about
the contactor is true, and the last about the session says what it last told of, the
session itself or one cut off since; each is in its outbox, or else retained
(`DeviceInv`); what is retained is on its way to a service that is connected, or
believed by it, or was dropped by one that believed nothing before (`ServiceInv`).
Neither alone survives a lost connection: the first covers the charger sending
everything again, the second the service subscribing anew, where what was queued comes
before what is retained. Online is said by three kinds of message, of which only the
status can say otherwise, and a charger that is not down has its status in its outbox or
retained: so the last of these kinds is true. A reading follows the transaction told of
when it was published, with no other in between, or that one is known already where the
messages go: retained, for those in the outbox, believed, for those in the inbox
(`Tied`). The cache is filled behind a lookup: what the charger tells of is cached, or
waits in the chain, or was looked for in vain (`CacheInv`).

`Dashboard_proofs` proves:

* `InvariantHolds`.
* `CardsTellTheTruth`: `CardsAreTrue`; `TenantsAreTrue`: `TenantShownIsTrue`.

The argument. For each fact a card shows, the last word about it is on its way to the
page, or the card shows it, or there is no card and no request under way can bring one
(`FactInv`; such a card would be one that misses what was dropped). A connection starts
with all that is retained, and what is retained of a connected charger is true, or tells
of a session that was cut off. A card is taken off by an answer from before the
registration, and while one of these is on its way no other request could bring the card
again, because the page has two at a time at most (`ListsInv`); or by an answer that was
too short for it, and then the card has lost what it had been told (`dropped`). A card
follows the one assignment under way, and a list that comes late does not touch a card
that is there (`TenantInv`).

Only model-checked are

* the liveness properties: `SessionsResume`, `StopReachesTheDevice`,
  `EveryEventSettles`, `OverdueIsAbsorbed`, `RegisteredIsHeard`, `RegisteredIsShown`,
  `WindowsReopen`, `StoredIsRetried`. They rest on fairness, that is on `ENABLED`, which
  the prover does not handle;
* `ImagesAreReadBack`: images are built and read by folds over sequences of any length,
  whose result for every input takes an induction the prover cannot make.

Every other property of the passing runs is stated by a theorem.

## Not modelled

* Payload formats, statistics of a transaction, wording and logging; the
  refusal of malformed payloads, which the firmware does not send.
* Meter: which registers are read and how (the planning of blocks, the Modbus
  frames). A reading is a counter value, or none.
* `RelayCommand`: commands that are not JSON or have no id, which only other clients
  send; errors of `gpio_set_level` (the pin is fixed when the firmware is built) and
  of `publishAsync` (it fails when the client is closed, as the process exits);
  meter messages, which also set `online`.
* `Transactions` has one device, as chains of different devices share nothing but
  the sweep; a transaction's id is unique per tenant, and the lookup is by device and
  id. Two requests for one id at the same await are one element of
  `requests`. The charger's handlers are atomic there: `ChargingSession` shows
  what a power cut in the middle of one does.
* `WebhookDispatcher` has one tenant; a pass works through them one after another.
* `ReadingStore`: retention of raw readings, the override of the job's start, and
  clocks that differ between service and database. Rows of devices are not told
  apart: there is one writer and one watermark for all.
* `Ingest`: two refreshes of the registry that overlap; `forget`, which nothing calls.
* `Provisioning`: a restart in the middle of a window, the security parameters and the
  endpoint for custom data. The admin mobile app is the client of this module: one
  operator, one dialog at a time.
* `FactoryWorkflow`: the bytes of an image (checksums, bitmaps, padding), the firmware
  bundle's other files, progress and wording.
* Creating and changing tenants (creating lists the tenants before it inserts one, and
  `TenantRow` edits a copy of what it was given), the power history, the secret's
  route, and the checks of roles and tokens.
* Composition of `Transactions` with the charger's handlers cut at their flash
  writes: the product is beyond TLC at bounds in which anything happens; both sides are
  checked against the same messages.

## Plan

Done, in the order of importance: the charger, its contract and its proofs;
transactions, their lifecycle, the tenant's events and their delivery; stored
readings and their buckets; relay commands; the views of ingest and portal;
provisioning; the factory; the proofs of all their invariants.

Left:

1. `MeterPlan`: the register blocks a poll reads, as a pure algorithm against its
   definition (each wanted register in exactly one block, no block too long).
2. Power loss within `Provisioning`, and tenants.
