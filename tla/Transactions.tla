----------------------------- MODULE Transactions -----------------------------
(***************************************************************************)
(* The transactions of one device, as the backend keeps them: the partner  *)
(* API creates rows and requests stops, the telemetry service applies what *)
(* the device reports, and a periodic sweep fails what was not confirmed.  *)
(* Every transition the telemetry service makes is followed by an event in *)
(* the tenant's outbox.                                                    *)
(*                                                                         *)
(* API requests, the sweep and the handling of one device's messages run   *)
(* concurrently on one database.  Each is split at its awaits, so what a   *)
(* handler read may be stale when it writes.  The device's messages are    *)
(* handled one at a time, in the order they arrive (the "chain").          *)
(*                                                                         *)
(* The device is the one of ChargingSession with its handlers made atomic. *)
(***************************************************************************)
EXTENDS Naturals, Sequences, FiniteSets, Functions

CONSTANTS
  Tx,           \* transaction ids, all of one tenant, all on one device
  NoTx,         \* no transaction
  MaxPending,   \* bound: requests, commands and reports under way when one comes
  MaxMeter,     \* bound: MeterValues recorded per transaction
  Faults        \* bound: which faults may strike together, each of them once

\* drop: the device loses its connection.  reboot: the device loses power.
\* crash: the telemetry service dies.  rejoin: it loses its connection and comes
\* back.  call: a database or broker call fails, or an API process dies.
\* stale: the API still sees a device as offline that has come back.
AllFaults == {"drop", "reboot", "crash", "rejoin", "call", "stale"}

ASSUME ConstantsAssumption ==
  /\ NoTx \notin Tx
  /\ MaxPending \in Nat
  /\ MaxMeter \in Nat
  /\ Faults \subseteq SUBSET AllFaults

VARIABLES
  rows,       \* transactions.state of each transaction, "none" without a row
  outbox,     \* webhook_deliveries of each transaction, in insertion order
  requests,   \* API requests in progress: [tx, step]
  up,         \* whether the telemetry service runs
  chain,      \* the device's messages it received and has not begun to handle
  work,       \* the one it is handling
  sweep,      \* the failures whose event is not written yet: [tx, step, sequence]
  retained,   \* broker: the transaction in the retained message of devices/<id>/tx
  running,    \* device: its transaction, NoTx when idle
  online,     \* device: connected to the broker
  commands,   \* on their way to the device
  reports,    \* device: enqueued and not yet acknowledged
  faults,     \* the faults that struck so far
  mishap      \* history: since the device connected, a failing call or a stale view
              \* of the device came where a stop was going to be sent

database == <<rows, outbox>>
telemetry == <<up, chain, work, sweep>>
link == <<retained, online, commands, reports>>
struck == <<faults, mishap>>
vars == <<database, requests, telemetry, running, link, struck>>

----------------------------------------------------------------------------
MaybeTx == Tx \cup {NoTx}

RowStates == {"none", "starting", "active", "stopping", "stopped", "failed"}

EventTypes ==
  {"TransactionStarted", "TransactionStopped", "TransactionFailed", "MeterValues"}

Event == [type : EventTypes, sequence : Nat]

Told(t) == {e.type : e \in Range(outbox[t])}

Report == [kind : {"state", "end", "meter"}, tx : MaybeTx]

StateReport(t) == [kind |-> "state", tx |-> t]

EndReport(t) == [kind |-> "end", tx |-> t]

MeterReport(t) == [kind |-> "meter", tx |-> t]

Command == [op : {"start", "stop"}, tx : Tx]

\* What the handler in progress awaits: the command it sends, the update that
\* confirms or finishes the row, the count of deliveries, or the insertion.
WorkSteps == {"idle", "stop", "confirm", "finish", "count", "insert"}

Idle == [step |-> "idle", tx |-> NoTx, event |-> "MeterValues", sequence |-> 0]

----------------------------------------------------------------------------
Init ==
  /\ rows = [t \in Tx |-> "none"]
  /\ outbox = [t \in Tx |-> <<>>]
  /\ requests = {}
  /\ up = TRUE
  /\ chain = <<>>
  /\ work = Idle
  /\ sweep = {}
  /\ retained = NoTx
  /\ running = NoTx
  /\ online = TRUE
  /\ commands = <<>>
  /\ reports = <<>>
  /\ faults = {} /\ mishap = FALSE

Occurs(fault) ==
  /\ fault \notin faults
  /\ faults' = faults \cup {fault}
  /\ \E together \in Faults : faults' \subseteq together

Strike(fault) == Occurs(fault) /\ UNCHANGED mishap

\* A fault at a step that was going to stop the device, or may have been.
Withhold(fault) == Occurs(fault) /\ mishap' = TRUE

\* A command reaches the broker: a device that is away never gets it.
Send(op, t) ==
  /\ commands' = IF online THEN Append(commands, [op |-> op, tx |-> t]) ELSE commands
  /\ UNCHANGED <<retained, online, reports>>

(***************************************************************************)
(* The device                                                               *)
(***************************************************************************)

\* One command (handle_command): what ends is reported before what starts.
DeviceCommand ==
  /\ online
  /\ commands # <<>>
  /\ commands' = Tail(commands)
  /\ LET op == Head(commands).op
         t == Head(commands).tx
         ends == running # NoTx /\ (op = "start") # (running = t)
     IN /\ running' = IF op = "start" THEN t ELSE IF ends THEN NoTx ELSE running
        /\ reports' = reports \o (IF ends THEN <<EndReport(running)>> ELSE <<>>)
                              \o <<StateReport(running')>>
  /\ UNCHANGED <<database, requests, telemetry, retained, online, struck>>

\* An administrator's forced off (relay_guard): the end alone is reported.
ForcedOff ==
  /\ online
  /\ running # NoTx
  /\ running' = NoTx
  /\ reports' = Append(reports, EndReport(running))
  /\ UNCHANGED <<database, requests, telemetry, retained, online, commands, struck>>

DeviceMeter ==
  /\ online
  /\ running # NoTx
  /\ Len(reports) + Len(chain) < MaxPending
  /\ Cardinality({i \in DOMAIN outbox[running] : outbox[running][i].type = "MeterValues"})
       < MaxMeter
  /\ reports' = Append(reports, MeterReport(running))
  /\ UNCHANGED <<database, requests, telemetry, running, retained, online, commands, struck>>

DeviceConnect ==
  /\ ~online
  /\ online' = TRUE
  /\ mishap' = FALSE
  /\ reports' = Append(reports, StateReport(running))
  /\ UNCHANGED <<database, requests, telemetry, running, retained, commands, faults>>

IsState(r) == r.kind = "state"

\* The broker passes reports on and keeps the last state.
Relay(passed) ==
  /\ chain' = IF up THEN chain \o passed ELSE chain
  /\ \/ /\ \A i \in DOMAIN passed : ~IsState(passed[i])
        /\ UNCHANGED retained
     \/ \E i \in DOMAIN passed :
          /\ IsState(passed[i]) /\ \A j \in (i + 1)..Len(passed) : ~IsState(passed[j])
          /\ retained' = passed[i].tx
  /\ UNCHANGED <<up, work, sweep>>

DeliverReport ==
  /\ online
  /\ reports # <<>>
  /\ Relay(<<Head(reports)>>)
  /\ reports' = Tail(reports)
  /\ UNCHANGED <<database, requests, running, online, commands, struck>>

\* MUTANT of DropConnection: what was enqueued is not kept for the next connection.
DropConnection_Forgets(n) ==
  /\ online
  /\ Strike("drop")
  /\ Relay(SubSeq(reports, 1, n))
  /\ online' = FALSE
  /\ commands' = <<>>
  /\ reports' = <<>>
  /\ UNCHANGED <<database, requests, running>>

\* The connection drops before the acknowledgement of the first n reports: they
\* arrived, and will arrive again.
DropConnection(n) ==
  /\ online
  /\ Strike("drop")
  /\ Relay(SubSeq(reports, 1, n))
  /\ online' = FALSE
  /\ commands' = <<>>
  /\ UNCHANGED <<database, requests, running, reports>>

\* A power cut: flash still holds the session, the MQTT client forgets.
Reboot ==
  /\ Strike("reboot")
  /\ online' = FALSE
  /\ commands' = <<>>
  /\ reports' = <<>>
  /\ UNCHANGED <<database, requests, telemetry, running, retained>>

(***************************************************************************)
(* The partner API                                                          *)
(***************************************************************************)

Room == Cardinality(requests) + Len(commands) + Len(reports) + Len(chain) < MaxPending

Request(t, step) == [tx |-> t, step |-> step]

\* A request goes from one await to the next.
Advance(t, from, to) ==
  /\ Request(t, from) \in requests
  /\ requests' = (requests \ {Request(t, from)})
                   \cup (IF to = "done" THEN {} ELSE {Request(t, to)})

\* Start: an id that has a row already is answered from it.
RequestStart(t) ==
  /\ Room
  /\ rows[t] = "none"
  /\ requests' = requests \cup {Request(t, "command")}
  /\ UNCHANGED <<database, telemetry, running, link, struck>>

\* DeviceOfflineError: nothing is sent.
Refused(mistaken) ==
  /\ IF online THEN mistaken ELSE UNCHANGED struck
  /\ UNCHANGED link

Sent(op, t) == Send(op, t) /\ UNCHANGED struck

\* The command goes out first.  A device known to be offline is not asked, and
\* the request ends without a row.
SendStart(t) ==
  /\ \/ Advance(t, "command", "create") /\ Sent("start", t)
     \/ Advance(t, "command", "done") /\ Refused(Strike("stale"))
  /\ UNCHANGED <<database, telemetry, running>>

\* The row is inserted: a second one violates the unique index and fails.
Create(t) ==
  /\ Advance(t, "create", "done")
  /\ rows' = [rows EXCEPT ![t] = IF @ = "none" THEN "starting" ELSE @]
  /\ UNCHANGED <<outbox, telemetry, running, link, struck>>

RequestStop(t) ==
  /\ Room
  /\ rows[t] \in {"starting", "active", "stopping"}
  /\ requests' = requests \cup {Request(t, "mark")}
  /\ UNCHANGED <<database, telemetry, running, link, struck>>

\* MUTANT of MarkStopping: the update does not ask for the state it replaces.
MarkStopping_Unguarded(t) ==
  /\ Advance(t, "mark", "send")
  /\ rows' = [rows EXCEPT ![t] = "stopping"]
  /\ UNCHANGED <<outbox, telemetry, running, link, struck>>

\* Flag first.
MarkStopping(t) ==
  /\ Advance(t, "mark", "send")
  /\ rows' = [rows EXCEPT ![t] = IF @ \in {"starting", "active"} THEN "stopping" ELSE @]
  /\ UNCHANGED <<outbox, telemetry, running, link, struck>>

SendStop(t) ==
  /\ Advance(t, "send", "done")
  /\ Sent("stop", t) \/ Refused(Withhold("stale"))
  /\ UNCHANGED <<database, telemetry, running>>

RequestFails ==
  /\ \E r \in requests :
       /\ IF r.step = "send" THEN Withhold("call") ELSE Strike("call")
       /\ requests' = requests \ {r}
  /\ UNCHANGED <<database, telemetry, running, link>>

(***************************************************************************)
(* The telemetry service: one report at a time                              *)
(***************************************************************************)

At(step) == up /\ work.step = step

\* WebhookOutbox.enqueue of an event that changes nothing else: count, insert.
Counted(t) == Len(outbox[t])

Delivery(event, counted) == [type |-> event, sequence |-> counted + 1]

Insert(t, delivery) == outbox' = [outbox EXCEPT ![t] = Append(@, delivery)]

\* MUTANT of AfterState: a stop requested while the device was away is not re-sent.
AfterState_NoResend(row) ==
  CASE row \in {"none", "failed"} -> "stop"
    [] row = "starting" -> "confirm"
    [] OTHER -> "idle"

\* onState: what the row that was found asks for.
AfterState(row) ==
  CASE row \in {"none", "stopping", "failed"} -> "stop"
    [] row = "starting" -> "confirm"
    [] OTHER -> "idle"

\* onEnd: an end is recorded once.
AfterEnd(row) == IF row \in {"none", "stopped"} THEN "idle" ELSE "finish"

\* MUTANT of AfterMeter: progress is passed on whatever became of the row.
AfterMeter_AnyRow(row) == IF row = "none" THEN "idle" ELSE "count"

AfterMeter(row) == IF row \in {"active", "stopping"} THEN "count" ELSE "idle"

\* What follows depends on the report and on the row; an idle state is not looked at.
StepFor(r) ==
  IF r.tx = NoTx THEN "idle"
  ELSE CASE r.kind = "state" -> AfterState(rows[r.tx])
         [] r.kind = "end"   -> AfterEnd(rows[r.tx])
         [] r.kind = "meter" -> AfterMeter(rows[r.tx])

Handling(r) ==
  IF StepFor(r) = "idle" THEN Idle ELSE [Idle EXCEPT !.step = StepFor(r), !.tx = r.tx]

\* find: the row is read, and what follows depends on what it was then.
Find ==
  /\ At("idle")
  /\ chain # <<>>
  /\ chain' = Tail(chain)
  /\ work' = Handling(Head(chain))
  /\ UNCHANGED <<database, requests, up, sweep, running, link, struck>>

\* The device is told to stop what it reports.
StopDevice ==
  /\ At("stop")
  /\ Send("stop", work.tx)
  /\ work' = Idle
  /\ UNCHANGED <<database, requests, up, chain, sweep, running, struck>>

\* A guarded update: the row moves, and its event is due, only if it still is in
\* one of the states it may leave.
Update(from, to, event) ==
  IF rows[work.tx] \in from
  THEN /\ rows' = [rows EXCEPT ![work.tx] = to]
       /\ work' = [work EXCEPT !.step = "count", !.event = event]
  ELSE /\ work' = Idle
       /\ UNCHANGED rows

Confirm ==
  /\ At("confirm")
  /\ Update({"starting"}, "active", "TransactionStarted")
  /\ UNCHANGED <<outbox, requests, up, chain, sweep, running, link, struck>>

Finish ==
  /\ At("finish")
  /\ Update({"starting", "active", "stopping", "failed"}, "stopped", "TransactionStopped")
  /\ UNCHANGED <<outbox, requests, up, chain, sweep, running, link, struck>>

CountDeliveries ==
  /\ At("count")
  /\ work' = [work EXCEPT !.step = "insert", !.sequence = Counted(work.tx)]
  /\ UNCHANGED <<database, requests, up, chain, sweep, running, link, struck>>

\* MUTANT of InsertDelivery: a number that is taken marks a duplicate.
InsertDelivery_Once ==
  /\ At("insert")
  /\ IF \E e \in Range(outbox[work.tx]) : e.sequence = work.sequence + 1
       THEN UNCHANGED outbox
       ELSE Insert(work.tx, Delivery(work.event, work.sequence))
  /\ work' = Idle
  /\ UNCHANGED <<rows, requests, up, chain, sweep, running, link, struck>>

InsertDelivery ==
  /\ At("insert")
  /\ Insert(work.tx, Delivery(work.event, work.sequence))
  /\ work' = Idle
  /\ UNCHANGED <<rows, requests, up, chain, sweep, running, link, struck>>

\* A call fails: the chain goes on with the next report.
WorkFails ==
  /\ up
  /\ work # Idle
  /\ Withhold("call")
  /\ work' = Idle
  /\ UNCHANGED <<database, requests, up, chain, sweep, running, link>>

(***************************************************************************)
(* The telemetry service: the sweep, and its life                           *)
(***************************************************************************)

\* sweepStartTimeouts: one update fails what has been starting for too long.
SweepStartTimeouts(expired) ==
  /\ up
  /\ expired # {}
  /\ \A t \in expired : rows[t] = "starting"
  /\ rows' = [t \in Tx |-> IF t \in expired THEN "failed" ELSE rows[t]]
  /\ sweep' = sweep \cup {[tx |-> t, step |-> "count", sequence |-> 0] : t \in expired}
  /\ UNCHANGED <<outbox, requests, up, chain, work, running, link, struck>>

SweepCount(s) ==
  /\ up
  /\ s.step = "count"
  /\ sweep' = (sweep \ {s}) \cup {[s EXCEPT !.step = "insert", !.sequence = Counted(s.tx)]}
  /\ UNCHANGED <<database, requests, up, chain, work, running, link, struck>>

SweepInsert(s) ==
  /\ up
  /\ s.step = "insert"
  /\ Insert(s.tx, Delivery("TransactionFailed", s.sequence))
  /\ sweep' = sweep \ {s}
  /\ UNCHANGED <<rows, requests, up, chain, work, running, link, struck>>

\* A call fails: the rest of the sweep's events are not written.
SweepFails ==
  /\ up
  /\ sweep # {}
  /\ Strike("call")
  /\ sweep' = {}
  /\ UNCHANGED <<database, requests, up, chain, work, running, link>>

\* Everything in memory is gone.
Crash ==
  /\ up
  /\ Strike("crash")
  /\ up' = FALSE
  /\ chain' = <<>>
  /\ work' = Idle
  /\ sweep' = {}
  /\ UNCHANGED <<database, requests, running, link>>

\* The client id is random: what the broker queued is for another client, and
\* the retained state is all that arrives on subscribing.
Restart ==
  /\ ~up
  /\ up' = TRUE
  /\ chain' = <<StateReport(retained)>>
  /\ UNCHANGED <<database, requests, work, sweep, running, link, struck>>

\* The connection to the broker was lost and is back: the session persisted,
\* and subscribing again brings the retained state again.
Rejoin ==
  /\ up
  /\ Strike("rejoin")
  /\ chain' = Append(chain, StateReport(retained))
  /\ UNCHANGED <<database, requests, up, work, sweep, running, link>>

----------------------------------------------------------------------------
Device ==
  \/ DeviceCommand \/ ForcedOff \/ DeviceMeter \/ DeviceConnect \/ DeliverReport
  \/ \E n \in 0..Len(reports) : DropConnection(n)
  \/ Reboot

Api ==
  \/ \E t \in Tx :
       \/ RequestStart(t) \/ SendStart(t) \/ Create(t)
       \/ RequestStop(t) \/ MarkStopping(t) \/ SendStop(t)
  \/ RequestFails

Work ==
  \/ Find \/ StopDevice \/ Confirm \/ Finish \/ CountDeliveries \/ InsertDelivery

Telemetry ==
  \/ Work \/ WorkFails
  \/ \E expired \in SUBSET Tx : SweepStartTimeouts(expired)
  \/ \E s \in sweep : SweepCount(s) \/ SweepInsert(s)
  \/ SweepFails
  \/ Crash \/ Restart \/ Rejoin

Next == Device \/ Api \/ Telemetry

Spec == Init /\ [][Next]_vars

\* The services make progress, the broker delivers, and a device that lost its
\* connection connects again.  Nothing is assumed of requests and faults, nor of
\* what starts a transaction.
Fairness ==
  /\ WF_vars(DeviceCommand \/ DeviceConnect) /\ WF_vars(DeliverReport)
  /\ \A t \in Tx : WF_vars(MarkStopping(t) \/ SendStop(t))
  /\ WF_vars(Work \/ Restart)

FairSpec == Spec /\ Fairness

----------------------------------------------------------------------------
(* Properties                                                               *)

SweepEntry == [tx : Tx, step : {"count", "insert"}, sequence : Nat]

TypeOK ==
  /\ rows \in [Tx -> RowStates]
  /\ outbox \in [Tx -> Seq(Event)]
  /\ requests \subseteq [tx : Tx, step : {"command", "create", "mark", "send"}]
  /\ up \in BOOLEAN
  /\ chain \in Seq(Report)
  /\ work \in [step : WorkSteps, tx : MaybeTx, event : EventTypes, sequence : Nat]
  /\ work.step # "idle" => work.tx \in Tx
  /\ sweep \subseteq SweepEntry
  /\ retained \in MaybeTx
  /\ running \in MaybeTx
  /\ online \in BOOLEAN
  /\ commands \in Seq(Command)
  /\ reports \in Seq(Report)
  /\ faults \subseteq AllFaults /\ mishap \in BOOLEAN

\* The row of each transaction and the events recorded about it follow the
\* lifecycle the tenant is promised, whatever races, is lost or arrives twice.
Lifecycle == INSTANCE TransactionLifecycle WITH
  state <- rows,
  told <- [t \in Tx |-> Told(t) \ {"MeterValues"}]

ImplementsLifecycle == Lifecycle!Spec

\* The tenant is not told of progress, or of a start, once it was told of the
\* stop: neither in the order of the outbox nor in the order of the sequences.
\* As long as no sweep interferes, the outbox of a transaction is numbered
\* 1, 2, 3 ..., whatever was handled twice or died between count and insertion.
NothingFollowsTheStop ==
  /\ TypeOK
  /\ \A t \in Tx : \A i, j \in DOMAIN outbox[t] :
       /\ outbox[t][i].type = "TransactionStopped"
       /\ outbox[t][j].type \in {"TransactionStarted", "MeterValues"}
       => j < i /\ outbox[t][j].sequence < outbox[t][i].sequence
  /\ \A t \in Tx :
       "TransactionFailed" \notin Told(t)
         => \A i \in DOMAIN outbox[t] : outbox[t][i].sequence = i

EndUnderway(t) ==
  \/ EndReport(t) \in Range(reports) \cup Range(chain)
  \/ work.step = "finish" /\ work.tx = t

\* A transaction the backend counts as active is one the device runs, or one whose
\* end is on its way: nothing ends without the backend going to know, as long as
\* neither the charger nor the service loses what is in its memory.
NoEndIsMissed ==
  \A t \in Tx :
    faults \subseteq {"drop"} /\ rows[t] = "active" => running = t \/ EndUnderway(t)

\* Confirmed or ended, and nothing in progress or in the outbox says so.
Unrecorded ==
  {t \in Tx :
     /\ work.tx # t
     /\ \/ rows[t] = "active" /\ "TransactionStarted" \notin Told(t)
        \/ rows[t] = "stopped" /\ "TransactionStopped" \notin Told(t)}

\* What a crash or a failing call can come between.
Failures == faults \cap {"crash", "call"}

\* transactions.ts: "each one writes the tenant's webhook event in the same flow",
\* not in the same database transaction: a crash or a call that fails between the
\* update and the insertion loses the event, and no report that comes again makes up
\* for it.  Each loses one, and nothing else does: no race with the sweep or the API,
\* no report that comes twice, no connection lost.
OnlyFailuresLoseEvents == Cardinality(Unrecorded) <= Cardinality(Failures)

\* A device that runs what was asked to stop is stopped, or its end is recorded: by
\* the API's command, or by the one sent again when the device comes back.  Only a
\* failing call or a stale view of the device, where the stop was going to be sent,
\* leaves it charging, and not past its next connection.
StopReachesTheDevice ==
  \A t \in Tx : []<>~(rows[t] = "stopping" /\ running = t /\ ~mishap)

\* transactions.ts: a failed transaction the device runs is stopped, as "nothing may
\* charge that the backend thinks is over".  The sweep can slip in between the row
\* being found starting and the update that confirms it.
NothingFailedCharges ==
  \A t \in Tx : (rows[t] = "failed" /\ running = t)
                  ~> ~(rows[t] = "failed" /\ running = t)
==============================================================================
