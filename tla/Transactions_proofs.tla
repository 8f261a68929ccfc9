--------------------------- MODULE Transactions_proofs ---------------------------
(***************************************************************************)
(* Proofs about Transactions, for any set of transactions and every bound  *)
(* and fault.                                                              *)
(***************************************************************************)
EXTENDS Transactions, SequenceTheorems, FiniteSetTheorems, TLAPS

USE DEF struck, Strike, Withhold

----------------------------------------------------------------------------
(* Types                                                                    *)

LEMMA AppendTypes ==
  ASSUME NEW S, NEW s \in Seq(S), NEW e \in S
  PROVE  /\ Append(s, e) \in Seq(S) /\ Len(Append(s, e)) = Len(s) + 1
         /\ DOMAIN Append(s, e) = 1..(Len(s) + 1)
         /\ Append(s, e)[Len(s) + 1] = e
         /\ \A i \in 1..Len(s) : Append(s, e)[i] = s[i]
  OBVIOUS

LEMMA TailTypes ==
  ASSUME NEW S, NEW s \in Seq(S), s # <<>>
  PROVE  Head(s) \in S /\ Tail(s) \in Seq(S)
  OBVIOUS

\* The provers keep truth values apart from the rest.
DataTypes ==
  /\ rows \in [Tx -> RowStates]
  /\ outbox \in [Tx -> Seq(Event)]
  /\ requests \subseteq [tx : Tx, step : {"command", "create", "mark", "send"}]
  /\ chain \in Seq(Report)
  /\ work \in [step : WorkSteps, tx : MaybeTx, event : EventTypes, sequence : Nat]
  /\ work.step # "idle" => work.tx \in Tx
  /\ sweep \subseteq SweepEntry
  /\ retained \in MaybeTx
  /\ running \in MaybeTx
  /\ commands \in Seq(Command)
  /\ reports \in Seq(Report)
  /\ faults \subseteq AllFaults

Switches == up \in BOOLEAN /\ online \in BOOLEAN /\ mishap \in BOOLEAN

LEMMA TypesSplit == TypeOK <=> DataTypes /\ Switches
  BY DEF TypeOK, DataTypes, Switches

LEMMA SwitchTypes ==
  ASSUME Switches, Next
  PROVE  Switches'
<1>1. UNCHANGED up \/ up' = TRUE \/ up' = FALSE
  BY Zenon DEF Next, Device, Api, Telemetry, Work, DeviceCommand, ForcedOff,
    DeviceMeter,
     DeviceConnect, DeliverReport, DropConnection, Reboot, RequestStart, SendStart, Create,
     RequestStop, MarkStopping, SendStop, RequestFails, Find, StopDevice, Confirm, Finish,
     CountDeliveries, InsertDelivery, WorkFails, SweepStartTimeouts, SweepCount, SweepInsert,
     SweepFails, Crash, Restart, Rejoin, Relay, telemetry
<1>2. UNCHANGED online \/ online' = TRUE \/ online' = FALSE
  BY Zenon DEF Next, Device, Api, Telemetry, Work, DeviceCommand, ForcedOff,
    DeviceMeter,
     DeviceConnect, DeliverReport, DropConnection, Reboot, RequestStart, SendStart, Create,
     RequestStop, MarkStopping, SendStop, RequestFails, Find, StopDevice, Confirm, Finish,
     CountDeliveries, InsertDelivery, WorkFails, SweepStartTimeouts, SweepCount, SweepInsert,
     SweepFails, Crash, Restart, Rejoin, Send, Sent, Refused, link
<1>3. UNCHANGED mishap \/ mishap' = TRUE \/ mishap' = FALSE
  BY Zenon DEF Next, Device, Api, Telemetry, Work, DeviceCommand, ForcedOff,
    DeviceMeter,
     DeviceConnect, DeliverReport, DropConnection, Reboot, RequestStart, SendStart, Create,
     RequestStop, MarkStopping, SendStop, RequestFails, Find, StopDevice, Confirm, Finish,
     CountDeliveries, InsertDelivery, WorkFails, SweepStartTimeouts, SweepCount, SweepInsert,
     SweepFails, Crash, Restart, Rejoin, Sent, Refused
<1> QED
  BY <1>1, <1>2, <1>3, Zenon DEF Switches

LEMMA StrikeTypes ==
  ASSUME NEW f, Occurs(f)
  PROVE  faults' \subseteq AllFaults
  BY ConstantsAssumption DEF Occurs

\* What the broker passes on are reports.
LEMMA RelayTypes ==
  ASSUME DataTypes, NEW passed \in Seq(Report), Relay(passed)
  PROVE  /\ chain' \in Seq(Report) /\ retained' \in MaybeTx
         /\ UNCHANGED <<up, work, sweep>>
<1>1. chain' \in Seq(Report)
  BY ConcatProperties DEF Relay, DataTypes
<1>2. \A i \in DOMAIN passed : passed[i] \in Report
  BY ElementOfSeq
<1>3. retained' \in MaybeTx
  BY <1>2 DEF Relay, DataTypes, Report
<1> QED
  BY <1>1, <1>3 DEF Relay

LEMMA DeviceTypes ==
  ASSUME DataTypes, Device
  PROVE  DataTypes'
<1> USE DEF DataTypes
<1>1. /\ \A t \in MaybeTx : StateReport(t) \in Report /\ EndReport(t) \in Report
                            /\ MeterReport(t) \in Report
      /\ Tx \subseteq MaybeTx /\ NoTx \in MaybeTx
  BY DEF StateReport, EndReport, MeterReport, Report, MaybeTx
<1>2. CASE DeviceCommand
  <2> DEFINE op == Head(commands).op
             t == Head(commands).tx
             ends == running # NoTx /\ (op = "start") # (running = t)
  <2>0. Head(commands) \in Command /\ Tail(commands) \in Seq(Command)
    BY <1>2, TailTypes DEF DeviceCommand
  <2>1. Tail(commands) \in Seq(Command) /\ t \in Tx
    BY <2>0 DEF Command
  <2>2. running' \in MaybeTx
    BY <1>1, <1>2, <2>1 DEF DeviceCommand
  <2>3. (IF ends THEN <<EndReport(running)>> ELSE <<>>) \in Seq(Report)
        /\ <<StateReport(running')>> \in Seq(Report)
    BY <1>1, <2>2
  <2>4. reports' \in Seq(Report)
    BY <1>2, <2>3, ConcatProperties DEF DeviceCommand
  <2> QED
    BY <1>2, <2>1, <2>2, <2>4 DEF DeviceCommand, database, telemetry
<1>3. CASE ForcedOff \/ DeviceMeter \/ DeviceConnect
  <2>1. /\ Append(reports, EndReport(running)) \in Seq(Report)
        /\ Append(reports, MeterReport(running)) \in Seq(Report)
        /\ Append(reports, StateReport(running)) \in Seq(Report)
    BY <1>1, AppendTypes
  <2>2. reports' \in Seq(Report) /\ running' \in MaybeTx
    BY <1>1, <1>3, <2>1 DEF ForcedOff, DeviceMeter, DeviceConnect
  <2> QED
    BY <1>3, <2>2 DEF ForcedOff, DeviceMeter, DeviceConnect, database, telemetry
<1>4. CASE DeliverReport
  <2>1. <<Head(reports)>> \in Seq(Report) /\ Tail(reports) \in Seq(Report)
    BY <1>4, TailTypes DEF DeliverReport
  <2> QED
    BY <1>4, <2>1, RelayTypes DEF DeliverReport, database
<1>5. ASSUME NEW n \in 0..Len(reports), DropConnection(n) PROVE DataTypes'
  <2>1. SubSeq(reports, 1, n) \in Seq(Report)
    BY SubSeqProperties
  <2>2. chain' \in Seq(Report) /\ retained' \in MaybeTx /\ UNCHANGED <<work, sweep>>
    BY <1>5, <2>1, RelayTypes DEF DropConnection
  <2> QED
    BY <1>5, <2>2, StrikeTypes DEF DropConnection, database
<1>6. CASE Reboot
  BY <1>6, StrikeTypes DEF Reboot, database, telemetry
<1> QED
  BY <1>2, <1>3, <1>4, <1>5, <1>6 DEF Device

LEMMA ApiTypes ==
  ASSUME DataTypes, Api
  PROVE  DataTypes'
<1> USE DEF DataTypes
<1> DEFINE Requests == [tx : Tx, step : {"command", "create", "mark", "send"}]
<1>1. \A op \in {"start", "stop"}, t \in Tx : Send(op, t) =>
        commands' \in Seq(Command) /\ UNCHANGED <<retained, online, reports>>
  <2> TAKE op \in {"start", "stop"}, t \in Tx
  <2>1. Append(commands, [op |-> op, tx |-> t]) \in Seq(Command)
    BY AppendTypes DEF Command
  <2> QED
    BY <2>1 DEF Send
<1>2. \A t \in Tx, from, to \in {"command", "create", "mark", "send", "done"} :
        Advance(t, from, to) => requests' \subseteq Requests
  BY DEF Advance, Request
<1>3. ASSUME NEW t \in Tx, RequestStart(t) \/ RequestStop(t) PROVE DataTypes'
  BY <1>3 DEF RequestStart, RequestStop, Request, database, telemetry, link
<1>4. ASSUME NEW t \in Tx, SendStart(t) \/ SendStop(t) PROVE DataTypes'
  <2>1. requests' \subseteq Requests
    BY <1>2, <1>4 DEF SendStart, SendStop
  <2>2. commands' \in Seq(Command) /\ UNCHANGED <<retained, online,
                                                  reports>> /\ faults' \subseteq AllFaults
    BY <1>1, <1>4, StrikeTypes DEF SendStart, SendStop, Sent, Refused, link
  <2> QED
    BY <1>4, <2>1, <2>2 DEF SendStart, SendStop, database, telemetry
<1>5. ASSUME NEW t \in Tx, Create(t) \/ MarkStopping(t) PROVE DataTypes'
  <2>1. requests' \subseteq Requests
    BY <1>2, <1>5 DEF Create, MarkStopping
  <2>2. rows' \in [Tx -> RowStates]
    BY <1>5 DEF Create, MarkStopping, RowStates
  <2> QED
    BY <1>5, <2>1, <2>2 DEF Create, MarkStopping, telemetry, link
<1>6. CASE RequestFails
  BY <1>6, StrikeTypes DEF RequestFails, database, telemetry, link
<1> QED
  BY <1>3, <1>4, <1>5, <1>6 DEF Api

LEMMA HandlingTypes ==
  ASSUME NEW r \in Report
  PROVE  /\ Handling(r) \in [step : WorkSteps, tx : MaybeTx, event : EventTypes, sequence : Nat]
         /\ Handling(r).step = StepFor(r)
         /\ Handling(r).step # "idle" => Handling(r).tx = r.tx /\ r.tx \in Tx
<1>1. StepFor(r) \in WorkSteps /\ (r.tx = NoTx => StepFor(r) = "idle")
  BY DEF StepFor, AfterState, AfterEnd, AfterMeter, WorkSteps, Report
<1>2. r.tx \in MaybeTx
  BY DEF Report
<1> QED
  BY <1>1, <1>2 DEF Handling, Idle, WorkSteps, EventTypes, MaybeTx

LEMMA TelemetryTypes ==
  ASSUME DataTypes, Telemetry
  PROVE  DataTypes'
<1> USE DEF DataTypes
<1> DEFINE Works == [step : WorkSteps, tx : MaybeTx, event : EventTypes, sequence : Nat]
<1>1. Idle \in Works /\ Idle.step = "idle"
  BY DEF Idle, WorkSteps, MaybeTx, EventTypes
<1>2. \A t \in Tx : Len(outbox[t]) \in Nat
  OBVIOUS
<1>3. CASE Find
  <2>1. Head(chain) \in Report /\ chain' \in Seq(Report)
    BY <1>3, TailTypes DEF Find
  <2>2. Handling(Head(chain)) \in Works
        /\ (Handling(Head(chain)).step # "idle" => Handling(Head(chain)).tx \in Tx)
    BY <2>1, HandlingTypes
  <2> QED
    BY <1>3, <2>1, <2>2 DEF Find, database, link
<1>4. CASE StopDevice
  <2>1. work.tx \in Tx
    BY <1>4 DEF StopDevice, At
  <2>2. commands' \in Seq(Command)
    BY <1>4, <2>1, AppendTypes DEF StopDevice, Send, Command
  <2> QED
    BY <1>1, <1>4, <2>2 DEF StopDevice, Send, database
<1>5. CASE Confirm \/ Finish
  <2>1. work.tx \in Tx
    BY <1>5 DEF Confirm, Finish, At
  <2>2. rows' \in [Tx -> RowStates]
    BY <1>5 DEF Confirm, Finish, Update, RowStates
  <2>3. work' \in Works /\ (work'.step # "idle" => work'.tx \in Tx)
    BY <1>1, <1>5, <2>1 DEF Confirm, Finish, Update, WorkSteps, EventTypes
  <2> QED
    BY <1>5, <2>2, <2>3 DEF Confirm, Finish, link
<1>6. CASE CountDeliveries
  <2>1. work.tx \in Tx
    BY <1>6 DEF CountDeliveries, At
  <2>2. work' \in Works /\ work'.tx \in Tx
    BY <1>2, <1>6, <2>1 DEF CountDeliveries, Counted, WorkSteps
  <2> QED
    BY <1>6, <2>2 DEF CountDeliveries, database, link
<1>7. CASE InsertDelivery
  <2>1. work.tx \in Tx /\ Delivery(work.event, work.sequence) \in Event
    BY <1>7 DEF InsertDelivery, At, Delivery, Event
  <2>2. outbox' \in [Tx -> Seq(Event)]
    BY <1>7, <2>1, AppendTypes DEF InsertDelivery, Insert
  <2> QED
    BY <1>1, <1>7, <2>2 DEF InsertDelivery, link
<1>8. CASE WorkFails
  BY <1>1, <1>8, StrikeTypes DEF WorkFails, database, link
<1>9. ASSUME NEW expired \in SUBSET Tx, SweepStartTimeouts(expired) PROVE DataTypes'
  <2>1. rows' \in [Tx -> RowStates] /\ sweep' \subseteq SweepEntry
    BY <1>9 DEF SweepStartTimeouts, RowStates, SweepEntry
  <2> QED
    BY <1>9, <2>1 DEF SweepStartTimeouts, link
<1>10. ASSUME NEW s \in sweep, SweepCount(s) PROVE DataTypes'
  <2>1. s \in SweepEntry /\ s.tx \in Tx
    BY DEF SweepEntry
  <2>2. [s EXCEPT !.step = "insert", !.sequence = Counted(s.tx)] \in SweepEntry
    BY <1>2, <2>1 DEF SweepEntry, Counted
  <2> QED
    BY <1>10, <2>2 DEF SweepCount, database, link
<1>11. ASSUME NEW s \in sweep, SweepInsert(s) PROVE DataTypes'
  <2>1. s.tx \in Tx /\ Delivery("TransactionFailed", s.sequence) \in Event
    BY DEF Delivery, Event, EventTypes, SweepEntry
  <2>2. outbox' \in [Tx -> Seq(Event)]
    BY <1>11, <2>1, AppendTypes DEF SweepInsert, Insert
  <2> QED
    BY <1>11, <2>2 DEF SweepInsert, link
<1>12. CASE SweepFails
  BY <1>12, StrikeTypes DEF SweepFails, database, link
<1>14. CASE Crash
  <2>1. <<>> \in Seq(Report)
    OBVIOUS
  <2> QED
    BY <1>1, <1>14, <2>1, StrikeTypes DEF Crash, database, link
<1>13. CASE Restart \/ Rejoin
  <2>1. StateReport(retained) \in Report
    BY DEF StateReport, Report
  <2>2. Append(chain, StateReport(retained)) \in Seq(Report)
    BY <2>1, AppendTypes
  <2>3. <<StateReport(retained)>> \in Seq(Report)
    BY <2>1
  <2>4. chain' \in Seq(Report)
    BY <1>13, <2>2, <2>3 DEF Restart, Rejoin
  <2> QED
    BY <1>13, <2>4, StrikeTypes DEF Restart, Rejoin, database, link
<1> QED
  BY <1>3, <1>4, <1>5, <1>6, <1>7, <1>8, <1>9, <1>10, <1>11, <1>12, <1>13,
     <1>14 DEF Telemetry, Work

\* The state is always of its type, whatever is lost, restarted or handled late.
THEOREM TypeCorrect == Spec => []TypeOK
<1>1. Init => TypeOK
  <2>1. Init => DataTypes
    BY DEF Init, DataTypes, Idle, RowStates, WorkSteps, EventTypes, MaybeTx
  <2>2. Init => Switches
    BY Zenon DEF Init, Switches
  <2> QED
    BY <2>1, <2>2, TypesSplit
<1>2. TypeOK /\ UNCHANGED vars => TypeOK'
  <2>1. DataTypes /\ UNCHANGED vars => DataTypes'
    BY DEF DataTypes, vars, database, telemetry, link
  <2>2. Switches /\ UNCHANGED vars => Switches'
    BY Zenon DEF Switches, vars, telemetry, link
  <2> QED
    BY <2>1, <2>2, TypesSplit DEF TypeOK, DataTypes, Switches
<1>3. TypeOK /\ Next => TypeOK'
  BY DeviceTypes, ApiTypes, TelemetryTypes, SwitchTypes, TypesSplit
     DEF Next, TypeOK, DataTypes, Switches
<1> QED
  BY <1>1, <1>2, <1>3, PTL DEF Spec

----------------------------------------------------------------------------
(* The inductive invariant                                                  *)

\* What the tenant may have been told, by the state of the row.
RowsInv ==
  \A t \in Tx :
    /\ rows[t] \in {"none", "starting"} => Told(t) = {}
    /\ rows[t] \in {"active", "stopping"} => "TransactionFailed" \notin Told(t)
    /\ rows[t] # "stopped" => "TransactionStopped" \notin Told(t)
    /\ rows[t] = "failed" => "TransactionStarted" \notin Told(t)
    /\ "TransactionStarted" \in Told(t) => "TransactionFailed" \notin Told(t)

\* A failure that is still to be told is that of a row that failed, once.
SweepInv ==
  /\ \A s \in sweep :
       /\ rows[s.tx] \in {"failed", "stopped"}
       /\ "TransactionStarted" \notin Told(s.tx)
       /\ "TransactionFailed" \notin Told(s.tx)
  /\ \A r, s \in sweep : r.tx = s.tx => r = s

Recording == work.step \in {"count", "insert"}

\* What the handler is about to tell is true, and was not told before.
WorkInv ==
  Recording =>
    /\ work.event # "TransactionFailed"
    /\ work.event \in {"TransactionStarted", "MeterValues"}
         => rows[work.tx] \in {"active", "stopping"}
    /\ work.event = "TransactionStarted" => Told(work.tx) = {}
    /\ work.event = "TransactionStopped" =>
         rows[work.tx] = "stopped" /\ "TransactionStopped" \notin Told(work.tx)

IsProgress(e) == e.type \in {"TransactionStarted", "MeterValues"}

\* The numbers run behind the positions, and alongside while no sweep interferes.
OrderInv ==
  /\ \A t \in Tx : \A i \in DOMAIN outbox[t] : IsProgress(outbox[t][i]) => outbox[t][i].sequence <= i
  /\ work.step = "insert" =>
       /\ work.sequence <= Len(outbox[work.tx])
       /\ "TransactionFailed" \notin Told(work.tx) => work.sequence = Len(outbox[work.tx])
       /\ work.event = "TransactionStopped" =>
            \A i \in DOMAIN outbox[work.tx] :
              IsProgress(outbox[work.tx][i]) => outbox[work.tx][i].sequence <= work.sequence

RecordInv == RowsInv /\ SweepInv /\ WorkInv /\ OrderInv /\ NothingFollowsTheStop

\* What the following are about, as long as connections lost are all that happens.
Reliable == faults \subseteq {"drop"}

Ending(sequence, t) == \E j \in DOMAIN sequence : sequence[j] = EndReport(t)

ActiveRuns(t) ==
  rows[t] = "active" \/ (work.step = "confirm" /\ work.tx = t)
    => \/ running = t
       \/ Ending(reports, t) \/ Ending(chain, t)
       \/ work.step = "finish" /\ work.tx = t

\* A report that t runs is outdated only by an end that comes after it.
StatesAreTrue(t) ==
  /\ \A i \in DOMAIN chain : chain[i] = StateReport(t) =>
       \/ running = t
       \/ \E j \in (i + 1)..Len(chain) : chain[j] = EndReport(t)
       \/ Ending(reports, t)
  /\ \A i \in DOMAIN reports : reports[i] = StateReport(t) =>
       \/ running = t
       \/ \E j \in (i + 1)..Len(reports) : reports[j] = EndReport(t)

LinkInv ==
  Reliable => /\ up = TRUE
              /\ \A t \in Tx : ActiveRuns(t) /\ StatesAreTrue(t)

\* What the state of a row was to be told of, and is not in the outbox.
Untold(t) ==
  \/ rows[t] = "active" /\ "TransactionStarted" \notin Told(t)
  \/ rows[t] = "stopped" /\ "TransactionStopped" \notin Told(t)

BeingTold(t) ==
  /\ Recording /\ work.tx = t
  /\ \/ rows[t] = "active" /\ work.event = "TransactionStarted"
     \/ rows[t] = "stopped" /\ work.event = "TransactionStopped"

Lost == {t \in Tx : Untold(t) /\ ~BeingTold(t)}

LossInv == IsFiniteSet(Lost) /\ Cardinality(Lost) <= Cardinality(Failures)

IInv == TypeOK /\ RecordInv /\ LinkInv /\ LossInv

----------------------------------------------------------------------------
(* The records                                                              *)

LEMMA InsertTells ==
  ASSUME outbox \in [Tx -> Seq(Event)], NEW t \in Tx, NEW d \in Event, Insert(t, d)
  PROVE  /\ Len(outbox[t]) \in Nat /\ DOMAIN outbox[t] = 1..Len(outbox[t])
         /\ DOMAIN outbox'[t] = 1..(Len(outbox[t]) + 1)
         /\ Len(outbox'[t]) = Len(outbox[t]) + 1
         /\ outbox'[t][Len(outbox[t]) + 1] = d
         /\ \A i \in 1..Len(outbox[t]) : outbox'[t][i] = outbox[t][i]
         /\ Told(t)' = Told(t) \cup {d.type}
         /\ \A u \in Tx \ {t} : outbox'[u] = outbox[u] /\ Told(u)' = Told(u)
<1>1. outbox'[t] = Append(outbox[t], d) /\ \A u \in Tx \ {t} : outbox'[u] = outbox[u]
  BY DEF Insert
<1>2. /\ Len(outbox[t]) \in Nat /\ DOMAIN outbox[t] = 1..Len(outbox[t])
      /\ DOMAIN outbox'[t] = 1..(Len(outbox[t]) + 1)
      /\ Len(outbox'[t]) = Len(outbox[t]) + 1
      /\ outbox'[t][Len(outbox[t]) + 1] = d
      /\ \A i \in 1..Len(outbox[t]) : outbox'[t][i] = outbox[t][i]
  BY <1>1, AppendTypes
<1>3. Told(t)' = Told(t) \cup {d.type}
  <2>1. Range(outbox'[t]) = Range(outbox[t]) \cup {d}
    BY <1>2 DEF Range
  <2> QED
    BY <2>1 DEF Told
<1> QED
  BY <1>1, <1>2, <1>3 DEF Told

\* A step that writes nothing, and at most gives up what is under way.
LEMMA QuietKeeps ==
  ASSUME TypeOK, TypeOK', RecordInv, UNCHANGED <<rows, outbox>>,
                                                 work' = work \/ work' = Idle,
         sweep' \subseteq sweep
  PROVE  RecordInv'
<1>1. \A t \in Tx : Told(t)' = Told(t)
  BY DEF Told
<1>2. RowsInv' /\ NothingFollowsTheStop'
  BY <1>1 DEF RecordInv, RowsInv, NothingFollowsTheStop
<1>3. \A s \in sweep : s.tx \in Tx
  BY DEF TypeOK, SweepEntry
<1>4. SweepInv'
  BY <1>1, <1>3 DEF RecordInv, SweepInv
<1>5. CASE work' = Idle
  BY <1>1, <1>2, <1>4, <1>5 DEF RecordInv, WorkInv, OrderInv, Recording, Idle
<1>6. CASE work' = work
  <2>1. work.step # "idle" => work.tx \in Tx
    BY DEF TypeOK
  <2>2. WorkInv'
    BY <1>1, <1>6, <2>1 DEF RecordInv, WorkInv, Recording
  <2>3. OrderInv'
    BY <1>1, <1>6, <2>1 DEF RecordInv, OrderInv
  <2> QED
    BY <1>2, <1>4, <2>2, <2>3 DEF RecordInv
<1> QED
  BY <1>5, <1>6

\* The API moves a row before the device confirms it, or on to stopping.
LEMMA ApiMoveKeeps ==
  ASSUME TypeOK, TypeOK', RecordInv, NEW t \in Tx, Create(t) \/ MarkStopping(t)
  PROVE  RecordInv'
<1>1. UNCHANGED <<outbox, work, sweep>>
  BY DEF Create, MarkStopping, telemetry
<1>2. \A u \in Tx : Told(u)' = Told(u)
  BY <1>1 DEF Told
<1>3. /\ \A u \in Tx \ {t} : rows'[u] = rows[u]
      /\ \/ rows'[t] = rows[t]
         \/ rows[t] = "none" /\ rows'[t] = "starting"
         \/ rows[t] \in {"starting", "active"} /\ rows'[t] = "stopping"
  BY DEF Create, MarkStopping, TypeOK
<1>4. RowsInv'
  BY <1>2, <1>3 DEF RecordInv, RowsInv
<1>5. \A s \in sweep : s.tx \in Tx
  BY DEF TypeOK, SweepEntry
<1>6. SweepInv'
  BY <1>1, <1>2, <1>3, <1>5 DEF RecordInv, SweepInv
<1>7. work.step # "idle" => work.tx \in Tx
  BY DEF TypeOK
<1>8. WorkInv'
  BY <1>1, <1>2, <1>3, <1>7 DEF RecordInv, WorkInv, Recording
<1>9. OrderInv' /\ NothingFollowsTheStop'
  BY <1>1, <1>2, <1>7 DEF RecordInv, OrderInv, NothingFollowsTheStop
<1> QED
  BY <1>4, <1>6, <1>8, <1>9 DEF RecordInv

LEMMA FindKeeps ==
  ASSUME TypeOK, TypeOK', RecordInv, Find
  PROVE  RecordInv'
<1> DEFINE r == Head(chain)
<1>1. UNCHANGED <<rows, outbox, sweep>> /\ work' = Handling(r) /\ r \in Report
  BY TailTypes DEF Find, database, TypeOK
<1>2. \A u \in Tx : Told(u)' = Told(u)
  BY <1>1 DEF Told
<1>3. \A s \in sweep : s.tx \in Tx
  BY DEF TypeOK, SweepEntry
<1>4. RowsInv' /\ SweepInv' /\ NothingFollowsTheStop'
  BY <1>1, <1>2, <1>3 DEF RecordInv, RowsInv, SweepInv, NothingFollowsTheStop
<1>5. /\ work'.step \notin {"insert"}
      /\ work'.step = "count" => work'.event = "MeterValues" /\ rows[work'.tx] \in {"active", "stopping"}
  <2> HIDE DEF r
  <2> QED
    BY <1>1 DEF Handling, StepFor, AfterState, AfterEnd, AfterMeter, Idle, Report
<1>6. WorkInv' /\ OrderInv'
  BY <1>1, <1>2, <1>5 DEF RecordInv, WorkInv, OrderInv, Recording
<1> QED
  BY <1>4, <1>6 DEF RecordInv

\* The handler moves a row: its event is due.
LEMMA UpdateKeeps ==
  ASSUME TypeOK, TypeOK', RecordInv, Confirm \/ Finish
  PROVE  RecordInv'
<1> DEFINE t == work.tx
<1>1. UNCHANGED <<outbox, sweep>> /\ t \in Tx /\ ~Recording
  BY DEF Confirm, Finish, At, telemetry, TypeOK, Recording
<1>2. \A u \in Tx : Told(u)' = Told(u)
  BY <1>1 DEF Told
<1>3. CASE UNCHANGED rows /\ work' = Idle
  BY <1>1, <1>3, QuietKeeps
<1>4. CASE /\ \A u \in Tx \ {t} : rows'[u] = rows[u]
           /\ work' = [work EXCEPT !.step = "count", !.event = "TransactionStarted"]
           /\ rows[t] = "starting" /\ rows'[t] = "active"
  <2>1. work'.step = "count" /\ work'.event = "TransactionStarted" /\ work'.tx = t
    BY <1>4 DEF TypeOK
  <2>2. RowsInv'
    BY <1>1, <1>2, <1>4 DEF RecordInv, RowsInv
  <2>3. \A s \in sweep : s.tx \in Tx \ {t}
    BY <1>4 DEF TypeOK, SweepEntry, RecordInv, SweepInv
  <2>4. SweepInv'
    BY <1>1, <1>2, <1>4, <2>3 DEF RecordInv, SweepInv
  <2>5. WorkInv'
    BY <1>1, <1>2, <1>4, <2>1 DEF RecordInv, WorkInv, RowsInv
  <2>6. OrderInv' /\ NothingFollowsTheStop'
    BY <1>1, <1>2, <2>1 DEF RecordInv, OrderInv, NothingFollowsTheStop
  <2> QED
    BY <2>2, <2>4, <2>5, <2>6 DEF RecordInv
<1>5. CASE /\ \A u \in Tx \ {t} : rows'[u] = rows[u]
           /\ work' = [work EXCEPT !.step = "count", !.event = "TransactionStopped"]
           /\ rows[t] # "stopped" /\ rows'[t] = "stopped"
  <2>1. work'.step = "count" /\ work'.event = "TransactionStopped" /\ work'.tx = t
    BY <1>5 DEF TypeOK
  <2>2. RowsInv'
    BY <1>1, <1>2, <1>5 DEF RecordInv, RowsInv
  <2>3. \A s \in sweep : s.tx \in Tx
    BY DEF TypeOK, SweepEntry
  <2>4. SweepInv'
    BY <1>1, <1>2, <1>5, <2>3 DEF RecordInv, SweepInv
  <2>5. WorkInv'
    BY <1>1, <1>2, <1>5, <2>1 DEF RecordInv, WorkInv, RowsInv
  <2>6. OrderInv' /\ NothingFollowsTheStop'
    BY <1>1, <1>2, <2>1 DEF RecordInv, OrderInv, NothingFollowsTheStop
  <2> QED
    BY <2>2, <2>4, <2>5, <2>6 DEF RecordInv
<1> QED
  BY <1>1, <1>3, <1>4, <1>5 DEF Confirm, Finish, Update, TypeOK

LEMMA CountKeeps ==
  ASSUME TypeOK, TypeOK', RecordInv, CountDeliveries
  PROVE  RecordInv'
<1> DEFINE t == work.tx
<1>1. UNCHANGED <<rows, outbox, sweep>> /\ t \in Tx /\ work.step = "count"
  BY DEF CountDeliveries, At, database, TypeOK
<1>2. \A u \in Tx : Told(u)' = Told(u)
  BY <1>1 DEF Told
<1>3. /\ work'.step = "insert" /\ work'.sequence = Len(outbox[t])
      /\ work'.tx = t /\ work'.event = work.event
  BY DEF CountDeliveries, Counted, TypeOK
<1>4. \A s \in sweep : s.tx \in Tx
  BY DEF TypeOK, SweepEntry
<1>5. RowsInv' /\ SweepInv' /\ WorkInv' /\ NothingFollowsTheStop'
  BY <1>1, <1>2, <1>3, <1>4
     DEF RecordInv, RowsInv, SweepInv, WorkInv, Recording, NothingFollowsTheStop
<1>6. OrderInv'
  <2>1. Len(outbox[t]) \in Nat /\ DOMAIN outbox[t] = 1..Len(outbox[t])
        /\ \A i \in DOMAIN outbox[t] : outbox[t][i].sequence \in Nat
    <3>1. outbox[t] \in Seq(Event)
      BY <1>1 DEF TypeOK
    <3>2. \A i \in 1..Len(outbox[t]) : outbox[t][i] \in Event
      BY <3>1
    <3> QED
      BY <3>1, <3>2 DEF Event
  <2> QED
    BY <1>1, <1>2, <1>3, <2>1 DEF RecordInv, OrderInv
<1> QED
  BY <1>5, <1>6 DEF RecordInv

LEMMA InsertDeliveryKeeps ==
  ASSUME TypeOK, TypeOK', RecordInv, InsertDelivery
  PROVE  RecordInv'
<1>a. PICK t \in Tx : t = work.tx
  BY DEF InsertDelivery, At, TypeOK
<1>b. PICK seq \in Nat : seq = work.sequence
  BY DEF TypeOK
<1>c. PICK event \in EventTypes : event = work.event
  BY DEF TypeOK
<1>d. PICK n \in Nat : n = Len(outbox[t])
  BY DEF TypeOK
<1> DEFINE d == Delivery(event, seq)
<1>1. /\ UNCHANGED <<rows, sweep>> /\ work' = Idle /\ t \in Tx /\ work.step = "insert"
      /\ Insert(t, d)
  BY <1>a, <1>b, <1>c DEF InsertDelivery, At, TypeOK
<1>2. d \in Event /\ d.type = event /\ d.sequence = seq + 1 /\ seq \in Nat
      /\ event \in EventTypes
  BY DEF Delivery, Event
<1> HIDE DEF d
<1>3. /\ n \in Nat /\ DOMAIN outbox[t] = 1..n
      /\ DOMAIN outbox'[t] = 1..(n + 1)
      /\ outbox'[t][n + 1] = d
      /\ \A i \in 1..n : outbox'[t][i] = outbox[t][i]
      /\ Told(t)' = Told(t) \cup {event}
      /\ \A u \in Tx \ {t} : outbox'[u] = outbox[u] /\ Told(u)' = Told(u)
  BY <1>d, <1>1, <1>2, InsertTells DEF TypeOK
<1>4. \A i \in 1..n : outbox[t][i].type \in Told(t)
  BY <1>3 DEF Told, Range
<1>5. /\ event # "TransactionFailed"
      /\ event \in {"TransactionStarted", "MeterValues"} => rows[t] \in {"active", "stopping"}
      /\ event = "TransactionStarted" => Told(t) = {}
      /\ event = "TransactionStopped" => rows[t] = "stopped" /\ "TransactionStopped" \notin Told(t)
      /\ seq <= n
      /\ "TransactionFailed" \notin Told(t) => seq = n
      /\ event = "TransactionStopped" =>
           \A i \in 1..n : IsProgress(outbox[t][i]) => outbox[t][i].sequence <= seq
  BY <1>a, <1>b, <1>c, <1>d, <1>1, <1>3 DEF RecordInv, WorkInv, OrderInv, Recording
<1>6. RowsInv'
  <2>1. ASSUME NEW u \in Tx \ {t} PROVE Told(u)' = Told(u) /\ rows'[u] = rows[u]
    BY <1>1, <1>3
  <2>2. event \in {"TransactionStarted", "TransactionStopped", "MeterValues"}
    BY <1>2, <1>5 DEF EventTypes
  <2>3. /\ rows[t] \notin {"none", "starting", "failed"}
        /\ "TransactionFailed" \in Told(t) => event # "TransactionStarted"
        /\ rows[t] # "stopped" => event # "TransactionStopped"
    BY <1>5, <2>2
  <2> QED
    BY <1>1, <1>3, <1>5, <2>1, <2>2, <2>3 DEF RecordInv, RowsInv
<1>7. SweepInv'
  <2>1. ASSUME NEW s \in sweep
        PROVE  /\ "TransactionStarted" \notin Told(s.tx)'
               /\ "TransactionFailed" \notin Told(s.tx)'
    <3>1. s.tx \in Tx /\ rows[s.tx] \in {"failed", "stopped"}
      BY DEF TypeOK, SweepEntry, RecordInv, SweepInv
    <3> QED
      BY <1>3, <1>5, <3>1 DEF RecordInv, SweepInv
  <2> QED
    BY <1>1, <2>1 DEF RecordInv, SweepInv
<1>8. WorkInv'
  BY <1>1 DEF WorkInv, Recording, Idle
<1>9. OrderInv'
  <2>1. work'.step # "insert"
    BY <1>1 DEF Idle
  <2>2. ASSUME NEW i \in 1..(n + 1), IsProgress(outbox'[t][i]) PROVE outbox'[t][i].sequence <= i
    <3>1. CASE i = n + 1
      BY <1>2, <1>3, <1>5, <3>1
    <3>2. CASE i \in 1..n
      BY <1>3, <2>2, <3>2 DEF RecordInv, OrderInv
    <3> QED
      BY <1>3, <3>1, <3>2
  <2> QED
    BY <1>3, <2>1, <2>2 DEF RecordInv, OrderInv
<1>10. NothingFollowsTheStop'
  <2>1. ASSUME NEW i \in 1..(n + 1), NEW j \in 1..(n + 1),
               outbox'[t][i].type = "TransactionStopped",
               outbox'[t][j].type \in {"TransactionStarted", "MeterValues"}
        PROVE  j < i /\ outbox'[t][j].sequence < outbox'[t][i].sequence
    <3>1. CASE i \in 1..n /\ j \in 1..n
      BY <1>1, <1>3, <2>1, <3>1 DEF RecordInv, NothingFollowsTheStop
    <3>2. CASE i \in 1..n /\ j = n + 1
      <4>1. "TransactionStopped" \in Told(t) /\ rows[t] \in {"active", "stopping"}
        BY <1>2, <1>3, <1>4, <1>5, <2>1, <3>2
      <4> QED
        BY <1>1, <4>1 DEF RecordInv, RowsInv
    <3>3. CASE i = n + 1 /\ j \in 1..n
      <4>1. outbox[t][j].sequence <= seq /\ outbox[t][j] \in Event
        BY <1>1, <1>2, <1>3, <1>5, <2>1, <3>3 DEF IsProgress, TypeOK
      <4> QED
        BY <1>2, <1>3, <3>3, <4>1 DEF Event
    <3>4. CASE i = n + 1 /\ j = n + 1
      BY <1>3, <2>1, <3>4
    <3> QED
      BY <1>3, <3>1, <3>2, <3>3, <3>4
  <2>2. ASSUME "TransactionFailed" \notin Told(t)', NEW i \in 1..(n + 1)
        PROVE  outbox'[t][i].sequence = i
    <3>1. CASE i \in 1..n
      BY <1>1, <1>3, <2>2, <3>1 DEF RecordInv, NothingFollowsTheStop
    <3>2. CASE i = n + 1
      BY <1>2, <1>3, <1>5, <2>2, <3>2
    <3> QED
      BY <1>3, <3>1, <3>2
  <2> QED
    BY <1>3, <2>1, <2>2 DEF RecordInv, NothingFollowsTheStop
<1> QED
  BY <1>6, <1>7, <1>8, <1>9, <1>10 DEF RecordInv

LEMMA SweepKeeps ==
  ASSUME TypeOK, TypeOK', RecordInv, NEW expired \in SUBSET Tx, SweepStartTimeouts(expired)
  PROVE  RecordInv'
<1>1. UNCHANGED <<outbox, work>>
  BY DEF SweepStartTimeouts
<1>2. \A u \in Tx : Told(u)' = Told(u)
  BY <1>1 DEF Told
<1>3. /\ \A u \in Tx \ expired : rows'[u] = rows[u]
      /\ \A u \in expired : rows[u] = "starting" /\ rows'[u] = "failed" /\ Told(u) = {}
      /\ sweep' = sweep \cup {[tx |-> t, step |-> "count", sequence |-> 0] : t \in expired}
  BY DEF SweepStartTimeouts, RecordInv, RowsInv
<1>4. RowsInv'
  BY <1>2, <1>3 DEF RecordInv, RowsInv
<1>5. \A s \in sweep : s.tx \in Tx \ expired
  BY <1>3 DEF TypeOK, SweepEntry, RecordInv, SweepInv
<1>6. ASSUME NEW s \in sweep', s \notin sweep
      PROVE  s.tx \in expired /\ s = [tx |-> s.tx, step |-> "count", sequence |-> 0]
  <2>1. PICK t \in expired : s = [tx |-> t, step |-> "count", sequence |-> 0]
    BY <1>3, <1>6
  <2> QED
    BY <2>1
<1>7. SweepInv'
  BY <1>2, <1>3, <1>5, <1>6 DEF RecordInv, SweepInv
<1>8. work.step # "idle" => work.tx \in Tx
  BY DEF TypeOK
<1>9. WorkInv'
  BY <1>1, <1>2, <1>3, <1>8 DEF RecordInv, WorkInv, Recording
<1>10. OrderInv' /\ NothingFollowsTheStop'
  BY <1>1, <1>2, <1>8 DEF RecordInv, OrderInv, NothingFollowsTheStop
<1> QED
  BY <1>4, <1>7, <1>9, <1>10 DEF RecordInv

LEMMA SweepCountKeeps ==
  ASSUME TypeOK, TypeOK', RecordInv, NEW s \in sweep, SweepCount(s)
  PROVE  RecordInv'
<1> DEFINE q == [s EXCEPT !.step = "insert", !.sequence = Counted(s.tx)]
<1>1. UNCHANGED <<rows, outbox, work>> /\ sweep' = (sweep \ {s}) \cup {q}
  BY DEF SweepCount, database
<1>2. q.tx = s.tx /\ \A r \in sweep : r.tx \in Tx
  BY DEF TypeOK, SweepEntry
<1> HIDE DEF q
<1>3. \A u \in Tx : Told(u)' = Told(u)
  BY <1>1 DEF Told
<1>4. SweepInv'
  BY <1>1, <1>2, <1>3 DEF RecordInv, SweepInv
<1>5. work.step # "idle" => work.tx \in Tx
  BY DEF TypeOK
<1>6. RowsInv' /\ WorkInv' /\ OrderInv' /\ NothingFollowsTheStop'
  BY <1>1, <1>3, <1>5
     DEF RecordInv, RowsInv, WorkInv, Recording, OrderInv, NothingFollowsTheStop
<1> QED
  BY <1>4, <1>6 DEF RecordInv

LEMMA SweepInsertKeeps ==
  ASSUME TypeOK, TypeOK', RecordInv, NEW s \in sweep, SweepInsert(s)
  PROVE  RecordInv'
<1> DEFINE t == s.tx
           d == Delivery("TransactionFailed", s.sequence)
<1>0. PICK n \in Nat : n = Len(outbox[t])
  BY DEF TypeOK, SweepEntry
<1>1. UNCHANGED <<rows, work>> /\ sweep' = sweep \ {s} /\ Insert(t, d)
  BY DEF SweepInsert
<1>2. d \in Event /\ d.type = "TransactionFailed" /\ t \in Tx
  BY DEF Delivery, Event, EventTypes, TypeOK, SweepEntry
<1> HIDE DEF d
<1>3. /\ n \in Nat /\ DOMAIN outbox[t] = 1..n
      /\ DOMAIN outbox'[t] = 1..(n + 1) /\ Len(outbox'[t]) = n + 1
      /\ outbox'[t][n + 1] = d
      /\ \A i \in 1..n : outbox'[t][i] = outbox[t][i]
      /\ Told(t)' = Told(t) \cup {"TransactionFailed"}
      /\ \A u \in Tx \ {t} : outbox'[u] = outbox[u] /\ Told(u)' = Told(u)
  BY <1>0, <1>1, <1>2, InsertTells DEF TypeOK
<1>4. rows[t] \in {"failed", "stopped"} /\ "TransactionStarted" \notin Told(t)
  BY DEF RecordInv, SweepInv
<1>5. RowsInv'
  BY <1>1, <1>2, <1>3, <1>4 DEF RecordInv, RowsInv
<1>6. \A r \in sweep : r.tx \in Tx /\ (r.tx = t => r = s)
  BY DEF TypeOK, SweepEntry, RecordInv, SweepInv
<1>7. SweepInv'
  BY <1>1, <1>3, <1>6 DEF RecordInv, SweepInv
<1>8. Recording => work.tx \in Tx
  BY DEF TypeOK, Recording
<1>9. WorkInv'
  BY <1>1, <1>3, <1>4, <1>8 DEF RecordInv, WorkInv, Recording
<1>10. OrderInv'
  <2>1. ASSUME NEW u \in Tx, NEW i \in DOMAIN outbox'[u], IsProgress(outbox'[u][i])
        PROVE  outbox'[u][i].sequence <= i
    <3>1. CASE u = t
      <4>1. i # n + 1
        BY <1>2, <1>3, <2>1, <3>1 DEF IsProgress
      <4> QED
        BY <1>2, <1>3, <2>1, <3>1, <4>1 DEF RecordInv, OrderInv
    <3> QED
      BY <1>3, <2>1, <3>1 DEF RecordInv, OrderInv
  <2>2. CASE work.step = "insert"
    <3>1. PICK w \in Tx : w = work.tx /\ w = work'.tx
      BY <1>1, <1>8, <2>2 DEF Recording
    <3>2. /\ work.sequence \in Nat
          /\ work.sequence <= Len(outbox[w])
          /\ "TransactionFailed" \notin Told(w) => work.sequence = Len(outbox[w])
          /\ work.event = "TransactionStopped" =>
               \A i \in DOMAIN outbox[w] :
                 IsProgress(outbox[w][i]) => outbox[w][i].sequence <= work.sequence
      BY <2>2, <3>1 DEF RecordInv, OrderInv, TypeOK
    <3>3. /\ work.sequence <= Len(outbox'[w])
          /\ "TransactionFailed" \notin Told(w)' => work.sequence = Len(outbox'[w])
          /\ work.event = "TransactionStopped" =>
               \A i \in DOMAIN outbox'[w] :
                 IsProgress(outbox'[w][i]) => outbox'[w][i].sequence <= work.sequence
      <4>1. CASE w # t
        BY <1>3, <3>2, <4>1
      <4>2. CASE w = t
        <5>1. ASSUME work.event = "TransactionStopped", NEW i \in 1..(n + 1), IsProgress(outbox'[t][i])
              PROVE  outbox'[t][i].sequence <= work.sequence
          <6>1. i # n + 1
            BY <1>2, <1>3, <5>1 DEF IsProgress
          <6> QED
            BY <1>3, <3>2, <4>2, <5>1, <6>1
        <5> QED
          BY <1>3, <3>2, <4>2, <5>1
      <4> QED
        BY <4>1, <4>2
    <3>4. "TransactionFailed" \notin Told(work.tx)' => "TransactionFailed" \notin Told(w)'
      BY <3>1 DEF Told
    <3> QED
      BY <1>1, <2>1, <3>1, <3>3, <3>4 DEF OrderInv, IsProgress
  <2>3. CASE work.step # "insert"
    BY <1>1, <2>1, <2>3 DEF OrderInv, IsProgress
  <2> QED
    BY <2>2, <2>3
<1>11. NothingFollowsTheStop'
  <2>1. ASSUME NEW u \in Tx, NEW i \in DOMAIN outbox'[u], NEW j \in DOMAIN outbox'[u],
               outbox'[u][i].type = "TransactionStopped",
               outbox'[u][j].type \in {"TransactionStarted", "MeterValues"}
        PROVE  j < i /\ outbox'[u][j].sequence < outbox'[u][i].sequence
    <3>1. CASE u = t
      <4>1. i \in 1..n /\ j \in 1..n
        <5>1. i # n + 1
          BY <1>2, <1>3, <2>1, <3>1
        <5>2. j # n + 1
          BY <1>2, <1>3, <2>1, <3>1
        <5> QED
          BY <1>3, <2>1, <3>1, <5>1, <5>2
      <4> QED
        BY <1>2, <1>3, <2>1, <3>1, <4>1 DEF RecordInv, NothingFollowsTheStop
    <3> QED
      BY <1>3, <2>1, <3>1 DEF RecordInv, NothingFollowsTheStop
  <2> QED
    BY <1>2, <1>3, <2>1 DEF RecordInv, NothingFollowsTheStop
<1> QED
  BY <1>5, <1>7, <1>9, <1>10, <1>11 DEF RecordInv

LEMMA RecordsKept ==
  ASSUME TypeOK, TypeOK', RecordInv, [Next]_vars
  PROVE  RecordInv'
<1>1. ASSUME \/ Device \/ WorkFails \/ SweepFails \/ Crash \/ Restart \/ Rejoin \/ StopDevice
             \/ RequestFails \/ UNCHANGED vars
             \/ \E t \in Tx : RequestStart(t) \/ SendStart(t) \/ RequestStop(t) \/ SendStop(t)
      PROVE  RecordInv'
  <2>1. UNCHANGED <<rows,
                    outbox>> /\ (work' = work \/ work' = Idle) /\ sweep' \subseteq sweep
    BY <1>1 DEF Device, DeviceCommand, ForcedOff, DeviceMeter, DeviceConnect,
      DeliverReport,
       DropConnection, Relay, Reboot, WorkFails, SweepFails, Crash, Restart, Rejoin, StopDevice,
       RequestFails, RequestStart, SendStart, RequestStop, SendStop, vars, database, telemetry
  <2> QED
    BY <2>1, QuietKeeps
<1> QED
  BY <1>1, ApiMoveKeeps, FindKeeps, UpdateKeeps, CountKeeps, InsertDeliveryKeeps,
    SweepKeeps,
     SweepCountKeeps, SweepInsertKeeps DEF Next, Api, Telemetry, Work

LEMMA RecordsBegin == Init /\ TypeOK => RecordInv
  BY DEF Init, RecordInv, RowsInv, SweepInv, WorkInv, OrderInv, NothingFollowsTheStop,
    Recording, Idle, Told, Range

\* What the database holds and the handlers are about to add to it.
THEOREM RecordsInvariant == Spec => []RecordInv
<1>1. Init /\ TypeOK => RecordInv
  BY RecordsBegin
<1>2. TypeOK /\ TypeOK' /\ RecordInv /\ [Next]_vars => RecordInv'
  BY RecordsKept
<1> QED
  BY <1>1, <1>2, TypeCorrect, PTL DEF Spec

\* Neither progress nor a start follows the stop, whatever races, is lost, arrives
\* twice, or dies between the count of the deliveries and the insertion.
THEOREM StopIsLast == Spec => []NothingFollowsTheStop
<1>1. RecordInv => NothingFollowsTheStop
  BY DEF RecordInv
<1> QED
  BY <1>1, RecordsInvariant, PTL

----------------------------------------------------------------------------
(* The lifecycle                                                            *)

Tells == [t \in Tx |-> Told(t) \ {"MeterValues"}]

LEMMA LifecycleBegins == Init => Lifecycle!Init
  BY DEF Init, Lifecycle!Init, Told, Range

LEMMA NothingToldStutters == UNCHANGED <<rows, outbox>> => UNCHANGED Lifecycle!vars
  BY DEF Lifecycle!vars, Told

\* A row that moves while nothing is written.
LEMMA MoveMoves ==
  ASSUME TypeOK, NEW t \in Tx, NEW from, rows[t] \in from, NEW to,
         rows' = [rows EXCEPT ![t] = to], UNCHANGED outbox
  PROVE  Lifecycle!Move(t, from, to)
  BY DEF Lifecycle!Move, Told

LEMMA ApiFollows ==
  ASSUME TypeOK, NEW t \in Tx, Create(t) \/ MarkStopping(t)
  PROVE  [Lifecycle!Next]_Lifecycle!vars
<1>1. CASE rows' = rows
  BY <1>1, NothingToldStutters DEF Create, MarkStopping
<1>2. CASE Create(t) /\ rows[t] = "none"
  <2>1. Lifecycle!Move(t, {"none"}, "starting")
    BY <1>2, MoveMoves DEF Create
  <2> QED
    BY <2>1 DEF Lifecycle!Next, Lifecycle!Request
<1>3. CASE MarkStopping(t) /\ rows[t] \in {"starting", "active"}
  <2>1. Lifecycle!Move(t, {"starting", "active"}, "stopping")
    BY <1>3, MoveMoves DEF MarkStopping
  <2> QED
    BY <2>1 DEF Lifecycle!Next, Lifecycle!RequestStop
<1> QED
  BY <1>1, <1>2, <1>3 DEF Create, MarkStopping, TypeOK

LEMMA UpdateFollows ==
  ASSUME TypeOK, Confirm \/ Finish
  PROVE  [Lifecycle!Next]_Lifecycle!vars
<1>1. PICK t \in Tx : t = work.tx
  BY DEF Confirm, Finish, At, TypeOK
<1>2. CASE rows' = rows
  BY <1>2, NothingToldStutters DEF Confirm, Finish
<1>3. CASE Confirm /\ rows[t] = "starting"
  <2>1. Lifecycle!Move(t, {"starting"}, "active")
    BY <1>1, <1>3, MoveMoves DEF Confirm, Update
  <2> QED
    BY <2>1 DEF Lifecycle!Next, Lifecycle!Confirm
<1>4. CASE Finish /\ rows[t] \in {"starting", "active", "stopping", "failed"}
  <2>1. Lifecycle!Move(t, {"starting", "active", "stopping", "failed"}, "stopped")
    BY <1>1, <1>4, MoveMoves DEF Finish, Update
  <2> QED
    BY <2>1 DEF Lifecycle!Next, Lifecycle!Finish
<1> QED
  BY <1>1, <1>2, <1>3, <1>4 DEF Confirm, Finish, Update

LEMMA SweepFollows ==
  ASSUME NEW expired \in SUBSET Tx, SweepStartTimeouts(expired)
  PROVE  Lifecycle!Next
<1>1. Lifecycle!Expire(expired)
  BY DEF SweepStartTimeouts, Lifecycle!Expire, Told
<1> QED
  BY <1>1 DEF Lifecycle!Next

\* An insertion tells of its event, unless the event is progress.
LEMMA InsertFollows ==
  ASSUME TypeOK, NEW t \in Tx, NEW d \in Event, Insert(t, d), UNCHANGED rows
  PROVE  /\ d.type = "MeterValues" => UNCHANGED Lifecycle!vars
         /\ d.type # "MeterValues" /\ d.type \notin Told(t) => Lifecycle!Tell(t, d.type)
<1>1. /\ Told(t)' = Told(t) \cup {d.type}
      /\ \A u \in Tx \ {t} : Told(u)' = Told(u)
  BY InsertTells DEF TypeOK
<1>2. Tells' = [u \in Tx |-> Told(u)' \ {"MeterValues"}]
  BY DEF Tells
<1>3. CASE d.type = "MeterValues"
  <2>1. Tells' = Tells
    BY <1>1, <1>2, <1>3 DEF Tells
  <2> QED
    BY <1>3, <2>1 DEF Tells, Lifecycle!vars
<1>4. CASE d.type # "MeterValues" /\ d.type \notin Told(t)
  <2>1. Tells' = [Tells EXCEPT ![t] = @ \cup {d.type}]
    BY <1>1, <1>2, <1>4 DEF Tells
  <2> QED
    BY <1>4, <2>1 DEF Tells, Lifecycle!Tell
<1> QED
  BY <1>3, <1>4

LEMMA DeliveryFollows ==
  ASSUME TypeOK, RecordInv, InsertDelivery
  PROVE  [Lifecycle!Next]_Lifecycle!vars
<1>1. PICK t \in Tx, event \in EventTypes, seq \in Nat :
        t = work.tx /\ event = work.event /\ seq = work.sequence
  BY DEF InsertDelivery, At, TypeOK
<1> DEFINE d == Delivery(event, seq)
<1>2. d \in Event /\ d.type = event
  BY DEF Delivery, Event
<1>3. Insert(t, d) /\ UNCHANGED rows /\ work.step = "insert"
  BY <1>1 DEF InsertDelivery, At
<1> HIDE DEF d
<1>4. CASE event = "MeterValues"
  BY <1>2, <1>3, <1>4, InsertFollows
<1>5. CASE event = "TransactionStarted"
  <2>1. rows[t] \in {"active", "stopping"} /\ Told(t) = {}
    BY <1>1, <1>3, <1>5 DEF RecordInv, WorkInv, Recording
  <2>2. Lifecycle!Tell(t, "TransactionStarted")
    BY <1>2, <1>3, <1>5, <2>1, InsertFollows
  <2>3. Lifecycle!TellStarted(t)
    BY <2>1, <2>2 DEF Lifecycle!TellStarted
  <2> QED
    BY <2>3 DEF Lifecycle!Next
<1>6. CASE event = "TransactionStopped"
  <2>1. rows[t] = "stopped" /\ "TransactionStopped" \notin Told(t)
    BY <1>1, <1>3, <1>6 DEF RecordInv, WorkInv, Recording
  <2>2. Lifecycle!Tell(t, "TransactionStopped")
    BY <1>2, <1>3, <1>6, <2>1, InsertFollows
  <2> QED
    BY <2>1, <2>2 DEF Lifecycle!TellStopped, Lifecycle!Next
<1>7. event # "TransactionFailed"
  BY <1>1, <1>3 DEF RecordInv, WorkInv, Recording
<1> QED
  BY <1>4, <1>5, <1>6, <1>7 DEF EventTypes

LEMMA FailureFollows ==
  ASSUME TypeOK, RecordInv, NEW s \in sweep, SweepInsert(s)
  PROVE  Lifecycle!Next
<1> DEFINE t == s.tx
           d == Delivery("TransactionFailed", s.sequence)
<1>1. t \in Tx /\ d \in Event /\ d.type = "TransactionFailed" /\ Insert(t, d) /\ UNCHANGED rows
  BY DEF TypeOK, SweepEntry, Delivery, Event, EventTypes, SweepInsert
<1>2. /\ rows[t] \in {"failed", "stopped"}
      /\ "TransactionStarted" \notin Told(t) /\ "TransactionFailed" \notin Told(t)
  BY DEF RecordInv, SweepInv
<1> HIDE DEF t, d
<1>3. Lifecycle!Tell(t, "TransactionFailed")
  BY <1>1, <1>2, InsertFollows
<1>4. Lifecycle!TellFailed(t)
  BY <1>1, <1>2, <1>3 DEF Lifecycle!TellFailed
<1> QED
  BY <1>1, <1>4 DEF Lifecycle!Next

LEMMA StepsFollow ==
  ASSUME TypeOK, RecordInv, [Next]_vars
  PROVE  [Lifecycle!Next]_Lifecycle!vars
<1>1. ASSUME \/ Device \/ WorkFails \/ SweepFails \/ Crash \/ Restart \/ Rejoin \/ StopDevice
             \/ RequestFails \/ Find \/ CountDeliveries \/ UNCHANGED vars
             \/ \E t \in Tx : RequestStart(t) \/ SendStart(t) \/ RequestStop(t) \/ SendStop(t)
             \/ \E s \in sweep : SweepCount(s)
      PROVE  UNCHANGED Lifecycle!vars
  <2>1. UNCHANGED <<rows, outbox>>
    BY <1>1 DEF Device, DeviceCommand, ForcedOff, DeviceMeter, DeviceConnect,
      DeliverReport,
       DropConnection, Reboot, WorkFails, SweepFails, Crash, Restart, Rejoin, StopDevice,
       RequestFails, Find, CountDeliveries, RequestStart, SendStart, RequestStop, SendStop,
       SweepCount, vars, database
  <2> QED
    BY <2>1, NothingToldStutters
<1> QED
  BY <1>1, ApiFollows, UpdateFollows, SweepFollows, DeliveryFollows, FailureFollows
     DEF Next, Api, Telemetry, Work

\* Rows and recorded events follow the lifecycle the tenant is promised.
THEOREM BackendKeepsLifecycle == Spec => ImplementsLifecycle
<1>1. Init => Lifecycle!Init
  BY LifecycleBegins
<1>2. TypeOK /\ RecordInv /\ [Next]_vars => [Lifecycle!Next]_Lifecycle!vars
  BY StepsFollow
<1> QED
  BY <1>1, <1>2, TypeCorrect, RecordsInvariant, PTL
     DEF Spec, ImplementsLifecycle, Lifecycle!Spec

----------------------------------------------------------------------------
(* Ends are heard of                                                        *)

LEMMA ReportsDiffer ==
  ASSUME NEW t, NEW u
  PROVE  /\ StateReport(t) # EndReport(u) /\ MeterReport(t) # StateReport(u)
         /\ StateReport(t) = StateReport(u) => t = u
         /\ EndReport(t) = EndReport(u) => t = u
  BY DEF StateReport, EndReport, MeterReport

\* Only what strikes adds to the faults, and anything but a lost connection ends the
\* claim.
LEMMA FaultsGrow ==
  ASSUME [Next]_vars
  PROVE  /\ Reliable' => Reliable
         /\ Reboot \/ RequestFails \/ WorkFails \/ SweepFails \/ Crash \/ Rejoin => ~Reliable'
  BY DEF Next, Device, Api, Telemetry, Work, DeviceCommand, ForcedOff, DeviceMeter,
     DeviceConnect, DeliverReport, DropConnection, Reboot, RequestStart, SendStart, Create,
     RequestStop, MarkStopping, SendStop, Sent, Refused, RequestFails, Find, StopDevice, Confirm,
     Finish, CountDeliveries, InsertDelivery, WorkFails, SweepStartTimeouts, SweepCount,
     SweepInsert, SweepFails, Crash, Restart, Rejoin, Occurs, Reliable, vars

\* The device reports what it runs, and the end of what it ran.
LEMMA SaysKeeps ==
  ASSUME TypeOK, TypeOK', NEW extra \in Seq(Report), reports' = reports \o extra,
         UNCHANGED <<rows, work, outbox, chain>>,
         \A i \in DOMAIN extra, t \in Tx : extra[i] = StateReport(t) => running' = t,
         running \in Tx /\ running' # running => Ending(extra, running),
         NEW t \in Tx, ActiveRuns(t), StatesAreTrue(t)
  PROVE  ActiveRuns(t)' /\ StatesAreTrue(t)'
<1>1. /\ reports \in Seq(Report) /\ reports' \in Seq(Report)
      /\ Len(reports) \in Nat /\ Len(extra) \in Nat
      /\ Len(reports') = Len(reports) + Len(extra)
      /\ DOMAIN reports = 1..Len(reports) /\ DOMAIN extra = 1..Len(extra)
      /\ DOMAIN reports' = 1..(Len(reports) + Len(extra))
      /\ \A i \in 1..Len(reports) : reports'[i] = reports[i]
      /\ \A i \in 1..Len(extra) : reports'[Len(reports) + i] = extra[i]
  BY DEF TypeOK
<1>2. Ending(reports, t) => Ending(reports, t)'
  BY <1>1 DEF Ending
<1>3. ASSUME running = t, running' # t
      PROVE  \E j \in (Len(reports) + 1)..Len(reports') : reports'[j] = EndReport(t)
  <2>1. PICK j \in 1..Len(extra) : extra[j] = EndReport(t)
    BY <1>1, <1>3 DEF Ending
  <2>2. reports'[Len(reports) + j] = EndReport(t) /\ Len(reports) + j \in (Len(reports) + 1)..Len(reports')
    BY <1>1, <2>1
  <2> QED
    BY <2>2
<1>4. running = t => running' = t \/ Ending(reports, t)'
  <2>1. \A j \in (Len(reports) + 1)..Len(reports') : j \in DOMAIN reports'
    BY <1>1
  <2> QED
    BY <1>3, <2>1 DEF Ending
<1>5. ActiveRuns(t)'
  BY <1>2, <1>4 DEF ActiveRuns, Ending
<1>6. ASSUME NEW i \in DOMAIN chain', chain'[i] = StateReport(t)
      PROVE  \/ running' = t
             \/ \E j \in (i + 1)..Len(chain') : chain'[j] = EndReport(t)
             \/ Ending(reports, t)'
  BY <1>2, <1>4, <1>6 DEF StatesAreTrue
<1>7. ASSUME NEW i \in DOMAIN reports', reports'[i] = StateReport(t), running' # t
      PROVE  \E j \in (i + 1)..Len(reports') : reports'[j] = EndReport(t)
  <2>1. i \in 1..Len(reports)
    <3>1. ASSUME i \notin 1..Len(reports) PROVE FALSE
      <4>1. PICK k \in 1..Len(extra) : i = Len(reports) + k
        BY <1>1, <3>1
      <4> QED
        BY <1>1, <1>7, <4>1
    <3> QED
      BY <3>1
  <2>2. CASE running = t
    BY <1>1, <1>3, <1>7, <2>1, <2>2
  <2>3. CASE running # t
    <3>1. PICK j \in (i + 1)..Len(reports) : reports[j] = EndReport(t)
      BY <1>1, <1>7, <2>1, <2>3 DEF StatesAreTrue
    <3> QED
      BY <1>1, <2>1, <3>1
  <2> QED
    BY <2>2, <2>3
<1>8. StatesAreTrue(t)'
  BY <1>6, <1>7 DEF StatesAreTrue, Ending
<1> QED
  BY <1>5, <1>8

LEMMA DeviceSpeaks ==
  ASSUME TypeOK, TypeOK', LinkInv, Reliable,
         DeviceCommand \/ ForcedOff \/ DeviceMeter \/ DeviceConnect
  PROVE  \A t \in Tx : ActiveRuns(t)' /\ StatesAreTrue(t)'
<1>1. \A t \in MaybeTx : StateReport(t) \in Report /\ EndReport(t) \in Report
                          /\ MeterReport(t) \in Report
  BY DEF StateReport, EndReport, MeterReport, Report
<1>2. running \in MaybeTx /\ running' \in MaybeTx /\ reports \in Seq(Report)
  BY DEF TypeOK
<1>3. UNCHANGED <<rows, work, outbox, chain>>
  BY DEF DeviceCommand, ForcedOff, DeviceMeter, DeviceConnect, database, telemetry
<1>4. \E extra \in Seq(Report) :
        /\ reports' = reports \o extra
        /\ \A i \in DOMAIN extra, t \in Tx : extra[i] = StateReport(t) => running' = t
        /\ running \in Tx /\ running' # running => Ending(extra, running)
  <2>1. CASE DeviceCommand
    <3> DEFINE ends == running # NoTx /\ (Head(commands).op = "start") # (running = Head(commands).tx)
    <3>1. CASE ends
      <4>1. reports' = reports \o <<EndReport(running), StateReport(running')>>
        BY <1>1, <1>2, <2>1, <3>1 DEF DeviceCommand
      <4>2. <<EndReport(running), StateReport(running')>> \in Seq(Report)
        BY <1>1, <1>2
      <4>3. Ending(<<EndReport(running), StateReport(running')>>, running)
        BY DEF Ending
      <4>4. ASSUME NEW i \in DOMAIN <<EndReport(running), StateReport(running')>>, NEW t \in Tx,
                   <<EndReport(running), StateReport(running')>>[i] = StateReport(t)
            PROVE  running' = t
        <5>1. i \in {1, 2}
          OBVIOUS
        <5> QED
          BY <4>4, <5>1, ReportsDiffer
      <4> WITNESS <<EndReport(running), StateReport(running')>> \in Seq(Report)
      <4> QED
        BY <4>1, <4>3, <4>4
    <3>2. CASE ~ends
      <4>1. reports' = reports \o <<StateReport(running')>>
        BY <1>2, <2>1, <3>2, ConcatEmptySeq DEF DeviceCommand
      <4>2. <<StateReport(running')>> \in Seq(Report)
        BY <1>1, <1>2
      <4>3. running \in Tx => running' = running
        BY <2>1, <3>2, ConstantsAssumption DEF DeviceCommand
      <4>4. \A i \in DOMAIN <<StateReport(running')>>, t \in Tx :
              <<StateReport(running')>>[i] = StateReport(t) => running' = t
        BY ReportsDiffer
      <4> WITNESS <<StateReport(running')>> \in Seq(Report)
      <4> QED
        BY <4>1, <4>3, <4>4
    <3> QED
      BY <3>1, <3>2
  <2>2. CASE ForcedOff
    <3>1. reports' = reports \o <<EndReport(running)>> /\ <<EndReport(running)>> \in Seq(Report)
      BY <1>1, <1>2, <2>2 DEF ForcedOff
    <3>2. Ending(<<EndReport(running)>>, running)
      BY DEF Ending
    <3>3. \A i \in DOMAIN <<EndReport(running)>>, t \in Tx :
            <<EndReport(running)>>[i] # StateReport(t)
      BY ReportsDiffer
    <3> USE <3>1
    <3> WITNESS <<EndReport(running)>> \in Seq(Report)
    <3> QED
      BY <3>1, <3>2, <3>3
  <2>3. CASE DeviceMeter
    <3>1. reports' = reports \o <<MeterReport(running)>> /\ <<MeterReport(running)>> \in Seq(Report)
      BY <1>1, <1>2, <2>3 DEF DeviceMeter
    <3>2. \A i \in DOMAIN <<MeterReport(running)>>, t \in Tx :
            <<MeterReport(running)>>[i] # StateReport(t)
      BY ReportsDiffer
    <3> USE <3>1
    <3> WITNESS <<MeterReport(running)>> \in Seq(Report)
    <3> QED
      BY <2>3, <3>1, <3>2 DEF DeviceMeter
  <2>4. CASE DeviceConnect
    <3>1. reports' = reports \o <<StateReport(running)>> /\ <<StateReport(running)>> \in Seq(Report)
      BY <1>1, <1>2, <2>4 DEF DeviceConnect
    <3>2. \A i \in DOMAIN <<StateReport(running)>>, t \in Tx :
            <<StateReport(running)>>[i] = StateReport(t) => running = t
      BY ReportsDiffer
    <3> USE <3>1
    <3> WITNESS <<StateReport(running)>> \in Seq(Report)
    <3> QED
      BY <2>4, <3>1, <3>2 DEF DeviceConnect
  <2> QED
    BY <2>1, <2>2, <2>3, <2>4
<1> QED
  BY <1>3, <1>4, SaysKeeps DEF LinkInv

\* What is passed on goes from the head of the reports to the tail of the chain.
LEMMA DeliveryKeeps ==
  ASSUME TypeOK, TypeOK', LinkInv, Reliable, DeliverReport
  PROVE  \A t \in Tx : ActiveRuns(t)' /\ StatesAreTrue(t)'
<1>1. up = TRUE
  BY DEF LinkInv
<1>2. /\ reports # <<>> /\ reports' = Tail(reports) /\ chain' = chain \o <<Head(reports)>>
      /\ UNCHANGED <<rows, outbox, work, running>>
  BY <1>1 DEF DeliverReport, Relay, database
<1>3. reports \in Seq(Report) /\ chain \in Seq(Report)
  BY DEF TypeOK
<1>4. /\ Len(reports) \in Nat /\ Len(chain) \in Nat /\ Len(reports) > 0
      /\ DOMAIN reports = 1..Len(reports) /\ DOMAIN chain = 1..Len(chain)
      /\ Len(reports') = Len(reports) - 1 /\ DOMAIN reports' = 1..(Len(reports) - 1)
      /\ Len(chain') = Len(chain) + 1 /\ DOMAIN chain' = 1..(Len(chain) + 1)
      /\ \A i \in 1..(Len(reports) - 1) : reports'[i] = reports[i + 1]
      /\ \A i \in 1..Len(chain) : chain'[i] = chain[i]
      /\ chain'[Len(chain) + 1] = reports[1]
  BY <1>2, <1>3
<1> SUFFICES ASSUME NEW t \in Tx
             PROVE  ActiveRuns(t)' /\ StatesAreTrue(t)'
  OBVIOUS
<1>5. ActiveRuns(t) /\ StatesAreTrue(t)
  BY DEF LinkInv
<1>6. ASSUME NEW j \in 2..Len(reports), reports[j] = EndReport(t) PROVE Ending(reports, t)'
  <2>1. j - 1 \in DOMAIN reports' /\ reports'[j - 1] = EndReport(t)
    BY <1>4, <1>6
  <2> QED
    BY <2>1 DEF Ending
<1>7. ASSUME Ending(reports, t) PROVE Ending(reports, t)' \/ chain'[Len(chain) + 1] = EndReport(t)
  <2>1. PICK j \in 1..Len(reports) : reports[j] = EndReport(t)
    BY <1>4, <1>7 DEF Ending
  <2> QED
    BY <1>4, <1>6, <2>1
<1>8. ActiveRuns(t)'
  BY <1>2, <1>4, <1>5, <1>7 DEF ActiveRuns, Ending
<1>9. ASSUME NEW i \in DOMAIN chain', chain'[i] = StateReport(t), running # t
      PROVE  (\E j \in (i + 1)..Len(chain') : chain'[j] = EndReport(t)) \/ Ending(reports, t)'
  <2>1. CASE i = Len(chain) + 1
    <3>1. PICK j \in 2..Len(reports) : reports[j] = EndReport(t)
      BY <1>4, <1>5, <1>9, <2>1 DEF StatesAreTrue
    <3> QED
      BY <1>6, <3>1
  <2>2. CASE i \in 1..Len(chain)
    <3>1. CASE \E j \in (i + 1)..Len(chain) : chain[j] = EndReport(t)
      BY <1>4, <2>2, <3>1
    <3>2. CASE Ending(reports, t)
      BY <1>4, <1>7, <2>2, <3>2
    <3> QED
      BY <1>4, <1>5, <1>9, <2>2, <3>1, <3>2 DEF StatesAreTrue
  <2> QED
    BY <1>4, <2>1, <2>2
<1>10. ASSUME NEW i \in DOMAIN reports', reports'[i] = StateReport(t), running # t
       PROVE  \E j \in (i + 1)..Len(reports') : reports'[j] = EndReport(t)
  <2>1. i + 1 \in DOMAIN reports /\ reports[i + 1] = StateReport(t)
    BY <1>4, <1>10
  <2>2. PICK j \in (i + 2)..Len(reports) : reports[j] = EndReport(t)
    BY <1>4, <1>5, <1>10, <2>1 DEF StatesAreTrue
  <2>3. j - 1 \in (i + 1)..Len(reports') /\ reports'[j - 1] = EndReport(t)
    BY <1>4, <2>1, <2>2
  <2> QED
    BY <2>3
<1>11. StatesAreTrue(t)'
  BY <1>2, <1>9, <1>10 DEF StatesAreTrue, Ending
<1> QED
  BY <1>8, <1>11

\* What arrived arrives again after it.
LEMMA DropKeeps ==
  ASSUME TypeOK, TypeOK', LinkInv, Reliable, NEW n \in 0..Len(reports), DropConnection(n)
  PROVE  \A t \in Tx : ActiveRuns(t)' /\ StatesAreTrue(t)'
<1>1. up = TRUE
  BY DEF LinkInv
<1>2. chain' = chain \o SubSeq(reports, 1, n) /\ UNCHANGED <<rows, outbox, work,
                                                             running, reports>>
  BY <1>1 DEF DropConnection, Relay, database
<1>3. reports \in Seq(Report) /\ chain \in Seq(Report)
  BY DEF TypeOK
<1>4. /\ Len(reports) \in Nat /\ Len(chain) \in Nat
      /\ DOMAIN reports = 1..Len(reports) /\ DOMAIN chain = 1..Len(chain)
  BY <1>3
<1>5. /\ SubSeq(reports, 1, n) \in Seq(Report) /\ Len(SubSeq(reports, 1, n)) = n
      /\ \A i \in 1..n : SubSeq(reports, 1, n)[i] = reports[i]
  BY <1>3, <1>4, SubSeqProperties
<1>6. /\ Len(chain') = Len(chain) + n /\ DOMAIN chain' = 1..(Len(chain) + n)
      /\ \A i \in 1..Len(chain) : chain'[i] = chain[i]
      /\ \A i \in 1..n : chain'[Len(chain) + i] = reports[i]
  BY <1>2, <1>3, <1>5
<1> SUFFICES ASSUME NEW t \in Tx
             PROVE  ActiveRuns(t)' /\ StatesAreTrue(t)'
  OBVIOUS
<1>7. ActiveRuns(t) /\ StatesAreTrue(t)
  BY DEF LinkInv
<1>8. ActiveRuns(t)'
  BY <1>2, <1>4, <1>6, <1>7 DEF ActiveRuns, Ending
<1>9. ASSUME NEW i \in DOMAIN chain', chain'[i] = StateReport(t), running # t
      PROVE  (\E j \in (i + 1)..Len(chain') : chain'[j] = EndReport(t)) \/ Ending(reports, t)
  <2>1. CASE i \in 1..Len(chain)
    BY <1>4, <1>6, <1>7, <1>9, <2>1 DEF StatesAreTrue
  <2>2. CASE i \notin 1..Len(chain)
    <3>1. PICK k \in 1..n : i = Len(chain) + k
      <4>1. i - Len(chain) \in 1..n /\ i = Len(chain) + (i - Len(chain))
        BY <1>4, <1>6, <2>2
      <4> QED
        BY <4>1
    <3>2. k \in DOMAIN reports /\ reports[k] = StateReport(t)
      BY <1>4, <1>6, <1>9, <3>1
    <3>3. PICK j \in (k + 1)..Len(reports) : reports[j] = EndReport(t)
      BY <1>7, <1>9, <3>2 DEF StatesAreTrue
    <3> QED
      BY <1>4, <3>2, <3>3 DEF Ending
  <2> QED
    BY <2>1, <2>2
<1>10. StatesAreTrue(t)'
  BY <1>2, <1>7, <1>9 DEF StatesAreTrue, Ending
<1> QED
  BY <1>8, <1>10

\* Where neither the device nor its reports are touched, rows and work are left.
LEMMA RecordsSuffice ==
  ASSUME LinkInv, Reliable, UNCHANGED <<running, chain, reports>>,
         \A t \in Tx : ActiveRuns(t) => ActiveRuns(t)'
  PROVE  \A t \in Tx : ActiveRuns(t)' /\ StatesAreTrue(t)'
<1>1. \A t \in Tx : StatesAreTrue(t) => StatesAreTrue(t)'
  BY DEF StatesAreTrue, Ending
<1> QED
  BY <1>1 DEF LinkInv

LEMMA ApiIsHeard ==
  ASSUME TypeOK, LinkInv, Reliable, Api
  PROVE  \A t \in Tx : ActiveRuns(t)' /\ StatesAreTrue(t)'
<1>1. UNCHANGED <<running, chain, reports, work, outbox>>
  BY DEF Api, RequestStart, SendStart, Create, RequestStop, MarkStopping, SendStop,
    Sent, Send,
     Refused, RequestFails, database, telemetry, link
<1>2. \A t \in Tx : rows'[t] = rows[t] \/ rows'[t] \in {"starting", "stopping"}
  BY DEF Api, RequestStart, SendStart, Create, RequestStop, MarkStopping, SendStop,
    RequestFails,
     database, TypeOK
<1>3. \A t \in Tx : ActiveRuns(t) => ActiveRuns(t)'
  BY <1>1, <1>2 DEF ActiveRuns, Ending
<1> QED
  BY <1>1, <1>3, RecordsSuffice

LEMMA SweepIsHeard ==
  ASSUME TypeOK, LinkInv, Reliable,
         \/ \E expired \in SUBSET Tx : SweepStartTimeouts(expired)
         \/ \E s \in sweep : SweepCount(s) \/ SweepInsert(s)
  PROVE  \A t \in Tx : ActiveRuns(t)' /\ StatesAreTrue(t)'
<1>1. UNCHANGED <<running, chain, reports, work>>
  BY DEF SweepStartTimeouts, SweepCount, SweepInsert, link
<1>2. \A t \in Tx : rows'[t] = rows[t] \/ rows'[t] = "failed"
  BY DEF SweepStartTimeouts, SweepCount, SweepInsert, database
<1>3. \A t \in Tx : ActiveRuns(t) => ActiveRuns(t)'
  BY <1>1, <1>2 DEF ActiveRuns, Ending
<1> QED
  BY <1>1, <1>3, RecordsSuffice

LEMMA WorkIsHeard ==
  ASSUME TypeOK, LinkInv, Reliable,
         StopDevice \/ Confirm \/ Finish \/ CountDeliveries \/ InsertDelivery
  PROVE  \A t \in Tx : ActiveRuns(t)' /\ StatesAreTrue(t)'
<1>1. UNCHANGED <<running, chain, reports>>
  BY DEF StopDevice, Confirm, Finish, CountDeliveries, InsertDelivery, Send, database,
    link
<1>2. PICK w \in Tx : w = work.tx
  BY DEF StopDevice, Confirm, Finish, CountDeliveries, InsertDelivery, At, TypeOK
<1>3. CASE StopDevice
  <2>1. UNCHANGED <<rows, outbox>> /\ work.step = "stop" /\ work' = Idle
    BY <1>3 DEF StopDevice, At, database
  <2>2. \A t \in Tx : ActiveRuns(t) => ActiveRuns(t)'
    BY <1>1, <2>1 DEF ActiveRuns, Ending, Idle
  <2> QED
    BY <1>1, <2>2, RecordsSuffice
<1>4. CASE Confirm
  <2>1. /\ UNCHANGED outbox /\ work.step = "confirm" /\ work'.step \in {"idle", "count"}
        /\ \A t \in Tx \ {w} : rows'[t] = rows[t]
        /\ rows'[w] = rows[w] \/ rows'[w] = "active"
    <3>1. UNCHANGED outbox /\ work.step = "confirm"
      BY <1>4 DEF Confirm, At
    <3>2. CASE rows[w] = "starting"
      BY <1>2, <1>4, <3>1, <3>2 DEF Confirm, Update, TypeOK
    <3>3. CASE rows[w] # "starting"
      BY <1>2, <1>4, <3>1, <3>3 DEF Confirm, Update, Idle
    <3> QED
      BY <3>2, <3>3
  <2>2. \A t \in Tx : ActiveRuns(t) => ActiveRuns(t)'
    BY <1>1, <1>2, <2>1 DEF ActiveRuns, Ending
  <2> QED
    BY <1>1, <2>2, RecordsSuffice
<1>5. CASE Finish
  <2>1. /\ UNCHANGED outbox /\ work.step = "finish" /\ work'.step \in {"idle", "count"}
        /\ \A t \in Tx \ {w} : rows'[t] = rows[t]
        /\ \/ rows'[w] = rows[w] /\ rows[w] \in {"none", "stopped"}
           \/ /\ rows'[w] = "stopped"
              /\ work'.step = "count" /\ work'.event = "TransactionStopped" /\ work'.tx = w
    <3>1. rows[w] \in RowStates
      BY DEF TypeOK
    <3>2. UNCHANGED outbox /\ work.step = "finish"
      BY <1>5 DEF Finish, At
    <3>3. CASE rows[w] \in {"starting", "active", "stopping", "failed"}
      BY <1>2, <1>5, <3>2, <3>3 DEF Finish, Update, TypeOK
    <3>4. CASE rows[w] \in {"none", "stopped"}
      BY <1>2, <1>5, <3>2, <3>4 DEF Finish, Update, Idle
    <3> QED
      BY <3>1, <3>3, <3>4 DEF RowStates
  <2>2. \A t \in Tx : ActiveRuns(t) => ActiveRuns(t)'
    BY <1>1, <1>2, <2>1 DEF ActiveRuns, Ending
  <2> QED
    BY <1>1, <2>2, RecordsSuffice
<1>6. CASE CountDeliveries
  <2>1. /\ UNCHANGED <<rows, outbox>> /\ work.step = "count" /\ work'.step = "insert"
        /\ work'.tx = work.tx /\ work'.event = work.event
    BY <1>6 DEF CountDeliveries, At, database, TypeOK
  <2>2. \A t \in Tx : ActiveRuns(t) => ActiveRuns(t)'
    BY <1>1, <2>1 DEF ActiveRuns, Ending
  <2> QED
    BY <1>1, <2>2, RecordsSuffice
<1>7. CASE InsertDelivery
  <2>1. UNCHANGED rows /\ work.step = "insert" /\ work' = Idle
    BY <1>7 DEF InsertDelivery, At
  <2>2. \A t \in Tx : ActiveRuns(t) => ActiveRuns(t)'
    BY <1>1, <2>1 DEF ActiveRuns, Ending, Idle
  <2> QED
    BY <1>1, <2>2, RecordsSuffice
<1> QED
  BY <1>3, <1>4, <1>5, <1>6, <1>7

LEMMA FindHears ==
  ASSUME TypeOK, LinkInv, Reliable, Find
  PROVE  \A t \in Tx : ActiveRuns(t)' /\ StatesAreTrue(t)'
<1>1. /\ UNCHANGED <<rows, outbox, running, reports>> /\ work.step = "idle"
      /\ chain # <<>> /\ chain' = Tail(chain)
      /\ work' = Handling(Head(chain)) /\ chain \in Seq(Report)
  BY DEF Find, At, database, link, TypeOK
<1>2. /\ Len(chain) \in Nat /\ Len(chain) > 0 /\ DOMAIN chain = 1..Len(chain)
      /\ Len(chain') = Len(chain) - 1 /\ DOMAIN chain' = 1..(Len(chain) - 1)
      /\ \A i \in 1..(Len(chain) - 1) : chain'[i] = chain[i + 1]
      /\ Head(chain) = chain[1] /\ chain[1] \in Report
  BY <1>1
<1> SUFFICES ASSUME NEW t \in Tx
             PROVE  ActiveRuns(t)' /\ StatesAreTrue(t)'
  OBVIOUS
<1>3. ActiveRuns(t) /\ StatesAreTrue(t)
  BY DEF LinkInv
<1>4. ASSUME NEW j \in 2..Len(chain), chain[j] = EndReport(t) PROVE Ending(chain, t)'
  <2>1. j - 1 \in DOMAIN chain' /\ chain'[j - 1] = EndReport(t)
    BY <1>2, <1>4
  <2> QED
    BY <2>1 DEF Ending
<1>5. ASSUME rows[t] = "active"
      PROVE  \/ running = t \/ Ending(reports, t) \/ Ending(chain, t)'
             \/ work'.step = "finish" /\ work'.tx = t
  <2>1. Ending(chain, t) => Ending(chain, t)' \/ chain[1] = EndReport(t)
    BY <1>2, <1>4 DEF Ending
  <2>2. chain[1] = EndReport(t) => work'.step = "finish" /\ work'.tx = t
    BY <1>1, <1>2, <1>5, ConstantsAssumption DEF Handling, StepFor, AfterEnd, EndReport,
      Idle
  <2> QED
    BY <1>1, <1>3, <1>5, <2>1, <2>2 DEF ActiveRuns
<1>6. ASSUME work'.step = "confirm", work'.tx = t
      PROVE  running = t \/ Ending(reports, t) \/ Ending(chain, t)'
  <2>1. chain[1] = StateReport(t)
    BY <1>1, <1>2, <1>6
       DEF Handling, StepFor, AfterState, AfterEnd, AfterMeter, StateReport, Idle,
           Report
  <2> QED
    BY <1>2, <1>3, <1>4, <2>1 DEF StatesAreTrue
<1>10. ActiveRuns(t)'
  <2>1. Ending(reports, t)' <=> Ending(reports, t)
    BY <1>1 DEF Ending
  <2> QED
    BY <1>1, <1>5, <1>6, <2>1 DEF ActiveRuns
<1>7. ASSUME NEW i \in DOMAIN chain', chain'[i] = StateReport(t), running # t
      PROVE  (\E j \in (i + 1)..Len(chain') : chain'[j] = EndReport(t)) \/ Ending(reports, t)
  <2>1. i + 1 \in DOMAIN chain /\ chain[i + 1] = StateReport(t)
    BY <1>2, <1>7
  <2>2. CASE \E j \in (i + 2)..Len(chain) : chain[j] = EndReport(t)
    <3>1. PICK j \in (i + 2)..Len(chain) : chain[j] = EndReport(t)
      BY <2>2
    <3>2. j - 1 \in (i + 1)..Len(chain') /\ chain'[j - 1] = EndReport(t)
      BY <1>2, <2>1, <3>1
    <3> QED
      BY <3>2
  <2> QED
    BY <1>2, <1>3, <1>7, <2>1, <2>2 DEF StatesAreTrue
<1>8. StatesAreTrue(t)'
  BY <1>1, <1>3, <1>7 DEF StatesAreTrue, Ending
<1> QED
  BY <1>8, <1>10

LEMMA LinkKept ==
  ASSUME TypeOK, TypeOK', LinkInv, [Next]_vars
  PROVE  LinkInv'
<1> SUFFICES ASSUME Reliable'
             PROVE  up' = TRUE /\ \A t \in Tx : ActiveRuns(t)' /\ StatesAreTrue(t)'
  BY DEF LinkInv
<1>1. Reliable
  BY FaultsGrow
<1>2. ~(Reboot \/ RequestFails \/ WorkFails \/ SweepFails \/ Crash \/ Rejoin)
  BY FaultsGrow
<1>3. up = TRUE
  BY <1>1 DEF LinkInv
<1>4. ~Restart
  BY <1>3 DEF Restart
<1>5. up' = TRUE
  BY <1>2, <1>3, <1>4, Zenon DEF Next, Device, Api, Telemetry, Work, DeviceCommand,
    ForcedOff, DeviceMeter,
     DeviceConnect, DeliverReport, DropConnection, RequestStart, SendStart, Create,
     RequestStop, MarkStopping, SendStop, Find, StopDevice, Confirm, Finish,
     CountDeliveries, InsertDelivery, SweepStartTimeouts, SweepCount, SweepInsert,
     Relay, telemetry, vars
<1>6. CASE UNCHANGED vars
  BY <1>1, <1>6 DEF LinkInv, vars, ActiveRuns, StatesAreTrue, Ending,
    Recording,
     Told, database, telemetry, link
<1>7. ASSUME NEW n \in 0..Len(reports), DropConnection(n)
      PROVE  \A t \in Tx : ActiveRuns(t)' /\ StatesAreTrue(t)'
  BY <1>1, <1>7, DropKeeps
<1>8. CASE Device
  BY <1>1, <1>2, <1>5, <1>7, <1>8, DeviceSpeaks, DeliveryKeeps DEF Device
<1>9. CASE Api
  BY <1>1, <1>5, <1>9, ApiIsHeard
<1>10. CASE Telemetry
  BY <1>1, <1>2, <1>4, <1>5, <1>10, SweepIsHeard, WorkIsHeard, FindHears DEF Telemetry,
    Work
<1> QED
  BY <1>5, <1>6, <1>8, <1>9, <1>10 DEF Next

----------------------------------------------------------------------------
(* Events are lost one by one                                               *)

LEMMA ToldGrows ==
  ASSUME TypeOK, [Next]_vars
  PROVE  \A t \in Tx : Told(t) \subseteq Told(t)'
<1>1. ASSUME NEW s \in sweep, SweepInsert(s)
      PROVE  \E u \in Tx, d \in Event : Insert(u, d)
  <2>1. s.tx \in Tx /\ Delivery("TransactionFailed", s.sequence) \in Event
    BY DEF TypeOK, SweepEntry, Delivery, Event, EventTypes
  <2> QED
    BY <1>1, <2>1 DEF SweepInsert
<1>2. CASE InsertDelivery
  <2>1. work.tx \in Tx /\ Delivery(work.event, work.sequence) \in Event
    BY <1>2 DEF InsertDelivery, At, Delivery, Event, TypeOK
  <2>2. \E u \in Tx, d \in Event : Insert(u, d)
    BY <1>2, <2>1 DEF InsertDelivery
  <2> QED
    BY <2>2, InsertTells DEF TypeOK
<1>3. CASE \E s \in sweep : SweepInsert(s)
  BY <1>1, <1>3, InsertTells DEF TypeOK
<1>4. CASE ~InsertDelivery /\ ~\E s \in sweep : SweepInsert(s)
  <2>1. UNCHANGED outbox
    BY <1>4 DEF Next, Device, Api, Telemetry, Work, DeviceCommand, ForcedOff, DeviceMeter,
       DeviceConnect, DeliverReport, DropConnection, Reboot, RequestStart, SendStart,
       Create, RequestStop, MarkStopping, SendStop, RequestFails, Find, StopDevice,
       Confirm, Finish, CountDeliveries, WorkFails, SweepStartTimeouts, SweepCount,
       SweepFails, Crash, Restart, Rejoin, database, vars
  <2> QED
    BY <2>1 DEF Told
<1> QED
  BY <1>2, <1>3, <1>4

\* A row moves to a state that is to be told of only when the event is due.
LEMMA NothingLost ==
  ASSUME TypeOK, [Next]_vars,
         \A t \in Tx : \/ rows'[t] = rows[t] \/ rows'[t] \in {"starting", "stopping", "failed"}
                       \/ BeingTold(t)',
         \A t \in Tx : BeingTold(t) => BeingTold(t)' \/ ~Untold(t)'
  PROVE  Lost' \subseteq Lost
<1> SUFFICES ASSUME NEW t \in Tx, Untold(t)', ~BeingTold(t)'
             PROVE  Untold(t) /\ ~BeingTold(t)
  BY DEF Lost
<1>1. rows'[t] = rows[t]
  BY DEF Untold
<1> QED
  BY <1>1, ToldGrows DEF Untold

\* Who records nothing that the rows wait for.
LEMMA OthersLoseNothing ==
  ASSUME TypeOK, [Next]_vars, UNCHANGED work,
         \A t \in Tx : rows'[t] = rows[t] \/ rows'[t] \in {"starting", "stopping", "failed"}
  PROVE  Lost' \subseteq Lost
<1>1. \A t \in Tx : BeingTold(t) => BeingTold(t)' \/ ~Untold(t)'
  BY DEF BeingTold, Untold, Recording
<1> QED
  BY <1>1, NothingLost

LEMMA WorkLosesNothing ==
  ASSUME TypeOK, [Next]_vars, Work
  PROVE  Lost' \subseteq Lost
<1>1. CASE Find
  <2>1. UNCHANGED rows /\ work.step = "idle"
    BY <1>1 DEF Find, At, database
  <2> QED
    BY <2>1, NothingLost DEF BeingTold, Recording
<1>2. CASE StopDevice
  <2>1. UNCHANGED rows /\ work.step = "stop"
    BY <1>2 DEF StopDevice, At, database
  <2> QED
    BY <2>1, NothingLost DEF BeingTold, Recording
<1>3. CASE Confirm \/ Finish
  <2>1. work.step \in {"confirm", "finish"} /\ work.tx \in Tx
    BY <1>3 DEF Confirm, Finish, At, TypeOK
  <2>2. \A t \in Tx : rows'[t] = rows[t] \/ BeingTold(t)'
    <3>1. CASE Confirm /\ rows[work.tx] = "starting"
      BY <2>1, <3>1 DEF Confirm, Update, BeingTold, Recording, TypeOK
    <3>2. CASE Finish /\ rows[work.tx] \in {"starting", "active", "stopping", "failed"}
      BY <2>1, <3>2 DEF Finish, Update, BeingTold, Recording, TypeOK
    <3>3. CASE Confirm /\ rows[work.tx] # "starting"
      BY <3>3 DEF Confirm, Update
    <3>4. CASE Finish /\ rows[work.tx] \notin {"starting", "active", "stopping", "failed"}
      BY <3>4 DEF Finish, Update
    <3> QED
      BY <1>3, <3>1, <3>2, <3>3, <3>4
  <2>3. \A t \in Tx : ~BeingTold(t)
    BY <2>1 DEF BeingTold, Recording
  <2> QED
    BY <2>2, <2>3, NothingLost
<1>4. CASE CountDeliveries
  <2>1. UNCHANGED rows /\ work'.step = "insert" /\ work'.tx = work.tx /\ work'.event = work.event
    BY <1>4 DEF CountDeliveries, database, TypeOK
  <2>2. \A t \in Tx : BeingTold(t) => BeingTold(t)'
    BY <2>1 DEF BeingTold, Recording
  <2> QED
    BY <2>1, <2>2, NothingLost
<1>5. CASE InsertDelivery
  <2>1. UNCHANGED rows /\ work.tx \in Tx
    BY <1>5 DEF InsertDelivery, At, TypeOK
  <2>2. PICK t \in Tx : t = work.tx
    BY <2>1
  <2>3. work.event \in Told(t)'
    <3>0. work.event \in EventTypes /\ work.sequence \in Nat
      BY DEF TypeOK
    <3> DEFINE d == Delivery(work.event, work.sequence)
    <3>1. d \in Event /\ d.type = work.event
      BY <3>0 DEF Delivery, Event
    <3>2. Insert(t, d)
      BY <1>5, <2>2 DEF InsertDelivery
    <3> HIDE DEF d
    <3>3. Told(t)' = Told(t) \cup {d.type}
      BY <3>1, <3>2, InsertTells DEF TypeOK
    <3> QED
      BY <3>1, <3>3
  <2>4. BeingTold(t) => ~Untold(t)'
    BY <2>1, <2>2, <2>3 DEF BeingTold, Untold
  <2>5. \A u \in Tx : BeingTold(u) => u = t
    BY <2>2 DEF BeingTold
  <2> QED
    BY <2>1, <2>4, <2>5, NothingLost
<1> QED
  BY <1>1, <1>2, <1>3, <1>4, <1>5 DEF Work

\* A crash or a failing call loses what was being told.
LEMMA FailureLosesOne ==
  ASSUME TypeOK, [Next]_vars, Crash \/ WorkFails
  PROVE  /\ Lost' \subseteq Lost \cup {work.tx}
         /\ \E f \in {"crash", "call"} : f \notin faults /\ faults' = faults \cup {f}
<1>1. UNCHANGED rows
  BY DEF Crash, WorkFails, database
<1>2. ASSUME NEW t \in Tx, Untold(t)', t # work.tx PROVE Untold(t) /\ ~BeingTold(t)
  BY <1>1, <1>2, ToldGrows DEF Untold, BeingTold
<1>3. \E f \in {"crash", "call"} : f \notin faults /\ faults' = faults \cup {f}
  BY DEF Crash, WorkFails, Occurs
<1> QED
  BY <1>2, <1>3 DEF Lost

LEMMA StepLoses ==
  ASSUME TypeOK, [Next]_vars
  PROVE  \/ Lost' \subseteq Lost /\ faults \subseteq faults'
         \/ /\ Lost' \subseteq Lost \cup {work.tx}
            /\ \E f \in {"crash", "call"} : f \notin faults /\ faults' = faults \cup {f}
<1>1. faults \subseteq faults'
  BY DEF Next, Device, Api, Telemetry, Work, DeviceCommand, ForcedOff, DeviceMeter,
     DeviceConnect, DeliverReport, DropConnection, Reboot, RequestStart, SendStart, Create,
     RequestStop, MarkStopping, SendStop, Sent, Refused, RequestFails, Find, StopDevice,
     Confirm, Finish, CountDeliveries, InsertDelivery, WorkFails, SweepStartTimeouts,
     SweepCount, SweepInsert, SweepFails, Crash, Restart, Rejoin, Occurs, vars
<1>2. CASE Crash \/ WorkFails
  BY <1>2, FailureLosesOne
<1>3. CASE Work
  BY <1>1, <1>3, WorkLosesNothing
<1>4. CASE Device
  <2>1. UNCHANGED <<rows, work>>
    BY <1>4 DEF Device, DeviceCommand, ForcedOff, DeviceMeter, DeviceConnect, DeliverReport,
       DropConnection, Reboot, Relay, database, telemetry
  <2> QED
    BY <1>1, <2>1, OthersLoseNothing
<1>5. CASE Api
  <2>1. UNCHANGED work
    BY <1>5 DEF Api, RequestStart, SendStart, Create, RequestStop, MarkStopping, SendStop,
       RequestFails, telemetry
  <2>2. \A t \in Tx : rows'[t] = rows[t] \/ rows'[t] \in {"starting", "stopping"}
    BY <1>5 DEF Api, RequestStart, SendStart, Create, RequestStop, MarkStopping, SendStop,
       RequestFails, database, TypeOK
  <2> QED
    BY <1>1, <2>1, <2>2, OthersLoseNothing
<1>6. CASE \E expired \in SUBSET Tx : SweepStartTimeouts(expired)
  <2>1. UNCHANGED work /\ \A t \in Tx : rows'[t] = rows[t] \/ rows'[t] = "failed"
    BY <1>6 DEF SweepStartTimeouts
  <2> QED
    BY <1>1, <2>1, OthersLoseNothing
<1>7. CASE \/ \E s \in sweep : SweepCount(s) \/ SweepInsert(s)
           \/ SweepFails \/ Restart \/ Rejoin \/ UNCHANGED vars
  <2>1. UNCHANGED <<rows, work>>
    BY <1>7 DEF SweepCount, SweepInsert, SweepFails, Restart, Rejoin, database, telemetry, vars
  <2> QED
    BY <1>1, <2>1, OthersLoseNothing
<1> QED
  BY <1>2, <1>3, <1>4, <1>5, <1>6, <1>7 DEF Next, Telemetry

LEMMA FailuresFinite == IsFiniteSet(Failures) /\ IsFiniteSet(Failures')
<1>1. IsFiniteSet({"crash", "call"})
  <2>1. IsFiniteSet({"crash"} \cup {"call"})
    BY FS_Singleton, FS_AddElement
  <2>2. {"crash"} \cup {"call"} = {"crash", "call"}
    OBVIOUS
  <2> QED
    BY <2>1, <2>2
<1>2. \A S : S \subseteq {"crash", "call"} => IsFiniteSet(S)
  BY <1>1, FS_Subset
<1>3. Failures \subseteq {"crash", "call"} /\ Failures' \subseteq {"crash", "call"}
  BY DEF Failures
<1> QED
  BY <1>2, <1>3

LEMMA LossKept ==
  ASSUME TypeOK, LossInv, [Next]_vars
  PROVE  LossInv'
<1>1. /\ IsFiniteSet(Lost) /\ Cardinality(Lost) <= Cardinality(Failures)
      /\ Cardinality(Lost) \in Nat /\ Cardinality(Failures) \in Nat
      /\ Cardinality(Failures') \in Nat
  BY FailuresFinite, FS_CardinalityType DEF LossInv
<1>2. CASE Lost' \subseteq Lost /\ faults \subseteq faults'
  <2>1. IsFiniteSet(Lost') /\ Cardinality(Lost') <= Cardinality(Lost)
    BY <1>1, <1>2, FS_Subset
  <2>2. Failures \subseteq Failures'
    BY <1>2 DEF Failures
  <2>3. Cardinality(Failures) <= Cardinality(Failures')
    BY <2>2, FailuresFinite, FS_Subset
  <2>4. Cardinality(Lost') \in Nat
    BY <2>1, FS_CardinalityType
  <2> QED
    BY <1>1, <2>1, <2>3, <2>4 DEF LossInv
<1>3. ASSUME Lost' \subseteq Lost \cup {work.tx},
             NEW f \in {"crash", "call"}, f \notin faults, faults' = faults \cup {f}
      PROVE  LossInv'
  <2> DEFINE More == Lost \cup {work.tx}
  <2>1. IsFiniteSet(More) /\ Cardinality(More) <= Cardinality(Lost) + 1
    BY <1>1, FS_AddElement
  <2>2. IsFiniteSet(Lost') /\ Cardinality(Lost') <= Cardinality(More)
    BY <1>3, <2>1, FS_Subset
  <2>3. Failures' = Failures \cup {f} /\ f \notin Failures
    BY <1>3 DEF Failures
  <2>4. Cardinality(Failures') = Cardinality(Failures) + 1
    BY <2>3, FailuresFinite, FS_AddElement
  <2>5. Cardinality(Lost') \in Nat /\ Cardinality(More) \in Nat
    BY <2>1, <2>2, FS_CardinalityType
  <2> HIDE DEF More
  <2> QED
    BY <1>1, <2>1, <2>2, <2>4, <2>5 DEF LossInv
<1> QED
  BY <1>2, <1>3, StepLoses

\* What the database and the outbox hold and what is under way between service and
\* charger, for any number of transactions and faults.
THEOREM InvariantHolds == Spec => []IInv
<1>1. Init => LinkInv
  BY ConstantsAssumption DEF Init, LinkInv, ActiveRuns, StatesAreTrue,
    Idle
<1>2. TypeOK /\ TypeOK' /\ LinkInv /\ [Next]_vars => LinkInv'
  BY LinkKept
<1>3. Spec => []LinkInv
  BY <1>1, <1>2, TypeCorrect, PTL DEF Spec
<1>4. Init => LossInv
  <2> SUFFICES ASSUME Init PROVE LossInv
    OBVIOUS
  <2>1. Lost = {}
    BY DEF Init, Lost, Untold
  <2>2. Cardinality(Failures) \in Nat
    BY FailuresFinite, FS_CardinalityType
  <2> QED
    BY <2>1, <2>2, FS_EmptySet DEF LossInv
<1>5. TypeOK /\ LossInv /\ [Next]_vars => LossInv'
  BY LossKept
<1>6. Spec => []LossInv
  BY <1>4, <1>5, TypeCorrect, PTL DEF Spec
<1> QED
  BY <1>3, <1>6, TypeCorrect, RecordsInvariant, PTL DEF IInv

\* What the backend counts as active runs, or its end is on its way.
THEOREM EndsAreHeardOf == Spec => []NoEndIsMissed
<1>1. LinkInv => NoEndIsMissed
  BY DEF LinkInv, Reliable, NoEndIsMissed, ActiveRuns, EndUnderway, Ending, Range
<1> QED
  BY <1>1, InvariantHolds, PTL DEF IInv

\* Whatever faults strike and whatever arrives twice: no more starts and stops are
\* missing in the outbox than there were crashes and failing calls.
THEOREM FailuresLoseOneEach == Spec => []OnlyFailuresLoseEvents
<1>1. TypeOK /\ LossInv => OnlyFailuresLoseEvents
  <2> SUFFICES ASSUME TypeOK, LossInv PROVE OnlyFailuresLoseEvents
    OBVIOUS
  <2>1. Unrecorded \subseteq Lost
    BY DEF Unrecorded, Lost, Untold, BeingTold
  <2>2. IsFiniteSet(Unrecorded) /\ Cardinality(Unrecorded) <= Cardinality(Lost)
    BY <2>1, FS_Subset DEF LossInv
  <2>3. /\ Cardinality(Unrecorded) \in Nat /\ Cardinality(Lost) \in Nat
        /\ Cardinality(Failures) \in Nat
    BY <2>2, FailuresFinite, FS_CardinalityType DEF LossInv
  <2> QED
    BY <2>2, <2>3 DEF LossInv, OnlyFailuresLoseEvents
<1> QED
  BY <1>1, InvariantHolds, PTL DEF IInv
================================================================================
