--------------------------- MODULE ChargingSession ---------------------------
(***************************************************************************)
(* One charger: the charging session, the contactor, what the flash keeps  *)
(* of both, and the MQTT client that reports them.                         *)
(*                                                                         *)
(* Three tasks of the firmware touch this state.  The MQTT task runs the   *)
(* command handlers and the connect callback, and between two handlers     *)
(* sends what they enqueued; the meter task delivers readings; the meter   *)
(* value task publishes progress.  The session's mutex is held for a whole *)
(* handler, so the tasks interleave handler by handler, but a power cut    *)
(* can fall between any two flash writes of a handler: a handler is split  *)
(* at those writes, and pc says which one comes next.  Memory-only steps   *)
(* ride along with the write before them, as a power cut loses them all.   *)
(***************************************************************************)
EXTENDS Naturals, Sequences, Functions

CONSTANTS
  Tx,            \* transaction ids the backend may use
  NoTx,          \* no transaction
  Kwh,           \* values of the meter's energy counter
  Unreadable,    \* no valid counter value (NAN in the code)
  NoReading,     \* the meter has not been read since power came up
  MaxRuns,       \* bound: sessions started in a behaviour
  MaxSeq,        \* bound: meter values published per session and boot
  MaxBacklog,    \* bound: messages waiting when a new one is provoked
  NvsMayFail     \* whether a flash write may be lost (every failure is ignored)

ASSUME ConstantsAssumption ==
  /\ NoTx \notin Tx
  /\ Unreadable \notin Kwh
  /\ NoReading \notin Kwh \cup {Unreadable}
  /\ MaxRuns \in Nat
  /\ MaxSeq \in Nat
  /\ MaxBacklog \in Nat
  /\ NvsMayFail \in BOOLEAN

VARIABLES
  phase,         \* "off", "boot" (relay_control_init done, waiting for the
                 \* network), "wifi" (the network was found) or "run"
  pc,            \* what the handler in progress does next, "idle" when none is
  job,           \* that handler's arguments: the id to start, the reason to end
  session,       \* s_active, s_tx_id and s_meter_start; NoSession when idle
  reading,       \* the last reading's energy counter
  seq,           \* s_seq, the last meter value's number
  contactor,     \* s_on and the GPIO it is written to
  nvsSession,    \* flash, namespace "session"
  nvsRelay,      \* flash, namespace "relay"
  connected,     \* s_connected
  outbox,        \* MQTT client: messages enqueued and not yet acknowledged
  inflight,      \* how many of them were sent on this connection
  retainedTx,    \* broker: the retained message of devices/<id>/tx
  retainedRelay, \* broker: the retained message of devices/<id>/relay
  shown,         \* history: the sessions with a base that reached it in tx messages
  ends,          \* history: the tx/end messages that did
  lastRun        \* history: sessions started so far

device == <<phase, pc, job, session, reading, seq, contactor>>
flash == <<nvsSession, nvsRelay>>
client == <<connected, outbox, inflight>>
broker == <<retainedTx, retainedRelay, shown, ends>>
vars == <<device, flash, client, broker, lastRun>>

----------------------------------------------------------------------------
(* Sessions and messages                                                    *)

MaybeKwh == Kwh \cup {Unreadable}

\* run: the number of the start command that began the session (a history
\* value, the firmware does not have it).  base: the counter at its start.
Session == [run : Nat, tx : Tx \cup {NoTx}, base : MaybeKwh]

NoSession == [run |-> 0, tx |-> NoTx, base |-> Unreadable]

Active(s) == s.tx # NoTx

Reasons == {"remote", "superseded", "admin"}

TxState(s) == [kind |-> "tx", session |-> s]

TxEnd(s, stop, why) ==
  [kind |-> "end", session |-> s, stop |-> stop, reason |-> why]

RelayState(on) == [kind |-> "relay", on |-> on]

MeterValue(s, n) == [kind |-> "meter", session |-> s, seq |-> n]

EndMessage ==
  [kind : {"end"}, session : Session, stop : MaybeKwh, reason : Reasons]

Message ==
       [kind : {"tx"}, session : Session]
  \cup EndMessage
  \cup [kind : {"relay"}, on : BOOLEAN]
  \cup [kind : {"meter"}, session : Session, seq : Nat]

IsEnd(m) == m.kind = "end"

Pcs == {"idle", "end", "ended", "start", "start_base", "start_power"}

Jobs == [tx : Tx \cup {NoTx}, reason : Reasons]

NoJob == [tx |-> NoTx, reason |-> "remote"]

----------------------------------------------------------------------------
(* Flash.  No handler looks at the result of a write.                       *)

Written(new, old) == IF NvsMayFail THEN {new, old} ELSE {new}

\* Each key is its own write: a new id leaves the stored base as it was.
WithId(stored, s) == [stored EXCEPT !.run = s.run, !.tx = s.tx]

WithBase(stored, s) == [stored EXCEPT !.base = s.base]

\* relay_control_set: switches and stores, or does nothing when already there.
SetContactor(on) ==
  /\ contactor' = on
  /\ nvsRelay' \in IF on = contactor THEN {nvsRelay} ELSE Written(on, nvsRelay)

----------------------------------------------------------------------------
Init ==
  /\ phase = "off"
  /\ pc = "idle"
  /\ job = NoJob
  /\ session = NoSession
  /\ reading = NoReading
  /\ seq = 0
  /\ contactor = FALSE
  /\ nvsSession = NoSession
  /\ nvsRelay = FALSE
  /\ connected = FALSE
  /\ outbox = <<>>
  /\ inflight = 0
  /\ retainedTx = NoSession    \* nothing retained reads as idle
  /\ retainedRelay = FALSE
  /\ shown = {}
  /\ ends = {}
  /\ lastRun = 0

(***************************************************************************)
(* Power                                                                    *)
(***************************************************************************)

\* app_main, first thing: the contactor goes back to its stored position.
BootRelay ==
  /\ phase = "off"
  /\ phase' = "boot"
  /\ contactor' = nvsRelay
  /\ UNCHANGED <<pc, job, session, reading, seq, flash, client, broker, lastRun>>

\* app_main waits for Wi-Fi, for ever if need be, before anything below it: a
\* charger without its network has its contactor back but not its session.
NetworkFound ==
  /\ phase = "boot"
  /\ phase' = "wifi"
  /\ UNCHANGED <<pc, job, session, reading, seq, contactor, flash, client, broker, lastRun>>

Restored == IF Active(nvsSession) THEN nvsSession ELSE NoSession

\* MUTANT of SessionInit: leaves the contactor to relay_control's own memory.
SessionInit_TrustsRelay ==
  /\ phase = "wifi"
  /\ phase' = "run"
  /\ session' = Restored
  /\ UNCHANGED <<contactor, nvsRelay>>
  /\ UNCHANGED <<pc, job, reading, seq, nvsSession, client, broker, lastRun>>

\* app_main, last thing: the stored session resumes, with the contactor closed
\* whatever its own stored position said.
SessionInit ==
  /\ phase = "wifi"
  /\ phase' = "run"
  /\ session' = Restored
  /\ IF Active(Restored)
       THEN SetContactor(TRUE)
       ELSE UNCHANGED <<contactor, nvsRelay>>
  /\ UNCHANGED <<pc, job, reading, seq, nvsSession, client, broker, lastRun>>

\* A power cut, a reset or a failed assertion: only flash and broker remain.
\* (A connect or a reading that beats SessionInit asserts on its missing mutex.)
PowerLoss ==
  /\ phase # "off"
  /\ phase' = "off"
  /\ pc' = "idle"
  /\ job' = NoJob
  /\ session' = NoSession
  /\ reading' = NoReading
  /\ seq' = 0
  /\ contactor' = FALSE
  /\ connected' = FALSE
  /\ outbox' = <<>>
  /\ inflight' = 0
  /\ UNCHANGED <<flash, broker, lastRun>>

(***************************************************************************)
(* The MQTT client                                                          *)
(***************************************************************************)

\* The client works on its outbox only while none of its callbacks runs.
Ready == phase = "run" /\ pc = "idle"

\* A subscription lives as long as the connection: no command arrives offline.
Commandable == Ready /\ connected /\ Len(outbox) <= MaxBacklog

\* MQTT_EVENT_CONNECTED: the connect callback publishes both states.
Connect ==
  /\ Ready
  /\ ~connected
  /\ connected' = TRUE
  /\ outbox' = outbox \o <<RelayState(contactor), TxState(session)>>
  /\ UNCHANGED <<inflight, device, flash, broker, lastRun>>

\* The connection drops: what was not acknowledged will be sent again.
Disconnect ==
  /\ Ready
  /\ connected
  /\ Len(outbox) <= MaxBacklog + 2
  /\ connected' = FALSE
  /\ inflight' = 0
  /\ UNCHANGED <<outbox, device, flash, broker, lastRun>>

\* The next message reaches the broker, which keeps the retained ones.
Transmit ==
  /\ Ready
  /\ connected
  /\ inflight < Len(outbox)
  /\ inflight' = inflight + 1
  /\ LET m == outbox[inflight + 1] IN
       /\ retainedTx' = IF m.kind = "tx" THEN m.session ELSE retainedTx
       /\ retainedRelay' = IF m.kind = "relay" THEN m.on ELSE retainedRelay
       /\ shown' = IF m.kind = "tx" /\ m.session.base # Unreadable
                      THEN shown \cup {m.session} ELSE shown
       /\ ends' = IF IsEnd(m) THEN ends \cup {m} ELSE ends
  /\ UNCHANGED <<connected, outbox, device, flash, lastRun>>

Acknowledge ==
  /\ Ready
  /\ connected
  /\ inflight > 0
  /\ outbox' = Tail(outbox)
  /\ inflight' = inflight - 1
  /\ UNCHANGED <<connected, device, flash, broker, lastRun>>

(***************************************************************************)
(* Ending a session (end_locked), two steps: contactor, then flash.         *)
(***************************************************************************)

\* current_kwh: the counter of the last reading, if it had one.
CurrentKwh == IF reading = NoReading THEN Unreadable ELSE reading

EndContactor ==
  /\ pc = "end"
  /\ pc' = "ended"
  /\ SetContactor(FALSE)
  /\ UNCHANGED <<phase, job, session, reading, seq, nvsSession, client, broker, lastRun>>

\* MUTANT of AfterEnd: a remote stop is not followed by the idle state.
AfterEnd_NoState(why) == IF why = "admin" THEN <<RelayState(FALSE)>> ELSE <<>>

\* What the handler goes on to publish once the session is over.
AfterEnd(why) ==
  CASE why = "remote" -> <<TxState(NoSession)>>
    [] why = "admin" -> <<RelayState(FALSE)>>
    [] OTHER -> <<>>

EndMessages ==
  <<TxEnd(session, CurrentKwh, job.reason), RelayState(contactor)>>
    \o AfterEnd(job.reason)

AfterEndPc == IF job.reason = "superseded" THEN "start" ELSE "idle"

\* MUTANT of EndSession: the session is over but flash still holds it.
EndSession_ForgetsFlash ==
  /\ pc = "ended"
  /\ pc' = AfterEndPc
  /\ session' = NoSession
  /\ outbox' = outbox \o EndMessages
  /\ UNCHANGED <<phase, job, reading, seq, contactor, flash, connected, inflight, broker, lastRun>>

EndSession ==
  /\ pc = "ended"
  /\ pc' = AfterEndPc
  /\ session' = NoSession
  /\ nvsSession' \in Written(NoSession, nvsSession)
  /\ outbox' = outbox \o EndMessages
  /\ UNCHANGED <<phase, job, reading, seq, contactor, nvsRelay, connected, inflight, broker, lastRun>>

(***************************************************************************)
(* Starting a session (start_locked), three steps: id, base, contactor.     *)
(***************************************************************************)

StartId ==
  /\ pc = "start"
  /\ pc' = "start_base"
  /\ lastRun' = lastRun + 1
  /\ session' = [run |-> lastRun', tx |-> job.tx, base |-> CurrentKwh]
  /\ seq' = 0
  /\ nvsSession' \in Written(WithId(nvsSession, session'), nvsSession)
  /\ UNCHANGED <<phase, job, reading, contactor, nvsRelay, client, broker>>

\* MUTANT of StartBase: meter_start is never stored.
StartBase_NotStored ==
  /\ pc = "start_base"
  /\ pc' = "start_power"
  /\ UNCHANGED <<phase, job, session, reading, seq, contactor, flash, client, broker, lastRun>>

StartBase ==
  /\ pc = "start_base"
  /\ pc' = "start_power"
  /\ nvsSession' \in Written(WithBase(nvsSession, session), nvsSession)
  /\ UNCHANGED <<phase, job, session, reading, seq, contactor, nvsRelay, client, broker, lastRun>>

\* MUTANT of StartPower: publishes at once instead of enqueueing.
StartPower_Overtakes ==
  /\ pc = "start_power"
  /\ pc' = "idle"
  /\ SetContactor(TRUE)
  /\ retainedTx' = session
  /\ outbox' = Append(outbox, RelayState(TRUE))
  /\ UNCHANGED <<phase, job, session, reading, seq, nvsSession, connected, inflight, retainedRelay, shown, ends, lastRun>>

StartPower ==
  /\ pc = "start_power"
  /\ pc' = "idle"
  /\ SetContactor(TRUE)
  /\ outbox' = outbox \o <<TxState(session), RelayState(TRUE)>>
  /\ UNCHANGED <<phase, job, session, reading, seq, nvsSession, connected, inflight, broker, lastRun>>

(***************************************************************************)
(* Commands                                                                 *)
(***************************************************************************)

Runs(t) == Active(session) /\ session.tx = t

\* A command that changes nothing reports the state as it is.
ReportTx ==
  /\ outbox' = Append(outbox, TxState(session))
  /\ UNCHANGED <<connected, inflight, device, flash, broker, lastRun>>

\* {"op":"start"}: a repeated start is confirmed, another one supersedes.
StartCommand(t) ==
  /\ Commandable
  /\ IF Runs(t) THEN ReportTx
     ELSE /\ lastRun < MaxRuns
          /\ pc' = IF Active(session) THEN "end" ELSE "start"
          /\ job' = [tx |-> t, reason |-> "superseded"]
          /\ UNCHANGED <<phase, session, reading, seq, contactor, flash, client, broker, lastRun>>

\* {"op":"stop"}: ends the session it names and no other.
StopCommand(t) ==
  /\ Commandable
  /\ IF ~Runs(t) THEN ReportTx
     ELSE /\ pc' = "end"
          /\ job' = [tx |-> t, reason |-> "remote"]
          /\ UNCHANGED <<phase, session, reading, seq, contactor, flash, client, broker, lastRun>>

\* MUTANT of Guarded: nobody installed the guard.
Guarded_Missing(on) == FALSE /\ on

\* relay_guard: a session is not cut short by a plain off.
Guarded(on) == Active(session) /\ ~on

\* MUTANT of RelayCommand: the switched contactor is not reported.
RelayCommand_Silent(on, force) ==
  /\ Commandable
  /\ IF Guarded(on) /\ force
     THEN /\ pc' = "end"
          /\ job' = [tx |-> NoTx, reason |-> "admin"]
          /\ UNCHANGED <<contactor, nvsRelay, outbox>>
     ELSE /\ IF Guarded(on) THEN UNCHANGED <<contactor, nvsRelay>>
                             ELSE SetContactor(on)
          /\ UNCHANGED <<pc, job, outbox>>
  /\ UNCHANGED <<phase, session, reading, seq, nvsSession, connected, inflight, broker, lastRun>>

\* {"on":..., "force":...}: refused, or ends the session first, or switches.
\* Every outcome reports the contactor's position.
RelayCommand(on, force) ==
  /\ Commandable
  /\ IF Guarded(on) /\ force
     THEN /\ pc' = "end"
          /\ job' = [tx |-> NoTx, reason |-> "admin"]
          /\ UNCHANGED <<contactor, nvsRelay, outbox>>
     ELSE /\ IF Guarded(on) THEN UNCHANGED <<contactor, nvsRelay>>
                             ELSE SetContactor(on)
          /\ outbox' = Append(outbox, RelayState(contactor'))
          /\ UNCHANGED <<pc, job>>
  /\ UNCHANGED <<phase, session, reading, seq, nvsSession, connected, inflight, broker, lastRun>>

(***************************************************************************)
(* The meter                                                                *)
(***************************************************************************)

\* charging_session_note_reading: a session without a base takes this one.
NoteReading(k) ==
  /\ Ready
  /\ reading' = k
  /\ IF Active(session) /\ session.base = Unreadable /\ k # Unreadable
     THEN /\ session' = [session EXCEPT !.base = k]
          /\ \E stored \in Written(WithId(nvsSession, session), nvsSession) :
               nvsSession' \in Written(WithBase(stored, session'), stored)
     ELSE UNCHANGED <<session, nvsSession>>
  /\ UNCHANGED <<phase, pc, job, seq, contactor, nvsRelay, client, broker, lastRun>>

\* meter_values_task: progress, only while somebody can hear it.
PublishMeterValue ==
  /\ Commandable
  /\ Active(session)
  /\ reading # NoReading
  /\ seq < MaxSeq
  /\ seq' = seq + 1
  /\ outbox' = Append(outbox, MeterValue(session, seq'))
  /\ UNCHANGED <<phase, pc, job, session, reading, contactor, flash, connected, inflight, broker, lastRun>>

----------------------------------------------------------------------------
Boot == BootRelay \/ NetworkFound \/ SessionInit

Handler == EndContactor \/ EndSession \/ StartId \/ StartBase \/ StartPower

Command ==
  \/ \E t \in Tx : StartCommand(t) \/ StopCommand(t)
  \/ \E on, force \in BOOLEAN : RelayCommand(on, force)

Meter == PublishMeterValue \/ \E k \in MaybeKwh : NoteReading(k)

Network == Connect \/ Disconnect \/ Transmit \/ Acknowledge

Next == Boot \/ PowerLoss \/ Handler \/ Command \/ Meter \/ Network

Spec == Init /\ [][Next]_vars

\* The tasks are scheduled, and power is not cut for ever between finding the
\* network and charging_session_init, a few calls later.  Nothing is assumed of
\* commands, of readings or of the network, NetworkFound included.
Fairness == WF_vars(BootRelay) /\ SF_vars(SessionInit) /\ WF_vars(Handler)

FairSpec == Spec /\ Fairness

----------------------------------------------------------------------------
(* Properties                                                               *)

TypeOK ==
  /\ phase \in {"off", "boot", "wifi", "run"}
  /\ pc \in Pcs
  /\ job \in Jobs
  /\ session \in Session
  /\ reading \in MaybeKwh \cup {NoReading}
  /\ seq \in Nat
  /\ contactor \in BOOLEAN
  /\ nvsSession \in Session
  /\ nvsRelay \in BOOLEAN
  /\ connected \in BOOLEAN
  /\ outbox \in Seq(Message)
  /\ inflight \in 0..Len(outbox)
  /\ retainedTx \in Session
  /\ retainedRelay \in BOOLEAN
  /\ shown \in SUBSET Session
  /\ ends \in SUBSET EndMessage
  /\ lastRun \in Nat

\* Whenever no handler is at work, an active session has its contactor closed:
\* no mix of commands, refused and forced offs, and power cuts in the middle of
\* a start or an end leaves a customer's session without power.
ActiveIsPowered == Ready /\ Active(session) => contactor

\* Whenever no handler is at work, a power cut at this instant would resume
\* exactly the session that is running, base included, and no other: what
\* persist() wrote on the way here adds up to what the memory holds.
FlashHoldsTheSession ==
  ~NvsMayFail /\ Ready =>
    /\ Active(nvsSession) <=> Active(session)
    /\ Active(session) => nvsSession = session

\* An end that reached the broker is final: that session neither runs again nor
\* would it after a power cut, and it is the only end of its session, although
\* messages are sent twice and power can fail between any two flash writes.
EndIsFinal ==
  ~NvsMayFail =>
    \A e \in ends :
      /\ ~(Active(session) /\ session.run = e.session.run)
      /\ ~(Active(nvsSession) /\ nvsSession.run = e.session.run)
      /\ \A f \in ends : f.session.run = e.session.run => f = e

\* A base the broker ever saw for a session is the base it is billed from, even
\* when a power cut fell between the announcement and the end.
AnnouncedBaseIsBilled ==
  ~NvsMayFail =>
    \A e \in ends, s \in shown :
      s.run = e.session.run => s.base = e.session.base

\* "Two acks, in order, from one command": the broker never learns the end of a
\* session after it learned that a later one is active.
EndsArriveInOrder ==
  [][\A e \in ends' \ ends : e.session.run >= retainedTx.run]_vars

\* Everything was sent and acknowledged, and no handler is at work.
Quiet == Ready /\ connected /\ outbox = <<>>

\* Once quiet, the retained relay message is the contactor's position.
RetainedRelayIsTrue == Quiet => retainedRelay = contactor

\* Once quiet, the retained tx message is the session, except that it may still
\* show one an administrator's forced off ended, whose tx/end was delivered.
RetainedTxIsTrueOrEnded ==
  Quiet => \/ Active(retainedTx) = Active(session) /\ retainedTx.run = session.run
           \/ /\ ~Active(session)
              /\ \E e \in ends : e.session.run = retainedTx.run /\ e.reason = "admin"

\* A session that flash holds is resumed after a power cut, contactor closed,
\* unless from some moment on the charger never finds its network again: then
\* app_main waits for ever, and the session with it.
SessionsResume ==
  []<>(phase \in {"wifi", "run"}) =>
    \A r \in 1..MaxRuns :
      (phase = "off" /\ Active(nvsSession) /\ nvsSession.run = r)
        ~> (Active(session) /\ session.run = r /\ contactor)

(***************************************************************************)
(* Why the safety properties hold: an inductive invariant.                  *)
(***************************************************************************)

\* The tx/end messages that reached the broker or still may.
AllEnds == ends \cup {m \in Range(outbox) : IsEnd(m)}

\* A handler is at work only on a running device, and knows what it works on.
PcInv ==
  /\ phase # "run" => pc = "idle" /\ session = NoSession
  /\ pc \in {"end", "ended", "start_base", "start_power"} => Active(session)
  /\ pc = "start" => ~Active(session) /\ Active(job)
  /\ pc \in {"end", "ended"} /\ job.reason = "superseded" => Active(job)

\* Sessions carry the numbers given out so far.
RunInv ==
  /\ ~Active(session) => session = NoSession
  /\ Active(session) => session.run \in 1..lastRun
  /\ Active(nvsSession) => nvsSession.run \in 1..lastRun
  /\ \A e \in AllEnds : e.session.run \in 1..lastRun

\* What flash holds at each step of a handler.
FlashInv ==
  phase = "run" =>
    /\ pc \in {"idle", "end", "ended"} =>
         /\ Active(nvsSession) <=> Active(session)
         /\ Active(session) => nvsSession = session
    /\ pc = "start" => ~Active(nvsSession)
    /\ pc = "start_base" =>
         nvsSession.run = session.run /\ nvsSession.tx = session.tx
    /\ pc = "start_power" => nvsSession = session

\* An end that is on its way, or there, is the only one of its session, and
\* nothing holds that session any more.
EndsInv ==
  \A e \in AllEnds :
    /\ Active(session) => session.run # e.session.run
    /\ Active(nvsSession) => nvsSession.run # e.session.run
    /\ \A f \in AllEnds : f.session.run = e.session.run => f = e

\* The properties need more than they say: an end waiting in the outbox is as
\* final as one delivered, and memory and flash agree step by step.
IInv ==
  /\ TypeOK
  /\ PcInv
  /\ RunInv
  /\ ~NvsMayFail => FlashInv /\ EndsInv

\* The contract the charger implements, seen through flash and broker.
Contract == INSTANCE SessionContract WITH
  open <- IF Active(nvsSession) THEN nvsSession.run ELSE 0,
  opened <- lastRun,
  announced <- {e.session.run : e \in ends}

ImplementsContract == Contract!Spec
==============================================================================
