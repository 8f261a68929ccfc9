----------------------------- MODULE Provisioning -----------------------------
(***************************************************************************)
(* How a charger gets, and gets back, its Wi-Fi network (provisioning.c,   *)
(* with the fallback).  A charger that cannot reach the stored network     *)
(* opens a window in which new credentials are sent to it over Bluetooth,  *)
(* then goes back to the stored ones, "alternating until one of them       *)
(* works".                                                                 *)
(*                                                                         *)
(* Three tasks share the state without a lock: the event loop handles what *)
(* the Wi-Fi driver, the provisioning manager and Bluetooth report, in     *)
(* order; the timers' task sets event bits; the supervisor task takes all  *)
(* bits at once and opens and closes windows, in steps the others may come *)
(* in between.                                                             *)
(*                                                                         *)
(* The driver and the manager are external and modelled as the code uses   *)
(* them: starting the manager blanks the configuration and disconnects;    *)
(* credentials that are received are configured and tried once; after they *)
(* connected the manager makes no attempt any more, and ends by itself; the *)
(* driver may refuse a configuration, which the code does not look at.     *)
(***************************************************************************)
EXTENDS Naturals, Sequences, SequencesExt

CONSTANTS
  Credentials, \* credentials, each of a network that may or may not be there
  Blank,       \* the configuration without any
  MaxPosted    \* bound: events waiting when an attempt, a connection or a timer ends

ASSUME CredentialsAssumption == Blank \notin Credentials /\ MaxPosted \in Nat

VARIABLES
  config,          \* the station's configuration in the driver
  station,         \* the driver: "off", "trying" to connect, or "up"
  manager,         \* the provisioning manager
  linked,          \* a Bluetooth client is connected
  loop,            \* events posted and not yet handled
  bits,            \* s_supervisor_events
  reconnectTimer,  \* s_reconnect_timer is running
  windowTimer,     \* s_window_timer is running
  supervisor,      \* what the supervisor is in the middle of
  fallbackActive,  \* s_fallback_active
  gotNewCreds,     \* s_fallback_got_new_creds
  clientConnected, \* s_ble_client_connected
  backup,          \* s_backup_config
  accepted,        \* history: the credentials that connected last
  late,            \* history: the network was lost before the manager had ended
  refused          \* history: the driver refused the copy of the configuration, and
                   \* nothing has connected with new credentials since

wifi == <<config, station>>
bluetooth == <<linked, clientConnected>>
timers == <<reconnectTimer, windowTimer>>
flags == <<fallbackActive, gotNewCreds, backup>>
history == <<accepted, late, refused>>
wifiVars == <<wifi, manager, bluetooth, loop, bits, timers, supervisor, flags, history>>

----------------------------------------------------------------------------
Config == Credentials \cup {Blank}

ManagerStates == {"off", "waiting", "received", "failed", "success", "stopped"}

Events == {"disconnected", "got_ip", "fail", "success", "end", "ble_on", "ble_off"}

Bits == {"reconnect", "window", "done"}

Post(events) == loop' = loop \o events

\* esp_wifi_connect(): needs a configuration, and nothing to be going on.
Connected(state, configured) ==
  IF state = "off" /\ configured # Blank THEN "trying" ELSE state

\* provisioning_start: a charger that has credentials starts the station with
\* them, any other waits for its first ones; fallback_init has run before.
WifiInit ==
  /\ config \in Config
  /\ station = Connected("off", config)
  /\ manager = IF config = Blank THEN "waiting" ELSE "off"
  /\ linked = FALSE /\ clientConnected = FALSE
  /\ loop = <<>> /\ bits = {}
  /\ reconnectTimer = FALSE /\ windowTimer = FALSE
  /\ supervisor = "wait"
  /\ fallbackActive = FALSE /\ gotNewCreds = FALSE
  /\ backup = Blank
  /\ accepted = config
  /\ late = FALSE
  /\ refused = FALSE

(***************************************************************************)
(* What is reported                                                        *)
(***************************************************************************)

\* An attempt succeeds or fails.  The manager looks at the attempt it began, and
\* takes the failure of an earlier one for that of its own.
AttemptEnds(succeeds) ==
  /\ station = "trying" /\ Len(loop) < MaxPosted
  /\ LET own == manager = "received" IN
       IF succeeds /\ config # Blank
         THEN /\ station' = "up"
              /\ manager' = IF own THEN "success" ELSE manager
              /\ Post(<<"got_ip">> \o IF own THEN <<"success">> ELSE <<>>)
         ELSE /\ station' = "off"
              /\ manager' = IF own THEN "failed" ELSE manager
              /\ Post(<<"disconnected">> \o IF own THEN <<"fail">> ELSE <<>>)
  /\ UNCHANGED <<config, bluetooth, bits, timers, supervisor, flags, history>>

\* The network goes away.
NetworkLost ==
  /\ station = "up" /\ Len(loop) < MaxPosted
  /\ station' = "off"
  /\ Post(<<"disconnected">>)
  /\ UNCHANGED <<config, manager, bluetooth, bits, timers, supervisor, flags, history>>

\* A client comes to a manager that runs, and goes.
ClientComes ==
  /\ manager \notin {"off", "stopped"} /\ ~linked
  /\ ~Contains(loop, "ble_off")       \* bound: clients come one at a time
  /\ linked' = TRUE
  /\ Post(<<"ble_on">>)
  /\ UNCHANGED <<wifi, manager, clientConnected, bits, timers, supervisor, flags, history>>

ClientGoes ==
  /\ linked
  /\ linked' = FALSE
  /\ Post(<<"ble_off">>)
  /\ UNCHANGED <<wifi, manager, clientConnected, bits, timers, supervisor, flags, history>>

\* A client sends credentials, right ones or wrong ones.
ClientSends(network) ==
  /\ linked /\ manager = "waiting"
  /\ manager' = "received"
  /\ config' = network
  /\ station' = Connected(station, network)
  /\ UNCHANGED <<bluetooth, loop, bits, timers, supervisor, flags, history>>

\* The service stopped, its client with it.
Hangup == linked' = FALSE /\ Post(IF linked THEN <<"ble_off">> ELSE <<>>)

\* Some time after the success the manager stops by itself.
ManagerStops ==
  /\ manager = "success"
  /\ manager' = "stopped"
  /\ linked' = FALSE
  /\ Post((IF linked THEN <<"ble_off">> ELSE <<>>) \o <<"end">>)
  /\ UNCHANGED <<wifi, clientConnected, bits, timers, supervisor, flags, history>>

(***************************************************************************)
(* The event loop                                                          *)
(***************************************************************************)
Handle(event) ==
  /\ loop # <<>> /\ Head(loop) = event
  /\ loop' = Tail(loop)

\* MUTANT of HandleDisconnected: connects again, but starts no countdown.
HandleDisconnected_NoCountdown ==
  /\ Handle("disconnected")
  /\ reconnectTimer' = reconnectTimer
  /\ station' = IF fallbackActive THEN station ELSE Connected(station, config)
  /\ UNCHANGED <<config, manager, bluetooth, bits, windowTimer, supervisor, flags, history>>

\* Counts down to a window from the first disconnection (note_disconnected), and
\* connects again, unless a window is open.
HandleDisconnected ==
  /\ Handle("disconnected")
  /\ reconnectTimer' = (reconnectTimer \/ ~fallbackActive)
  /\ station' = IF fallbackActive THEN station ELSE Connected(station, config)
  /\ UNCHANGED <<config, manager, bluetooth, bits, windowTimer, supervisor, flags, history>>

\* note_connected: stops the countdown, but not a bit it has already set.
HandleGotIp ==
  /\ Handle("got_ip")
  /\ reconnectTimer' = FALSE
  /\ UNCHANGED <<wifi, manager, bluetooth, bits, windowTimer, supervisor, flags, history>>

\* After so many failures the manager is made to wait for other credentials.
HandleFail ==
  /\ Handle("fail")
  /\ manager' \in {manager, IF manager = "failed" THEN "waiting" ELSE manager}
  /\ UNCHANGED <<wifi, bluetooth, bits, timers, supervisor, flags, history>>

HandleSuccess ==
  /\ Handle("success")
  /\ gotNewCreds' = TRUE
  /\ IF supervisor \in {"close", "closed"}
       THEN UNCHANGED <<accepted, refused>>
       ELSE accepted' = config /\ refused' = FALSE
  /\ UNCHANGED <<wifi, manager, bluetooth, bits, timers, supervisor, fallbackActive,
                 backup, late>>

HandleEnd ==
  /\ Handle("end")
  /\ manager' = "off"
  /\ bits' = bits \cup {"done"}
  /\ UNCHANGED <<wifi, bluetooth, timers, supervisor, flags, history>>

HandleClient ==
  /\ Handle("ble_on") \/ Handle("ble_off")
  /\ clientConnected' = (Head(loop) = "ble_on")
  /\ UNCHANGED <<wifi, manager, linked, bits, timers, supervisor, flags, history>>

EventLoop ==
  \/ HandleDisconnected \/ HandleGotIp \/ HandleFail \/ HandleSuccess \/ HandleEnd
  \/ HandleClient

(***************************************************************************)
(* The timers                                                              *)
(***************************************************************************)

ReconnectTimeout ==
  /\ reconnectTimer /\ Len(loop) < MaxPosted
  /\ reconnectTimer' = FALSE
  /\ bits' = bits \cup {"reconnect"}
  /\ UNCHANGED <<wifi, manager, bluetooth, loop, windowTimer, supervisor, flags, history>>

WindowTimeout ==
  /\ windowTimer
  /\ windowTimer' = FALSE
  /\ bits' = bits \cup {"window"}
  /\ UNCHANGED <<wifi, manager, bluetooth, loop, reconnectTimer, supervisor, flags, history>>

(***************************************************************************)
(* The supervisor                                                          *)
(***************************************************************************)

\* Takes the bits, all of them, whether or not it acts on each.
Wakes ==
  /\ supervisor = "wait"
  /\ bits # {}
  /\ bits' = {}
  /\ UNCHANGED <<wifi, manager, bluetooth, loop, reconnectTimer, gotNewCreds, backup, accepted,
                 refused>>

\* No window is open: only the reconnect timeout means anything.
Rest ==
  /\ Wakes
  /\ ~fallbackActive
  /\ supervisor' = IF "reconnect" \in bits THEN "open" ELSE "wait"
  /\ UNCHANGED <<windowTimer, fallbackActive, late>>

\* The manager has ended with new credentials.
WindowIsDone ==
  /\ Wakes
  /\ fallbackActive /\ "done" \in bits
  /\ windowTimer' = FALSE
  /\ fallbackActive' = FALSE
  /\ late' = (late \/ station # "up")
  /\ UNCHANGED supervisor

\* MUTANT of WindowIsOver: does not ask whether there are new credentials.
WindowIsOver_Impatient ==
  /\ Wakes
  /\ fallbackActive /\ "done" \notin bits
  /\ IF "window" \in bits
       THEN /\ windowTimer' = clientConnected
            /\ supervisor' = IF windowTimer' THEN "wait" ELSE "close"
       ELSE UNCHANGED <<windowTimer, supervisor>>
  /\ UNCHANGED <<fallbackActive, late>>

\* Time is up, unless a client is connected or new credentials have just connected;
\* a reconnect timeout means nothing.
WindowIsOver ==
  /\ Wakes
  /\ fallbackActive /\ "done" \notin bits
  /\ IF "window" \in bits
       THEN /\ windowTimer' = (clientConnected \/ gotNewCreds)
            /\ supervisor' = IF windowTimer' THEN "wait" ELSE "close"
       ELSE UNCHANGED <<windowTimer, supervisor>>
  /\ UNCHANGED <<fallbackActive, late>>

\* open_fallback_window: the manager starts ...
OpenWindow ==
  /\ supervisor = "open" /\ manager = "off"
  /\ backup' = config
  /\ gotNewCreds' = FALSE
  /\ manager' = "waiting"
  /\ config' = Blank
  /\ station' = "off"
  /\ Post(IF station = "off" THEN <<>> ELSE <<"disconnected">>)
  /\ supervisor' = "opened"
  /\ UNCHANGED <<bluetooth, bits, timers, fallbackActive, history>>

\* ... or does not: it may still be running, from the first provisioning.
OpenFails ==
  /\ supervisor = "open"
  /\ backup' = config
  /\ gotNewCreds' = FALSE
  /\ station' = Connected(station, config)
  /\ reconnectTimer' = TRUE
  /\ supervisor' = "wait"
  /\ UNCHANGED <<config, manager, bluetooth, loop, bits, windowTimer, fallbackActive, history>>

\* Only now is the window open to the event loop.
WindowOpened ==
  /\ supervisor = "opened"
  /\ fallbackActive' = TRUE
  /\ windowTimer' = TRUE
  /\ supervisor' = "wait"
  /\ UNCHANGED <<wifi, manager, bluetooth, loop, bits, reconnectTimer, gotNewCreds, backup, history>>

\* close_fallback_window: stops the manager, which posts nothing then; the call
\* blocks for longer than the event loop needs for what was posted before ...
CloseWindow ==
  /\ supervisor = "close"
  /\ manager' = "off"
  /\ Hangup
  /\ supervisor' = "closed"
  /\ UNCHANGED <<wifi, clientConnected, bits, timers, flags, history>>

ManagerIsHeard == ~\E e \in {"fail", "success", "end"} : Contains(loop, e)

\* ... from here on a disconnection connects again, with whatever is configured ...
WindowClosed ==
  /\ supervisor = "closed" /\ ManagerIsHeard
  /\ supervisor' = "restore"
  /\ fallbackActive' = FALSE
  /\ UNCHANGED <<wifi, manager, bluetooth, loop, bits, timers, gotNewCreds, backup, history>>

\* ... the copy is put back, if there is one and the driver takes it ...
ConfigRestored ==
  /\ supervisor = "restore"
  /\ supervisor' = "connect"
  /\ config' \in {config, IF backup = Blank THEN config ELSE backup}
  /\ refused' = (refused \/ backup \notin {Blank, config'})
  /\ UNCHANGED <<station, manager, bluetooth, loop, bits, timers, flags, accepted, late>>

\* MUTANT of ConnectsAgain: connecting again is left to the next disconnection.
ConnectsAgain_Leaves ==
  /\ supervisor = "connect"
  /\ supervisor' = "countdown"
  /\ UNCHANGED <<wifi, manager, bluetooth, loop, bits, timers, flags, history>>

\* ... the station connects with it ...
ConnectsAgain ==
  /\ supervisor = "connect"
  /\ supervisor' = "countdown"
  /\ station' = Connected(station, config)
  /\ UNCHANGED <<config, manager, bluetooth, loop, bits, timers, flags, history>>

\* ... and the countdown to the next window runs even if nothing disconnects.
CountsDown ==
  /\ supervisor = "countdown"
  /\ supervisor' = "wait"
  /\ reconnectTimer' = TRUE
  /\ UNCHANGED <<wifi, manager, bluetooth, loop, bits, windowTimer, flags, history>>

Supervisor ==
  \/ Rest \/ WindowIsDone \/ WindowIsOver
  \/ OpenWindow \/ OpenFails \/ WindowOpened
  \/ CloseWindow \/ WindowClosed \/ ConfigRestored \/ ConnectsAgain \/ CountsDown

----------------------------------------------------------------------------
Client == ClientComes \/ ClientGoes \/ (\E n \in Credentials : ClientSends(n))

Driver == \E succeeds \in BOOLEAN : AttemptEnds(succeeds)

WifiNext ==
  \/ Client \/ Driver \/ NetworkLost \/ ManagerStops
  \/ EventLoop \/ ReconnectTimeout \/ WindowTimeout \/ Supervisor

WifiSpec == WifiInit /\ [][WifiNext]_wifiVars

\* Tasks run, timers go off, attempts come to an end, and so does a manager that
\* has succeeded; one that is off can be started, if not every time.  Nothing is
\* assumed of networks and clients.
FairWifiSpec ==
  /\ WifiSpec
  /\ WF_wifiVars(EventLoop) /\ WF_wifiVars(Supervisor) /\ WF_wifiVars(Driver)
  /\ WF_wifiVars(WindowTimeout) /\ WF_wifiVars(ManagerStops)
  /\ SF_wifiVars(ReconnectTimeout) /\ SF_wifiVars(OpenWindow)

----------------------------------------------------------------------------
(* Properties                                                               *)

WifiTypeOK ==
  /\ config \in Config /\ backup \in Config /\ accepted \in Config
  /\ station \in {"off", "trying", "up"}
  /\ manager \in ManagerStates
  /\ loop \in Seq(Events)
  /\ bits \subseteq Bits
  /\ supervisor \in {"wait", "open", "opened", "close", "closed", "restore", "connect",
                     "countdown"}

AtRest == supervisor = "wait" /\ ~fallbackActive /\ manager = "off"

\* "The stored credentials are only replaced when new ones actually connect", and
\* new ones that did are kept: between windows the charger has those that
\* connected last, unless they did while the window was already being closed, or
\* the driver refused to take the old ones back.
StoredAreTheAccepted == WifiTypeOK /\ (AtRest /\ ~refused => config = accepted)

Provisionable == manager \notin {"off", "stopped"}

\* A charger without a network opens a window again and again, unless it lost
\* the network in the moment between connecting and the end of the manager.
WindowsReopen == []<>(station = "up" \/ Provisionable \/ late)

\* It goes back to the stored network again and again: no window stays open with
\* nobody there.  (The first provisioning has no network to go back to, nor has
\* a charger whose driver refused it.)
StoredIsRetried ==
  []<>(station # "off" \/ clientConnected \/ late \/ refused \/ accepted = Blank)
===============================================================================
