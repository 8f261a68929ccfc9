---------------------------- MODULE FactoryWorkflow ----------------------------
(***************************************************************************)
(* Flashing boards at the factory: stations that run provisionDevice, the  *)
(* factory routes and the device store of the API, and the boards.         *)
(*                                                                         *)
(* A run connects to the board that is plugged in, registers its MAC,      *)
(* fetches the identity partition, erases and writes the flash, and        *)
(* records the flash.  A request is a handler of its own: between two of   *)
(* its statements others run, and it runs on when the browser has given it *)
(* up.  Boards are unplugged at any time and plugged in elsewhere.         *)
(***************************************************************************)
EXTENDS NvsPartition, FiniteSets

CONSTANTS
  Station,          \* browsers with the factory app
  Board,            \* boards, named by their MAC address
  WrongChip,        \* boards the firmware does not fit: family or flash size
  Meter,            \* meters an operator can choose
  Unsupported,      \* those of them the firmware's manifest does not list
  NoMeter,          \* a row without a meter
  Nowhere,          \* plugged in at no station
  Bundle,           \* firmware bundles, named by their partition table
  Blank, Torn,      \* flash that is erased, or partly written
  MaxRuns,          \* bound: runs started
  MaxGivenUp        \* bound: requests given up while the API works on them

ASSUME FactoryAssumption ==
  /\ WrongChip \subseteq Board /\ Unsupported \subseteq Meter
  /\ NoMeter \notin Meter /\ Nowhere \notin Station /\ "given up" \notin Station
  /\ MaxRuns \in Nat /\ MaxGivenUp \in {0, 1}

VARIABLES
  firmware,  \* the bundle each station has loaded
  rows,      \* devices: the registry, by id
  sequence,  \* the last id the identity column's sequence has issued
  run,       \* the state of each station
  call,      \* the requests the API works on
  plugged,   \* where each board is plugged in
  flash,     \* what is in each board's flash
  runs,      \* runs started
  givenUp,   \* requests given up
  written,   \* history: verified writes of each board's flash
  latest,    \* history: the number of the last run on each board
  contested  \* history: boards registered while another request did

registry == <<rows, sequence>>
boards == <<plugged, flash>>
history == <<written, latest, contested>>
vars == <<firmware, registry, run, call, boards, runs, givenUp, history>>

----------------------------------------------------------------------------
(* The registry                                                             *)

Ids == 1..(2 * MaxRuns)

NoRow == [mac |-> Nowhere, meter |-> NoMeter, flashes |-> 0]
Row == [mac : Board, meter : Meter \union {NoMeter}, flashes : Nat]

Known == {i \in Ids : rows[i] # NoRow}

\* The id of a MAC, 0 when there is none: byMac.
byMac(mac) == IF \E i \in Known : rows[i].mac = mac
                THEN CHOOSE i \in Known : rows[i].mac = mac
                ELSE 0

\* The image the partition route builds from a row.  "SONIK-<id>" and the
\* secret are the row's own; both are told apart by its id.
MeterEntries(meter) ==
  IF meter = NoMeter THEN <<>>
  ELSE << <<"meter_model", Text(6, meter)>>, <<"meter_addr", Number("u8", 1)>>,
          <<"meter_baud", Number("u32", 2400)>>, <<"meter_parity", Text(4, "none")>> >>

FactoryImage(i, meter, size) ==
  generateNvsPartition(
    << [name |-> "factory",
        values |-> << <<"identity", Text(7, i)>>, <<"pop", Text(32, i)>> >>
                     \o MeterEntries(meter)] >>, size)

----------------------------------------------------------------------------
(* Requests                                                                 *)

\* Each station has one request at a time; one more may have been given up.
GivenUp == "given up"
Slot == Station \union {GivenUp}

NoCall == [op |-> "none", at |-> "none", mac |-> Nowhere, meter |-> NoMeter,
           id |-> 0, size |-> 0, image |-> Refused]

Register(mac, meter) ==
  [NoCall EXCEPT !.op = "register", !.at = "lookup", !.mac = mac, !.meter = meter]
GetPartition(i, size) ==
  [NoCall EXCEPT !.op = "partition", !.at = "read", !.id = i, !.size = size]
MarkFlashed(i) == [NoCall EXCEPT !.op = "flashed", !.at = "update", !.id = i]

\* The handler in x goes on; it answers, to nobody when it was given up.
Goes(x, c) == call' = [call EXCEPT ![x] = c]
Answers(x, c) ==
  Goes(x, IF x = GivenUp THEN NoCall ELSE [c EXCEPT !.at = "answered"])

----------------------------------------------------------------------------
(* The stations                                                             *)

Idle == [state |-> "idle", step |-> "none", board |-> Nowhere, linked |-> FALSE,
         meter |-> NoMeter, erase |-> TRUE, device |-> 0, image |-> Refused,
         number |-> 0]

\* The fctry partition loadFirmware finds in the bundle, or Refused: then
\* there is no firmware to flash.
factoryPartition(s) == findPartition(parsePartitionTable(firmware[s]), "fctry")

Init ==
  /\ rows = [i \in Ids |-> NoRow]
  /\ sequence = 0
  /\ run = [s \in Station |-> Idle]
  /\ call = [x \in Slot |-> NoCall]
  /\ plugged = [b \in Board |-> Nowhere]
  /\ flash = [b \in Board |-> [firmware |-> Blank, identity |-> Blank, run |-> 0]]
  /\ runs = 0
  /\ givenUp = 0
  /\ firmware \in [Station -> Bundle]
  /\ written = [b \in Board |-> 0]
  /\ latest = [b \in Board |-> 0]
  /\ contested = {}

----------------------------------------------------------------------------
(* The operators                                                            *)

Plug(b, s) ==
  /\ plugged[b] = Nowhere
  /\ \A other \in Board : plugged[other] # s
  /\ plugged' = [plugged EXCEPT ![b] = s]
  /\ UNCHANGED <<firmware, registry, run, call, flash, runs, givenUp, history>>

\* The serial port goes with the board: a run that has it open has lost it.
Unplug(b) ==
  LET s == plugged[b]
  IN  /\ s # Nowhere
      /\ plugged' = [plugged EXCEPT ![b] = Nowhere]
      /\ run' = [run EXCEPT ![s].linked = FALSE]
      /\ UNCHANGED <<firmware, registry, call, flash, runs, givenUp, history>>

----------------------------------------------------------------------------
(* A run                                                                    *)

Runs(s, step) == run[s].state = "running" /\ run[s].step = step
CallDone(s) == call[s].at = "answered"
Registering(x, b) ==
  call[x].op = "register" /\ call[x].at # "answered" /\ call[x].mac = b

\* The boards behind the port the operator picks: one at most.
Behind(s) == {b \in Board : plugged[b] = s}

\* The picker is closed, or the chip does not answer: what the page showed of
\* the last run is gone.
ConnectFails(s) ==
  /\ factoryPartition(s) # Refused
  /\ run[s].state # "running"
  /\ \E state \in {"idle", "failed"} : run' = [run EXCEPT ![s] = [Idle EXCEPT !.state = state]]
  /\ UNCHANGED <<firmware, registry, call, boards, runs, givenUp, history>>

\* The checks of provisionDevice: the chip the firmware is for, and a meter
\* whose driver is in it.
Fits(b, meter) == b \notin WrongChip /\ meter \notin Unsupported

\* The click: connect, the checks, and the request that registers the board,
\* which comes only after both.
Start(s, b, meter, erase) ==
  /\ factoryPartition(s) # Refused
  /\ run[s].state # "running"
  /\ b \in Behind(s)
  /\ runs < MaxRuns
  /\ runs' = runs + 1
  /\ latest' = [latest EXCEPT ![b] = runs + 1]
  /\ contested' = IF \E x \in Slot : Registering(x, b) THEN contested \union {b}
                                                      ELSE contested
  /\ LET started == [Idle EXCEPT !.board = b, !.meter = meter, !.erase = erase,
                                 !.number = runs + 1]
     IN  IF Fits(b, meter)
           THEN /\ run' = [run EXCEPT ![s] = [started EXCEPT
                             !.state = "running", !.step = "register", !.linked = TRUE]]
                /\ Goes(s, Register(b, meter))
           ELSE /\ run' = [run EXCEPT ![s] = [started EXCEPT !.state = "failed"]]
                /\ UNCHANGED call
  /\ UNCHANGED <<firmware, registry, boards, givenUp, written>>

Registered(s) ==
  /\ Runs(s, "register") /\ CallDone(s)
  /\ run' = [run EXCEPT ![s].step = "identity", ![s].device = call[s].id]
  /\ Goes(s, GetPartition(call[s].id, factoryPartition(s).size))
  /\ UNCHANGED <<firmware, registry, boards, runs, givenUp, history>>

\* An error, whichever it was, ends the run and closes the port.
Fail(s) == run' = [run EXCEPT ![s].state = "failed", ![s].linked = FALSE]

GotPartition(s) ==
  /\ Runs(s, "identity") /\ CallDone(s)
  /\ IF call[s].image = Refused
       THEN Fail(s)
       ELSE run' = [run EXCEPT ![s].step = IF run[s].erase THEN "erase" ELSE "firmware",
                               ![s].image = call[s].image]
  /\ Goes(s, NoCall)
  /\ UNCHANGED <<firmware, registry, boards, runs, givenUp, history>>

Flashes(s, field, content) ==
  flash' = [flash EXCEPT ![run[s].board] =
              [[@ EXCEPT ![field] = content] EXCEPT !.run = run[s].number]]

Erase(s) ==
  /\ Runs(s, "erase") /\ run[s].linked
  /\ flash' = [flash EXCEPT ![run[s].board] =
                 [firmware |-> Blank, identity |-> Blank, run |-> run[s].number]]
  /\ run' = [run EXCEPT ![s].step = "firmware"]
  /\ UNCHANGED <<firmware, registry, call, plugged, runs, givenUp, history>>

\* writeFlash writes and verifies one file after the other, the identity last.
WriteFirmware(s) ==
  /\ Runs(s, "firmware") /\ run[s].linked
  /\ Flashes(s, "firmware", firmware[s])
  /\ run' = [run EXCEPT ![s].step = "partition"]
  /\ UNCHANGED <<firmware, registry, call, plugged, runs, givenUp, history>>

WriteIdentity(s) ==
  /\ Runs(s, "partition") /\ run[s].linked
  /\ Flashes(s, "identity", run[s].image)
  /\ written' = [written EXCEPT ![run[s].board] = @ + 1]
  /\ run' = [run EXCEPT ![s].step = "record"]
  /\ Goes(s, MarkFlashed(run[s].device))
  /\ UNCHANGED <<firmware, registry, plugged, runs, givenUp, latest, contested>>

\* MUTANT of WriteBreaks: the chip's checksum is not looked at.
WriteBreaks_Unnoticed(s) ==
  /\ Runs(s, "partition") /\ run[s].linked
  /\ Flashes(s, "identity", Torn)
  /\ run' = [run EXCEPT ![s].step = "record"]
  /\ Goes(s, MarkFlashed(run[s].device))
  /\ UNCHANGED <<firmware, registry, plugged, runs, givenUp, history>>

\* The write stops half way, or the chip's own checksum is not the file's.
WriteBreaks(s) ==
  /\ run[s].linked
  /\ \/ Runs(s, "firmware") /\ Flashes(s, "firmware", Torn)
     \/ Runs(s, "partition") /\ Flashes(s, "identity", Torn)
  /\ Fail(s)
  /\ UNCHANGED <<firmware, registry, call, plugged, runs, givenUp, history>>

Recorded(s) ==
  /\ Runs(s, "record") /\ CallDone(s)
  /\ run' = [run EXCEPT ![s].step = "reset"]
  /\ Goes(s, NoCall)
  /\ UNCHANGED <<firmware, registry, boards, runs, givenUp, history>>

\* reset() swallows its errors: the run is done, the board reset or not.
Reset(s) ==
  /\ Runs(s, "reset")
  /\ run' = [run EXCEPT ![s].state = "done", ![s].linked = FALSE]
  /\ UNCHANGED <<firmware, registry, call, boards, runs, givenUp, history>>

\* The port is gone when the run needs it.
PortLost(s) ==
  /\ run[s].state = "running" /\ ~run[s].linked
  /\ run[s].step \in {"erase", "firmware", "partition"}
  /\ Fail(s)
  /\ UNCHANGED <<firmware, registry, call, boards, runs, givenUp, history>>

\* A request fails before it reaches the API, or its answer is lost.
CallFails(s) ==
  /\ run[s].state = "running" /\ call[s] # NoCall
  /\ \/ call[s].at = "answered"
     \/ call[s].at \in {"lookup", "read"}
     \/ call[s].op = "flashed"
  /\ Goes(s, NoCall)
  /\ Fail(s)
  /\ UNCHANGED <<firmware, registry, boards, runs, givenUp, history>>

\* Or the browser gives it up, and the API goes on with it.
GiveUp(s) ==
  /\ run[s].state = "running" /\ call[s] # NoCall /\ ~CallDone(s)
  /\ givenUp < MaxGivenUp
  /\ givenUp' = givenUp + 1
  /\ call' = [call EXCEPT ![s] = NoCall, ![GivenUp] = call[s]]
  /\ Fail(s)
  /\ UNCHANGED <<firmware, registry, boards, runs, history>>

----------------------------------------------------------------------------
(* The API                                                                  *)

\* MUTANT of RegisterLooks: a blind insert that leaves a known MAC alone.
RegisterLooks_Blind(x) ==
  /\ call[x].op = "register" /\ call[x].at = "lookup"
  /\ Goes(x, [call[x] EXCEPT !.at = "insert"])
  /\ UNCHANGED <<firmware, registry, run, boards, runs, givenUp, history>>

\* register: look first.
RegisterLooks(x) ==
  LET c == call[x]
      id == byMac(c.mac)
  IN  /\ c.op = "register" /\ c.at = "lookup"
      /\ Goes(x, [c EXCEPT !.id = id, !.at = IF id = 0 THEN "insert" ELSE "update"])
      /\ UNCHANGED <<firmware, registry, run, boards, runs, givenUp, history>>

\* MUTANT of RegisterUpdates: a known MAC keeps the meter it was inserted with.
RegisterUpdates_KeepsMeter(x) ==
  /\ call[x].op = "register" /\ call[x].at = "update"
  /\ Answers(x, call[x])
  /\ UNCHANGED <<firmware, registry, run, boards, runs, givenUp, history>>

\* A known MAC: the latest choice of the meter wins.
RegisterUpdates(x) ==
  LET c == call[x]
  IN  /\ c.op = "register" /\ c.at = "update"
      /\ rows' = [rows EXCEPT ![c.id].meter = c.meter]
      /\ Answers(x, c)
      /\ UNCHANGED <<firmware, sequence, run, boards, runs, givenUp, history>>

\* MUTANT of RegisterInserts: the MAC is not unique.
RegisterInserts_Twice(x) ==
  LET c == call[x]
      id == sequence + 1
  IN  /\ c.op = "register" /\ c.at = "insert"
      /\ sequence' = id
      /\ rows' = [rows EXCEPT ![id] =
                    [mac |-> c.mac, meter |-> c.meter, flashes |-> 0]]
      /\ Answers(x, [c EXCEPT !.id = id])
      /\ UNCHANGED <<firmware, run, boards, runs, givenUp, history>>

\* A new one: onConflictDoNothing inserts or not, and takes a number of the
\* sequence either way.
RegisterInserts(x) ==
  LET c == call[x]
      id == sequence + 1
  IN  /\ c.op = "register" /\ c.at = "insert"
      /\ sequence' = id
      /\ IF byMac(c.mac) = 0
           THEN /\ rows' = [rows EXCEPT ![id] =
                              [mac |-> c.mac, meter |-> c.meter, flashes |-> 0]]
                /\ Answers(x, [c EXCEPT !.id = id])
           ELSE /\ UNCHANGED rows
                /\ Goes(x, [c EXCEPT !.at = "again"])
      /\ UNCHANGED <<firmware, run, boards, runs, givenUp, history>>

\* Lost the race: the other's row, as the other left it.
RegisterLooksAgain(x) ==
  LET c == call[x]
  IN  /\ c.op = "register" /\ c.at = "again"
      /\ Answers(x, [c EXCEPT !.id = byMac(c.mac)])
      /\ UNCHANGED <<firmware, registry, run, boards, runs, givenUp, history>>

BuildsPartition(x) ==
  LET c == call[x]
  IN  /\ c.op = "partition" /\ c.at = "read"
      /\ Answers(x, [c EXCEPT !.image = FactoryImage(c.id, rows[c.id].meter, c.size)])
      /\ UNCHANGED <<firmware, registry, run, boards, runs, givenUp, history>>

CountsFlash(x) ==
  LET c == call[x]
  IN  /\ c.op = "flashed" /\ c.at = "update"
      /\ rows' = [rows EXCEPT ![c.id].flashes = @ + 1]
      /\ Answers(x, c)
      /\ UNCHANGED <<firmware, sequence, run, boards, runs, givenUp, history>>

----------------------------------------------------------------------------

Operator ==
  \/ \E b \in Board, s \in Station : Plug(b, s)
  \/ \E b \in Board : Unplug(b)
  \/ \E s \in Station : ConnectFails(s)
  \/ \E s \in Station, b \in Board, m \in Meter, erase \in BOOLEAN : Start(s, b, m, erase)

Provision(s) ==
  \/ Registered(s) \/ GotPartition(s)
  \/ Erase(s) \/ WriteFirmware(s) \/ WriteIdentity(s) \/ WriteBreaks(s)
  \/ Recorded(s) \/ Reset(s)
  \/ PortLost(s) \/ CallFails(s) \/ GiveUp(s)

Handle(x) ==
  \/ RegisterLooks(x) \/ RegisterUpdates(x) \/ RegisterInserts(x)
  \/ RegisterLooksAgain(x) \/ BuildsPartition(x) \/ CountsFlash(x)

Next == Operator \/ (\E s \in Station : Provision(s)) \/ (\E x \in Slot : Handle(x))

Spec == Init /\ [][Next]_vars

----------------------------------------------------------------------------
(* Properties                                                               *)

Whole(image) == image \notin {Blank, Torn}
IdentityOf(image) == NvsGet(image, "factory", "identity")
MeterOf(image) == NvsGet(image, "factory", "meter_model")

\* What an image is read as: row i's identity and secret, and a meter.
ReadsAs(image, i) ==
  /\ Whole(image) /\ Mountable(image)
  /\ IdentityOf(image) = i
  /\ NvsGet(image, "factory", "pop") = i
  /\ MeterOf(image) \in Meter
  /\ NvsGet(image, "factory", "meter_parity") = "none"

\* Whatever generateNvsPartition does not refuse can be mounted, and reads back as
\* what it was made of.  A statement about the bundles, not about any state: the
\* theorems assume it, and TLC evaluates it on its instance.
ImagesAreReadBack ==
  \A table \in Bundle, i \in Ids, meter \in Meter :
    LET partition == findPartition(parsePartitionTable(table), "fctry")
        image == FactoryImage(i, meter, partition.size)
    IN  partition # Refused /\ image # Refused =>
          ReadsAs(image, i) /\ MeterOf(image) = meter

TypeOK ==
  /\ rows \in [Ids -> Row \union {NoRow}]
  /\ sequence \in 0..(2 * MaxRuns)
  /\ \A s \in Station :
       /\ run[s].state \in {"idle", "running", "done", "failed"}
       /\ run[s].device \in Ids \union {0}
       /\ run[s].linked => run[s].state = "running" /\ plugged[run[s].board] = s
  /\ call[GivenUp].at # "answered"
  /\ plugged \in [Board -> Station \union {Nowhere}]
  /\ \A b \in Board : flash[b].run \in 0..runs
  /\ runs \in 0..MaxRuns /\ givenUp \in 0..MaxGivenUp

\* A board is registered once, and its flash never holds another board's
\* identity: whatever stations do at the same time, boards that change place
\* in the middle of a run, and requests that run on after it.
IdentityIsTheBoards ==
  /\ TypeOK
  /\ \A i, j \in Known : rows[i].mac = rows[j].mac => i = j
  /\ \A b \in Board : Whole(flash[b].identity) =>
       rows[IdentityOf(flash[b].identity)].mac = b

\* The registry never counts a flash that was not written and verified: a
\* recorded flash is one of the board's, and is recorded once, whatever answer
\* is lost and whatever run is repeated.
RecordedWasVerified ==
  \A i \in Known : rows[i].flashes <= written[rows[i].mac]

\* Flashing a known board again burns no number of the sequence: only two
\* registrations of one board at the same time do, by a board that changed
\* station or a request that was given up.
NumbersAreNotBurnt == contested = {} => sequence = Cardinality(Known)

\* "Flashed and verified. Label the unit": as long as no later run wrote to it,
\* the board has the firmware, and its charger reads the identity shown, the
\* secret and the meter's settings from it, the meter being the one chosen
\* unless the board was registered twice at the same time.  The registry knows
\* the unit: as long as no later run started on the board, and it was not
\* registered twice, the row has the meter that was flashed and counts the flash.
DoneUnitIsRight ==
  \A s \in Station :
    LET r == run[s]
        f == flash[r.board]
        row == rows[r.device]
    IN  /\ r.state = "done" /\ latest[r.board] = r.number /\ r.board \notin contested =>
          row.meter = MeterOf(f.identity) /\ row.flashes > 0
        /\ r.state = "done" /\ f.run = r.number =>
          /\ f.firmware = firmware[s]
          /\ ReadsAs(f.identity, r.device)
          /\ r.board \notin contested => MeterOf(f.identity) = r.meter
=============================================================================
