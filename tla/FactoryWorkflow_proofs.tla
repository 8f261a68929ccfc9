------------------------ MODULE FactoryWorkflow_proofs ------------------------
(***************************************************************************)
(* Proofs about FactoryWorkflow, for any stations, boards, meters and      *)
(* bundles, and any number of runs.  What an image reads back as is taken  *)
(* from ImagesAreReadBack, which the theorems name that need it.           *)
(***************************************************************************)
EXTENDS FactoryWorkflow, FiniteSetTheorems, TLAPS

----------------------------------------------------------------------------
(* Types                                                                    *)

Offered == {table \in Bundle : findPartition(parsePartitionTable(table), "fctry") # Refused}

Sizes == {findPartition(parsePartitionTable(table), "fctry").size : table \in Offered}

Images == {FactoryImage(i, m, z) : i \in Ids, m \in Meter, z \in Sizes} \union {Refused}

MaybeMeter == Meter \union {NoMeter}
MaybeBoard == Board \union {Nowhere}
MaybeId == Ids \union {0}

Steps == {"none", "register", "identity", "erase", "firmware", "partition", "record", "reset"}

RunSet ==
  [state : {"idle", "running", "done", "failed"}, step : Steps, board : MaybeBoard,
   linked : BOOLEAN, meter : MaybeMeter, erase : BOOLEAN, device : MaybeId,
   image : Images, number : Nat]

CallSet ==
  [op : {"none", "register", "partition", "flashed"},
   at : {"none", "lookup", "insert", "update", "again", "read", "answered"},
   mac : MaybeBoard, meter : MaybeMeter, id : MaybeId, size : Sizes \union {0},
   image : Images]

Rows == [mac : Board, meter : Meter, flashes : Nat] \union {NoRow}

FlashSet ==
  [firmware : Bundle \union {Blank, Torn}, identity : Images \union {Blank, Torn}, run : Nat]

DataTypes ==
  /\ firmware \in [Station -> Bundle]
  /\ rows \in [Ids -> Rows]
  /\ sequence \in Nat
  /\ run \in [Station -> RunSet]
  /\ call \in [Slot -> CallSet]
  /\ plugged \in [Board -> Station \union {Nowhere}]
  /\ flash \in [Board -> FlashSet]
  /\ runs \in 0..MaxRuns
  /\ givenUp \in 0..MaxGivenUp
  /\ written \in [Board -> Nat]
  /\ latest \in [Board -> Nat]
  /\ contested \subseteq Board

LEMMA Slots == Station \subseteq Slot /\ GivenUp \in Slot /\ GivenUp \notin Station
BY FactoryAssumption DEF Slot, GivenUp

LEMMA IdFacts == Ids \subseteq Nat /\ 0 \notin Ids
<1>1. MaxRuns \in Nat
  BY FactoryAssumption
<1> QED
  BY <1>1 DEF Ids

LEMMA RefusedIsAnImage == Refused \in Images
BY DEF Images

LEMMA NoCallTyped ==
  /\ NoCall \in CallSet /\ NoCall.op = "none" /\ NoCall.at = "none"
  /\ \A c : c = NoCall => c.op = "none" /\ c.at = "none"
BY DEF NoCall, CallSet, MaybeBoard, MaybeMeter, MaybeId, Images

LEMMA IdleTyped ==
  /\ Idle \in RunSet /\ Idle.state = "idle" /\ Idle.linked = FALSE /\ Idle.number = 0
  /\ Idle.board = Nowhere
BY DEF Idle, RunSet, Steps, MaybeBoard, MaybeMeter, MaybeId, Images

----------------------------------------------------------------------------
(* The inductive invariant                                                  *)

Going(s, steps) == run[s].state = "running" /\ run[s].step \in steps
Done(s) == run[s].state = "done"

\* Runs that know their device, hold an image, and have written it.
Past(s) == Done(s) \/ Going(s, {"identity", "erase", "firmware", "partition", "record", "reset"})
Imaged(s) == Done(s) \/ Going(s, {"erase", "firmware", "partition", "record", "reset"})
Wrote(s) == Done(s) \/ Going(s, {"record", "reset"})

\* A board is registered once, under a number of the sequence.
RegistryInv ==
  /\ Known \subseteq 1..sequence
  /\ \A i, j \in Known : rows[i].mac = rows[j].mac => i = j
  /\ contested = {} => Known = 1..sequence

\* Requests that may still take a number: as many as there are runs for.
Asking == {x \in Slot : call[x].op = "register" /\ call[x].at \in {"lookup", "insert"}}

SequenceInv == IsFiniteSet(Asking) /\ sequence + Cardinality(Asking) <= runs

RowIsFor(i, b) == i \in Known /\ rows[i].mac = b

\* What an image reads back as, if images do.
ReadBack(image, i) == ImagesAreReadBack => ReadsAs(image, i)
HasMeter(image, meter) == ImagesAreReadBack => MeterOf(image) = meter

\* What a request has found out, in every step.
Sound(c) ==
  /\ c.op = "none" => c = NoCall
  /\ c.op = "register" =>
       /\ c.mac \in Board /\ c.meter \in Meter
       /\ c.at \in {"lookup", "insert", "update", "again", "answered"}
       /\ c.at \in {"update", "answered"} => RowIsFor(c.id, c.mac)
       /\ c.at = "again" => \E i \in Ids : RowIsFor(i, c.mac)
  /\ c.op = "partition" =>
       /\ c.at \in {"read", "answered"} /\ c.id \in Known /\ c.size \in Sizes
       /\ c.at = "answered" /\ c.image # Refused => ReadBack(c.image, c.id)
  /\ c.op = "flashed" =>
       /\ c.at \in {"update", "answered"} /\ c.id \in Known
       /\ c.at = "answered" => rows[c.id].flashes > 0

CallInv ==
  /\ \A x \in Slot : Sound(call[x])
  /\ call[GivenUp].at # "answered"
  /\ givenUp = 0 => call[GivenUp] = NoCall

\* The request a run waits for.
Waits(s) ==
  LET r == run[s]
      c == call[s]
  IN  /\ r.state # "running" => c = NoCall
      /\ r.state = "running" =>
           /\ r.step # "none"
           /\ r.step = "register" => c.op = "register" /\ c.mac = r.board /\ c.meter = r.meter
           /\ r.step = "identity" => c.op = "partition" /\ c.id = r.device
           /\ r.step = "record" => c.op = "flashed" /\ c.id = r.device
           /\ r.step \in {"erase", "firmware", "partition", "reset"} => c = NoCall

\* What a run is sure of: a port that is open leads to the board of the latest run
\* on it.
Sure(s) ==
  LET r == run[s]
  IN  /\ r.state = "running" =>
           r.board \in Board /\ r.meter \in Meter /\ r.number > 0 /\ firmware[s] \in Offered
      /\ r.linked => r.state = "running" /\ plugged[r.board] = s /\ latest[r.board] = r.number
      /\ Past(s) => RowIsFor(r.device, r.board) /\ r.number > 0
      /\ Imaged(s) => ReadBack(r.image, r.device)
      /\ Done(s) \/ Going(s, {"reset"}) => rows[r.device].flashes > 0
      /\ r.number <= runs

RunInv ==
  /\ \A s \in Station : Waits(s) /\ Sure(s)
  /\ \A s, t \in Station : run[s].number = run[t].number /\ run[s].number # 0 => s = t

\* A flash holds an identity of its own board, or none.
OwnIdentity(b) ==
  LET image == flash[b].identity
  IN  ImagesAreReadBack /\ Whole(image) => RowIsFor(IdentityOf(image), b)

\* What a run has written is on the board until another one writes, and that
\* is a later one.
Holds(s) ==
  LET r == run[s]
      f == flash[r.board]
  IN  /\ Going(s, {"partition"}) /\ r.linked => f.run = r.number /\ f.firmware = firmware[s]
      /\ Wrote(s) /\ f.run = r.number => f.firmware = firmware[s] /\ f.identity = r.image
      /\ Wrote(s) /\ latest[r.board] = r.number => f.run = r.number

FlashInv ==
  /\ \A b \in Board : flash[b].run <= runs /\ OwnIdentity(b)
  /\ \A s \in Station : Holds(s)

\* A board that was never registered twice at the same time has one request at a
\* time, which is the latest run's, and its row the meter of that run.
Alone(b) ==
  /\ \A x, y \in Slot : Registering(x, b) /\ Registering(y, b) => x = y
  /\ \A x \in Slot : Registering(x, b) =>
       /\ call[x].at # "again"
       /\ call[x].at = "insert" => \A i \in Ids : ~RowIsFor(i, b)

HasRow(s) == Past(s) \/ (Going(s, {"register"}) /\ CallDone(s))

Chosen(s) ==
  LET r == run[s]
      c == call[s]
  IN  /\ latest[r.board] = r.number /\ r.number # 0 =>
           /\ HasRow(s) => \A x \in Slot : ~Registering(x, r.board)
           /\ Past(s) => rows[r.device].meter = r.meter
           /\ Going(s, {"register"}) /\ CallDone(s) => rows[c.id].meter = r.meter
           /\ Going(s, {"identity"}) /\ CallDone(s) /\ c.image # Refused =>
                HasMeter(c.image, r.meter)
           /\ Imaged(s) => HasMeter(r.image, r.meter)
      /\ Wrote(s) => HasMeter(r.image, r.meter)

MeterInv ==
  /\ \A b \in Board \ contested : Alone(b)
  /\ \A s \in Station : run[s].board \in Board \ contested => Chosen(s)

\* Flashes the API is about to count.
Counting(i) ==
  {x \in Slot : call[x].op = "flashed" /\ call[x].at = "update" /\ call[x].id = i}

RecordInv ==
  \A i \in Known :
    /\ IsFiniteSet(Counting(i))
    /\ rows[i].flashes + Cardinality(Counting(i)) <= written[rows[i].mac]

IInv ==
  /\ DataTypes /\ RegistryInv /\ SequenceInv /\ CallInv /\ RunInv
  /\ FlashInv /\ MeterInv /\ RecordInv

----------------------------------------------------------------------------
(* What the steps do                                                        *)

\* Only station s and its request move.
Others(s) ==
  /\ \A t \in Station \ {s} : run'[t] = run[t]
  /\ \A x \in Slot \ {s} : call'[x] = call[x]

\* The run of s goes on: what it was started with stays.
Stays(s) ==
  /\ run'[s].board = run[s].board /\ run'[s].meter = run[s].meter
  /\ run'[s].number = run[s].number

Quiet == UNCHANGED <<firmware, rows, sequence, plugged, runs, latest, contested>>

Advances(s, step) ==
  /\ run' \in [Station -> RunSet] /\ \A t \in Station \ {s} : run'[t] = run[t]
  /\ Stays(s) /\ run'[s].step = step /\ run'[s].state = run[s].state
  /\ run'[s].linked = run[s].linked /\ run'[s].device = run[s].device
  /\ run'[s].image = run[s].image

Fails(s) ==
  /\ run' \in [Station -> RunSet] /\ \A t \in Station \ {s} : run'[t] = run[t]
  /\ run'[s].state = "failed" /\ run'[s].linked = FALSE /\ Stays(s)

CallBecomes(x, c) ==
  /\ call' \in [Slot -> CallSet] /\ call'[x] = c
  /\ \A y \in Slot \ {x} : call'[y] = call[y]

LEMMA RunTyped ==
  ASSUME DataTypes, NEW s \in Station
  PROVE  /\ run \in [Station -> RunSet] /\ call \in [Slot -> CallSet]
         /\ run[s] \in RunSet /\ s \in Slot /\ call[s] \in CallSet
         /\ run[s].linked \in BOOLEAN /\ run[s].number \in Nat
         /\ run[s].board \in MaybeBoard /\ run[s].image \in Images
BY Slots DEF DataTypes, RunSet

\* An error ends the run.
LEMMA FailDoes ==
  ASSUME DataTypes, NEW s \in Station, Fail(s)
  PROVE  Fails(s)
<1>1. run \in [Station -> RunSet] /\ run[s] \in RunSet
  BY DEF DataTypes
<1>2. run' = [run EXCEPT ![s] = [[run[s] EXCEPT !.state = "failed"] EXCEPT !.linked = FALSE]]
  BY DEF Fail
<1> DEFINE r == [[run[s] EXCEPT !.state = "failed"] EXCEPT !.linked = FALSE]
<1>3. /\ r \in RunSet /\ r.state = "failed" /\ r.linked = FALSE
      /\ r.board = run[s].board /\ r.meter = run[s].meter /\ r.number = run[s].number
  BY <1>1 DEF RunSet
<1>4. run' = [run EXCEPT ![s] = r]
  BY <1>2
<1> HIDE DEF r
<1> QED
  BY <1>1, <1>3, <1>4 DEF Stays, Fails

LEMMA GoesTyped ==
  ASSUME DataTypes, NEW x \in Slot, NEW c \in CallSet, Goes(x, c)
  PROVE  CallBecomes(x, c)
BY DEF Goes, DataTypes, CallBecomes

\* The run goes on with step.
LEMMA StepDoes ==
  ASSUME DataTypes, NEW s \in Station, NEW step \in Steps,
         run' = [run EXCEPT ![s].step = step]
  PROVE  Advances(s, step)
<1>1. run \in [Station -> RunSet] /\ run[s] \in RunSet
  BY DEF DataTypes
<1> DEFINE r == [run[s] EXCEPT !.step = step]
<1>2. run' = [run EXCEPT ![s] = r]
  OBVIOUS
<1>3. /\ r \in RunSet /\ r.step = step /\ r.state = run[s].state /\ r.linked = run[s].linked
      /\ r.device = run[s].device /\ r.image = run[s].image
      /\ r.board = run[s].board /\ r.meter = run[s].meter /\ r.number = run[s].number
  BY <1>1 DEF RunSet
<1> HIDE DEF r
<1> QED
  BY <1>1, <1>2, <1>3 DEF Stays, Advances

LEMMA UnplugDoes ==
  ASSUME DataTypes, NEW b \in Board, Unplug(b)
  PROVE  \E s \in Station :
           /\ plugged[b] = s /\ plugged' \in [Board -> Station \union {Nowhere}]
           /\ plugged'[b] = Nowhere /\ \A o \in Board \ {b} : plugged'[o] = plugged[o]
           /\ run' \in [Station -> RunSet]
           /\ \A t \in Station \ {s} : run'[t] = run[t]
           /\ Stays(s) /\ run'[s].step = run[s].step /\ run'[s].state = run[s].state
           /\ run'[s].linked = FALSE /\ run'[s].device = run[s].device
           /\ run'[s].image = run[s].image
           /\ UNCHANGED <<firmware, rows, sequence, call, flash, runs, givenUp, written,
                          latest, contested>>
<1>1. run \in [Station -> RunSet] /\ plugged \in [Board -> Station \union {Nowhere}]
  BY DEF DataTypes
<1>2. PICK s \in Station : s = plugged[b]
  BY <1>1 DEF Unplug
<1>3. run[s] \in RunSet
  BY <1>1
<1> DEFINE r == [run[s] EXCEPT !.linked = FALSE]
<1>4. run' = [run EXCEPT ![s] = r]
  BY <1>2 DEF Unplug
<1>5. /\ r \in RunSet /\ r.step = run[s].step /\ r.state = run[s].state /\ r.linked = FALSE
      /\ r.device = run[s].device /\ r.image = run[s].image
      /\ r.board = run[s].board /\ r.meter = run[s].meter /\ r.number = run[s].number
  BY <1>3 DEF RunSet
<1> HIDE DEF r
<1>6. /\ plugged' \in [Board -> Station \union {Nowhere}]
      /\ plugged'[b] = Nowhere /\ \A o \in Board \ {b} : plugged'[o] = plugged[o]
  BY <1>1 DEF Unplug
<1>7. UNCHANGED <<firmware, rows, sequence, call, flash, runs, givenUp, written, latest,
                  contested>>
  BY DEF Unplug, registry, history
<1> QED
  BY <1>1, <1>2, <1>4, <1>5, <1>6, <1>7 DEF Stays

LEMMA PlugDoes ==
  ASSUME DataTypes, NEW b \in Board, NEW s \in Station, Plug(b, s)
  PROVE  /\ plugged[b] = Nowhere /\ plugged' \in [Board -> Station \union {Nowhere}]
         /\ \A o \in Board \ {b} : plugged'[o] = plugged[o]
         /\ UNCHANGED <<firmware, rows, sequence, run, call, flash, runs, givenUp,
                        written, latest, contested>>
BY DEF DataTypes, Plug, registry, history

LEMMA ConnectFailsDoes ==
  ASSUME DataTypes, NEW s \in Station, ConnectFails(s)
  PROVE  /\ run[s].state # "running"
         /\ run' \in [Station -> RunSet]
         /\ \A t \in Station \ {s} : run'[t] = run[t]
         /\ run'[s].state \in {"idle", "failed"} /\ run'[s].linked = FALSE
         /\ run'[s].number = 0 /\ run'[s].board = Nowhere
         /\ UNCHANGED <<firmware, rows, sequence, call, plugged, flash, runs, givenUp,
                        written, latest, contested>>
<1>1. PICK state \in {"idle", "failed"} : run' = [run EXCEPT ![s] = [Idle EXCEPT !.state = state]]
  BY DEF ConnectFails
<1> DEFINE r == [Idle EXCEPT !.state = state]
<1>2. r \in RunSet /\ r.state = state /\ r.linked = FALSE /\ r.number = 0 /\ r.board = Nowhere
  BY IdleTyped DEF RunSet
<1> HIDE DEF r
<1>3. run' = [run EXCEPT ![s] = r]
  BY <1>1 DEF r
<1>4. run \in [Station -> RunSet]
  BY DEF DataTypes
<1>5. UNCHANGED <<firmware, rows, sequence, call, plugged, flash, runs, givenUp,
                  written, latest, contested>>
  BY DEF ConnectFails, registry, boards, history
<1>6. run[s].state # "running"
  BY DEF ConnectFails
<1> QED
  BY <1>1, <1>2, <1>3, <1>4, <1>5, <1>6

\* A run of s on b with meter begins, or is turned down by the checks.
Started(s, b, meter) ==
  /\ run[s].state # "running" /\ plugged[b] = s /\ firmware[s] \in Offered
  /\ run' \in [Station -> RunSet] /\ call' \in [Slot -> CallSet]
  /\ Others(s)
  /\ run'[s].board = b /\ run'[s].meter = meter /\ run'[s].number = runs + 1
  /\ \/ /\ run'[s].state = "running" /\ run'[s].step = "register"
        /\ call'[s].op = "register" /\ call'[s].at = "lookup"
        /\ call'[s].mac = b /\ call'[s].meter = meter
     \/ /\ run'[s].state = "failed" /\ run'[s].linked = FALSE
        /\ call' = call
  /\ runs < MaxRuns /\ runs' = runs + 1
  /\ latest'[b] = runs + 1 /\ \A o \in Board \ {b} : latest'[o] = latest[o]
  /\ latest' \in [Board -> Nat]
  /\ contested' = (IF \E x \in Slot : Registering(x, b) THEN contested \union {b} ELSE contested)
  /\ UNCHANGED <<firmware, rows, sequence, plugged, flash, givenUp, written>>

LEMMA StartDoes ==
  ASSUME DataTypes, NEW s \in Station, NEW b \in Board, NEW meter \in Meter, NEW erase \in BOOLEAN,
         Start(s, b, meter, erase)
  PROVE  Started(s, b, meter)
<1>0. /\ run \in [Station -> RunSet] /\ call \in [Slot -> CallSet] /\ runs \in Nat
      /\ firmware[s] \in Bundle /\ latest \in [Board -> Nat] /\ MaxRuns \in Nat
  <2>1. MaxRuns \in Nat
    BY FactoryAssumption
  <2> QED
    BY <2>1 DEF DataTypes
<1>1. /\ run[s].state # "running" /\ plugged[b] = s /\ firmware[s] \in Offered
  BY <1>0 DEF Start, Behind, Offered, factoryPartition
<1>2. /\ runs < MaxRuns /\ runs' = runs + 1
      /\ latest' = [latest EXCEPT ![b] = runs + 1]
      /\ contested' = (IF \E x \in Slot : Registering(x, b) THEN contested \union {b} ELSE contested)
      /\ UNCHANGED <<firmware, rows, sequence, plugged, flash, givenUp, written>>
  BY DEF Start, registry, boards
<1> DEFINE started == [Idle EXCEPT !.board = b, !.meter = meter, !.erase = erase, !.number = runs + 1]
           going == [started EXCEPT !.state = "running", !.step = "register", !.linked = TRUE]
           failed == [started EXCEPT !.state = "failed"]
           c == Register(b, meter)
<1>3. \/ run' = [run EXCEPT ![s] = going] /\ call' = [call EXCEPT ![s] = c]
      \/ run' = [run EXCEPT ![s] = failed] /\ call' = call
  BY DEF Start, Goes
<1> DEFINE first == [Idle EXCEPT !.board = b, !.meter = meter]
           second == [first EXCEPT !.erase = erase]
<1>11. first \in RunSet /\ first.board = b /\ first.meter = meter /\ first.linked = FALSE
  BY <1>0, RefusedIsAnImage DEF Idle, RunSet, MaybeBoard, MaybeMeter, MaybeId, Steps
<1>12. started = [second EXCEPT !.number = runs + 1]
  BY <1>0, Zenon DEF Idle
<1>13. /\ second \in RunSet /\ second.board = b /\ second.meter = meter
       /\ second.linked = FALSE
  BY <1>11 DEF RunSet
<1> HIDE DEF started, first, second
<1>4. started \in RunSet /\ started.board = b /\ started.meter = meter /\ started.number = runs + 1
      /\ started.linked = FALSE
  BY <1>0, <1>12, <1>13 DEF RunSet
<1>5. /\ going \in RunSet /\ going.board = b /\ going.meter = meter /\ going.number = runs + 1
      /\ going.state = "running" /\ going.step = "register"
  BY <1>4 DEF RunSet, Steps
<1>6. /\ failed \in RunSet /\ failed.board = b /\ failed.meter = meter /\ failed.number = runs + 1
      /\ failed.state = "failed" /\ failed.linked = FALSE
  BY <1>4 DEF RunSet
<1>7. /\ c \in CallSet /\ c.op = "register" /\ c.at = "lookup" /\ c.mac = b /\ c.meter = meter
  BY RefusedIsAnImage DEF NoCall, Register, CallSet, MaybeBoard, MaybeMeter, MaybeId
<1> HIDE DEF going, failed, c
<1>8. s \in Slot
  BY Slots
<1>9. CASE run' = [run EXCEPT ![s] = going] /\ call' = [call EXCEPT ![s] = c]
  BY <1>0, <1>1, <1>2, <1>5, <1>7, <1>8, <1>9 DEF Others, Started
<1>10. CASE run' = [run EXCEPT ![s] = failed] /\ call' = call
  BY <1>0, <1>1, <1>2, <1>6, <1>8, <1>10 DEF Others, Started
<1> QED
  BY <1>3, <1>9, <1>10

LEMMA RegisteredDoes ==
  ASSUME DataTypes, CallInv, RunInv, NEW s \in Station, Registered(s)
  PROVE  /\ Runs(s, "register") /\ CallDone(s) /\ call[s].op = "register"
         /\ run' \in [Station -> RunSet] /\ call' \in [Slot -> CallSet]
         /\ Others(s) /\ Stays(s)
         /\ run'[s].state = "running" /\ run'[s].step = "identity"
         /\ run'[s].linked = run[s].linked /\ run'[s].device = call[s].id
         /\ call'[s].op = "partition" /\ call'[s].at = "read"
         /\ call'[s].id = call[s].id /\ call'[s].size \in Sizes
         /\ Quiet /\ UNCHANGED <<flash, givenUp, written>>
<1>0. /\ run \in [Station -> RunSet] /\ call \in [Slot -> CallSet]
      /\ run[s] \in RunSet /\ call[s] \in CallSet /\ s \in Slot
  BY Slots DEF DataTypes
<1>1. /\ Runs(s, "register") /\ CallDone(s)
      /\ run' = [run EXCEPT ![s] = [[run[s] EXCEPT !.step = "identity"] EXCEPT !.device = call[s].id]]
      /\ call' = [call EXCEPT ![s] = GetPartition(call[s].id, factoryPartition(s).size)]
      /\ Quiet /\ UNCHANGED <<flash, givenUp, written>>
  BY DEF Registered, Goes, Quiet, registry, boards, history
<1>2. call[s].op = "register" /\ firmware[s] \in Offered
  BY <1>1 DEF RunInv, Waits, Sure, Runs
<1>3. factoryPartition(s).size \in Sizes
  BY <1>2 DEF factoryPartition, Sizes
<1> DEFINE r == [[run[s] EXCEPT !.step = "identity"] EXCEPT !.device = call[s].id]
           c == GetPartition(call[s].id, factoryPartition(s).size)
<1>4. call[s].id \in MaybeId
  BY <1>0 DEF CallSet
<1>5. /\ r \in RunSet /\ r.state = run[s].state /\ r.step = "identity" /\ r.linked = run[s].linked
      /\ r.device = call[s].id
      /\ r.board = run[s].board /\ r.meter = run[s].meter /\ r.number = run[s].number
  BY <1>0, <1>4 DEF RunSet, Steps
<1>6. c \in CallSet /\ c.op = "partition" /\ c.at = "read" /\ c.id = call[s].id /\ c.size \in Sizes
  BY <1>3, <1>4, RefusedIsAnImage DEF NoCall, GetPartition, CallSet, MaybeBoard,
    MaybeMeter
<1> HIDE DEF r, c
<1>7. run' = [run EXCEPT ![s] = r] /\ call' = [call EXCEPT ![s] = c]
  BY <1>1 DEF r, c
<1> QED
  BY <1>0, <1>1, <1>2, <1>5, <1>6, <1>7 DEF Others, Stays, Runs

LEMMA GotPartitionDoes ==
  ASSUME DataTypes, CallInv, RunInv, NEW s \in Station, GotPartition(s)
  PROVE  /\ Runs(s, "identity") /\ CallDone(s) /\ call[s].op = "partition"
         /\ run' \in [Station -> RunSet] /\ call' \in [Slot -> CallSet]
         /\ Others(s) /\ Stays(s)
         /\ \/ run'[s].state = "failed" /\ run'[s].linked = FALSE
            \/ /\ run'[s].state = "running" /\ run'[s].step \in {"erase", "firmware"}
               /\ run'[s].linked = run[s].linked /\ run'[s].device = run[s].device
               /\ call[s].image # Refused /\ run'[s].image = call[s].image
         /\ call'[s] = NoCall
         /\ Quiet /\ UNCHANGED <<flash, givenUp, written>>
<1>0. /\ run \in [Station -> RunSet] /\ call \in [Slot -> CallSet]
      /\ run[s] \in RunSet /\ call[s] \in CallSet /\ s \in Slot
  BY Slots DEF DataTypes
<1>1. /\ Runs(s, "identity") /\ CallDone(s) /\ Goes(s, NoCall)
      /\ Quiet /\ UNCHANGED <<flash, givenUp, written>>
  BY DEF GotPartition, Quiet, registry, boards, history
<1>2. call[s].op = "partition"
  BY <1>1 DEF RunInv, Waits, Runs
<1>3. /\ call' \in [Slot -> CallSet] /\ call'[s] = NoCall
      /\ \A y \in Slot \ {s} : call'[y] = call[y]
  BY <1>0, <1>1, GoesTyped, NoCallTyped DEF CallBecomes
<1>4. CASE call[s].image = Refused
  <2>1. Fail(s)
    BY <1>4 DEF GotPartition
  <2> QED
    BY <1>1, <1>2, <1>3, <2>1, FailDoes DEF Others, Fails
<1>5. CASE call[s].image # Refused
  <2> DEFINE step == IF run[s].erase THEN "erase" ELSE "firmware"
             r == [[run[s] EXCEPT !.step = step] EXCEPT !.image = call[s].image]
  <2>1. run' = [run EXCEPT ![s] = r]
    BY <1>5 DEF GotPartition
  <2>2. step \in {"erase", "firmware"}
    OBVIOUS
  <2> HIDE DEF step
  <2>3. call[s].image \in Images
    BY <1>0 DEF CallSet
  <2>4. /\ r \in RunSet /\ r.state = run[s].state /\ r.step = step /\ r.linked = run[s].linked
        /\ r.device = run[s].device /\ r.image = call[s].image
        /\ r.board = run[s].board /\ r.meter = run[s].meter /\ r.number = run[s].number
    BY <1>0, <2>2, <2>3 DEF RunSet, Steps
  <2> HIDE DEF r
  <2> QED
    BY <1>0, <1>1, <1>2, <1>3, <1>5, <2>1, <2>2, <2>4 DEF Others, Stays, Runs
<1> QED
  BY <1>4, <1>5

\* What a run writes to its board.
Puts(s, fw, identity) ==
  /\ flash' \in [Board -> FlashSet]
  /\ \A o \in Board \ {run[s].board} : flash'[o] = flash[o]
  /\ flash'[run[s].board].run = run[s].number
  /\ flash'[run[s].board].firmware = fw
  /\ flash'[run[s].board].identity = identity

LEMMA FlashesDoes ==
  ASSUME DataTypes, RunInv, NEW s \in Station, run[s].state = "running",
         NEW content
  PROVE  /\ Flashes(s, "firmware", content) /\ content \in Bundle \union {Blank, Torn} =>
              Puts(s, content, flash[run[s].board].identity)
         /\ Flashes(s, "identity", content) /\ content \in Images \union {Blank, Torn} =>
              Puts(s, flash[run[s].board].firmware, content)
<1>1. /\ run[s].board \in Board /\ run[s].number \in Nat /\ flash \in [Board -> FlashSet]
      /\ flash[run[s].board] \in FlashSet
  BY RunTyped DEF RunInv, Sure, DataTypes
<1>2. ASSUME Flashes(s, "firmware", content), content \in Bundle \union {Blank, Torn}
      PROVE  Puts(s, content, flash[run[s].board].identity)
  <2> DEFINE f == [[flash[run[s].board] EXCEPT !.firmware = content] EXCEPT !.run = run[s].number]
  <2>1. /\ f \in FlashSet /\ f.run = run[s].number /\ f.firmware = content
        /\ f.identity = flash[run[s].board].identity
    BY <1>1, <1>2 DEF FlashSet
  <2>2. flash' = [flash EXCEPT ![run[s].board] = f]
    BY <1>2 DEF Flashes
  <2> HIDE DEF f
  <2> QED
    BY <1>1, <2>1, <2>2 DEF Puts
<1>3. ASSUME Flashes(s, "identity", content), content \in Images \union {Blank, Torn}
      PROVE  Puts(s, flash[run[s].board].firmware, content)
  <2> DEFINE f == [[flash[run[s].board] EXCEPT !.identity = content] EXCEPT !.run = run[s].number]
  <2>1. /\ f \in FlashSet /\ f.run = run[s].number /\ f.identity = content
        /\ f.firmware = flash[run[s].board].firmware
    BY <1>1, <1>3 DEF FlashSet
  <2>2. flash' = [flash EXCEPT ![run[s].board] = f]
    BY <1>3 DEF Flashes
  <2> HIDE DEF f
  <2> QED
    BY <1>1, <2>1, <2>2 DEF Puts
<1> QED
  BY <1>2, <1>3

LEMMA EraseDoes ==
  ASSUME DataTypes, RunInv, NEW s \in Station, Erase(s)
  PROVE  /\ Runs(s, "erase") /\ run[s].linked /\ Advances(s, "firmware")
         /\ Puts(s, Blank, Blank)
         /\ Quiet /\ UNCHANGED <<call, givenUp, written>>
<1>1. /\ Runs(s, "erase") /\ run[s].linked
      /\ run' = [run EXCEPT ![s].step = "firmware"]
      /\ flash' = [flash EXCEPT ![run[s].board] =
                     [firmware |-> Blank, identity |-> Blank, run |-> run[s].number]]
      /\ Quiet /\ UNCHANGED <<call, givenUp, written>>
  BY DEF Erase, Quiet, registry, history
<1>2. Advances(s, "firmware")
  BY <1>1, StepDoes DEF Steps
<1>3. run[s].board \in Board /\ run[s].number \in Nat
  BY <1>1, RunTyped DEF RunInv, Sure, Runs
<1>4. Puts(s, Blank, Blank)
  BY <1>1, <1>3 DEF Puts, DataTypes, FlashSet
<1> QED
  BY <1>1, <1>2, <1>4

LEMMA WriteFirmwareDoes ==
  ASSUME DataTypes, RunInv, NEW s \in Station, WriteFirmware(s)
  PROVE  /\ Runs(s, "firmware") /\ run[s].linked /\ Advances(s, "partition")
         /\ Puts(s, firmware[s], flash[run[s].board].identity)
         /\ Quiet /\ UNCHANGED <<call, givenUp, written>>
<1>1. /\ Runs(s, "firmware") /\ run[s].linked
      /\ run' = [run EXCEPT ![s].step = "partition"]
      /\ Flashes(s, "firmware", firmware[s])
      /\ Quiet /\ UNCHANGED <<call, givenUp, written>>
  BY DEF WriteFirmware, Quiet, registry, history
<1>2. Advances(s, "partition")
  BY <1>1, StepDoes DEF Steps
<1>3. firmware[s] \in Bundle /\ run[s].state = "running"
  BY <1>1 DEF DataTypes, Runs
<1> QED
  BY <1>1, <1>2, <1>3, FlashesDoes

LEMMA MarkFlashedTyped ==
  ASSUME NEW i \in MaybeId
  PROVE  /\ MarkFlashed(i) \in CallSet /\ MarkFlashed(i).op = "flashed"
         /\ MarkFlashed(i).at = "update" /\ MarkFlashed(i).id = i
BY RefusedIsAnImage DEF MarkFlashed, NoCall, CallSet, MaybeBoard, MaybeMeter

LEMMA WriteIdentityDoes ==
  ASSUME DataTypes, RunInv, NEW s \in Station, WriteIdentity(s)
  PROVE  /\ Runs(s, "partition") /\ run[s].linked /\ Advances(s, "record")
         /\ Puts(s, flash[run[s].board].firmware, run[s].image)
         /\ CallBecomes(s, call'[s]) /\ call'[s].op = "flashed" /\ call'[s].at = "update"
         /\ call'[s].id = run[s].device
         /\ written' \in [Board -> Nat]
         /\ written'[run[s].board] = written[run[s].board] + 1
         /\ \A o \in Board \ {run[s].board} : written'[o] = written[o]
         /\ Quiet /\ UNCHANGED givenUp
<1>1. /\ Runs(s, "partition") /\ run[s].linked
      /\ run' = [run EXCEPT ![s].step = "record"]
      /\ Flashes(s, "identity", run[s].image)
      /\ Goes(s, MarkFlashed(run[s].device))
      /\ written' = [written EXCEPT ![run[s].board] = written[run[s].board] + 1]
      /\ Quiet /\ UNCHANGED givenUp
  BY DEF WriteIdentity, Quiet, registry
<1>2. Advances(s, "record")
  BY <1>1, StepDoes DEF Steps
<1>3. /\ run[s].image \in Images /\ run[s].state = "running" /\ run[s].board \in Board
      /\ run[s].device \in MaybeId /\ s \in Slot
  BY <1>1, RunTyped DEF RunSet, Runs, RunInv, Sure
<1>4. Puts(s, flash[run[s].board].firmware, run[s].image)
  BY <1>1, <1>3, FlashesDoes
<1>5. PICK c : c = MarkFlashed(run[s].device)
  OBVIOUS
<1>6. c \in CallSet /\ c.op = "flashed" /\ c.at = "update" /\ c.id = run[s].device
  BY <1>3, <1>5, MarkFlashedTyped
<1>7. CallBecomes(s, c)
  BY <1>1, <1>3, <1>5, <1>6, GoesTyped
<1>8. /\ written' \in [Board -> Nat]
      /\ written'[run[s].board] = written[run[s].board] + 1
      /\ \A o \in Board \ {run[s].board} : written'[o] = written[o]
  BY <1>1, <1>3 DEF DataTypes
<1> QED
  BY <1>1, <1>2, <1>4, <1>6, <1>7, <1>8 DEF CallBecomes

LEMMA WriteBreaksDoes ==
  ASSUME DataTypes, RunInv, NEW s \in Station, WriteBreaks(s)
  PROVE  /\ run[s].linked /\ run[s].state = "running" /\ Fails(s)
         /\ \/ Puts(s, Torn, flash[run[s].board].identity)
            \/ Puts(s, flash[run[s].board].firmware, Torn)
         /\ run[s].step \in {"firmware", "partition"}
         /\ Quiet /\ UNCHANGED <<call, givenUp, written>>
<1>1. /\ run[s].linked /\ Fail(s)
      /\ Quiet /\ UNCHANGED <<call, givenUp, written>>
  BY DEF WriteBreaks, Quiet, registry, history
<1>2. Fails(s)
  BY <1>1, FailDoes
<1>3. CASE Runs(s, "firmware") /\ Flashes(s, "firmware", Torn)
  BY <1>1, <1>2, <1>3, FlashesDoes DEF Runs
<1>4. CASE Runs(s, "partition") /\ Flashes(s, "identity", Torn)
  BY <1>1, <1>2, <1>4, FlashesDoes DEF Runs
<1> QED
  BY <1>3, <1>4 DEF WriteBreaks

LEMMA RecordedDoes ==
  ASSUME DataTypes, NEW s \in Station, Recorded(s)
  PROVE  /\ Runs(s, "record") /\ CallDone(s) /\ Advances(s, "reset") /\ CallBecomes(s, NoCall)
         /\ Quiet /\ UNCHANGED <<flash, givenUp, written>>
<1>1. /\ Runs(s, "record") /\ CallDone(s)
      /\ run' = [run EXCEPT ![s].step = "reset"] /\ Goes(s, NoCall)
      /\ Quiet /\ UNCHANGED <<flash, givenUp, written>>
  BY DEF Recorded, Quiet, registry, boards, history
<1> QED
  BY <1>1, StepDoes, GoesTyped, NoCallTyped, Slots DEF Steps

LEMMA ResetDoes ==
  ASSUME DataTypes, NEW s \in Station, Reset(s)
  PROVE  /\ Runs(s, "reset")
         /\ run' \in [Station -> RunSet] /\ \A t \in Station \ {s} : run'[t] = run[t]
         /\ Stays(s) /\ run'[s].state = "done" /\ run'[s].linked = FALSE
         /\ run'[s].device = run[s].device /\ run'[s].image = run[s].image
         /\ Quiet /\ UNCHANGED <<call, flash, givenUp, written>>
<1>1. /\ Runs(s, "reset")
      /\ run' = [run EXCEPT ![s] = [[run[s] EXCEPT !.state = "done"] EXCEPT !.linked = FALSE]]
      /\ Quiet /\ UNCHANGED <<call, flash, givenUp, written>>
  BY DEF Reset, Quiet, registry, boards, history
<1>2. run \in [Station -> RunSet] /\ run[s] \in RunSet
  BY RunTyped
<1> DEFINE r == [[run[s] EXCEPT !.state = "done"] EXCEPT !.linked = FALSE]
<1>3. /\ r \in RunSet /\ r.state = "done" /\ r.linked = FALSE
      /\ r.device = run[s].device /\ r.image = run[s].image
      /\ r.board = run[s].board /\ r.meter = run[s].meter /\ r.number = run[s].number
  BY <1>2 DEF RunSet
<1>4. run' = [run EXCEPT ![s] = r]
  BY <1>1
<1> HIDE DEF r
<1> QED
  BY <1>1, <1>2, <1>3, <1>4 DEF Stays

LEMMA PortLostDoes ==
  ASSUME DataTypes, NEW s \in Station, PortLost(s)
  PROVE  /\ run[s].state = "running" /\ Fails(s) /\ run[s].step \in {"erase", "firmware", "partition"}
         /\ Quiet /\ UNCHANGED <<call, flash, givenUp, written>>
BY FailDoes DEF PortLost, Quiet, registry, boards, history

LEMMA CallFailsDoes ==
  ASSUME DataTypes, NEW s \in Station, CallFails(s)
  PROVE  /\ run[s].state = "running" /\ Fails(s) /\ CallBecomes(s, NoCall)
         /\ Quiet /\ UNCHANGED <<flash, givenUp, written>>
<1>1. /\ run[s].state = "running" /\ Fail(s) /\ Goes(s, NoCall)
      /\ Quiet /\ UNCHANGED <<flash, givenUp, written>>
  BY DEF CallFails, Quiet, registry, boards, history
<1> QED
  BY <1>1, FailDoes, GoesTyped, NoCallTyped, Slots

LEMMA GiveUpDoes ==
  ASSUME DataTypes, CallInv, NEW s \in Station, GiveUp(s)
  PROVE  /\ run[s].state = "running" /\ Fails(s) /\ ~CallDone(s) /\ call[s] # NoCall
         /\ givenUp = 0 /\ givenUp' = 1 /\ MaxGivenUp = 1
         /\ call[GivenUp] = NoCall
         /\ call' \in [Slot -> CallSet] /\ call'[s] = NoCall /\ call'[GivenUp] = call[s]
         /\ \A y \in Slot \ {s, GivenUp} : call'[y] = call[y]
         /\ Quiet /\ UNCHANGED <<flash, written>>
<1>1. /\ run[s].state = "running" /\ Fail(s) /\ ~CallDone(s) /\ call[s] # NoCall
      /\ givenUp < MaxGivenUp /\ givenUp' = givenUp + 1
      /\ call' = [call EXCEPT ![s] = NoCall, ![GivenUp] = call[s]]
      /\ Quiet /\ UNCHANGED <<flash, written>>
  BY DEF GiveUp, Quiet, registry, boards, history
<1>2. givenUp = 0 /\ givenUp' = 1 /\ MaxGivenUp = 1
  <2>1. MaxGivenUp \in {0, 1}
    BY FactoryAssumption
  <2> QED
    BY <1>1, <2>1 DEF DataTypes
<1>3. /\ call' \in [Slot -> CallSet] /\ call'[s] = NoCall /\ call'[GivenUp] = call[s]
      /\ \A y \in Slot \ {s, GivenUp} : call'[y] = call[y]
  BY <1>1, Slots, RunTyped, NoCallTyped
<1> QED
  BY <1>1, <1>2, <1>3, FailDoes DEF CallInv

----------------------------------------------------------------------------
(* What the API does                                                        *)

\* A handler moves its own request, and rows.
Handling(x) ==
  /\ call' \in [Slot -> CallSet] /\ \A y \in Slot \ {x} : call'[y] = call[y]
  /\ UNCHANGED <<firmware, run, plugged, flash, runs, givenUp, written, latest,
                 contested>>

\* It keeps what it was asked.
Asked(x) ==
  /\ call'[x].op = call[x].op /\ call'[x].mac = call[x].mac
  /\ call'[x].meter = call[x].meter /\ call'[x].size = call[x].size

\* It answers, if somebody waits for it, with id and image.
Answered(x, i, image) ==
  \/ x = GivenUp /\ call'[x] = NoCall
  \/ /\ x \in Station /\ Asked(x) /\ call'[x].at = "answered"
     /\ call'[x].id = i /\ call'[x].image = image

LEMMA CallTyped ==
  ASSUME DataTypes, NEW x \in Slot
  PROVE  call \in [Slot -> CallSet] /\ call[x] \in CallSet
BY DEF DataTypes

\* What byMac finds.
LEMMA ByMacFinds ==
  ASSUME NEW b
  PROVE  \/ byMac(b) = 0 /\ \A i \in Ids : ~RowIsFor(i, b)
         \/ byMac(b) \in Ids /\ RowIsFor(byMac(b), b)
<1>1. CASE \E i \in Known : rows[i].mac = b
  <2>1. byMac(b) \in Known /\ rows[byMac(b)].mac = b
    BY <1>1 DEF byMac
  <2> QED
    BY <2>1 DEF RowIsFor, Known
<1>2. CASE ~\E i \in Known : rows[i].mac = b
  BY <1>2 DEF byMac, RowIsFor
<1> QED
  BY <1>1, <1>2

LEMMA AnswersDoes ==
  ASSUME DataTypes, NEW x \in Slot, NEW c \in CallSet, Answers(x, c),
         c.op = call[x].op, c.mac = call[x].mac, c.meter = call[x].meter, c.size = call[x].size
  PROVE  /\ call' \in [Slot -> CallSet] /\ \A y \in Slot \ {x} : call'[y] = call[y]
         /\ Answered(x, c.id, c.image)
<1>1. CASE x = GivenUp
  BY <1>1, GoesTyped, NoCallTyped DEF Answers, Answered, CallBecomes
<1>2. CASE x # GivenUp
  <2> DEFINE d == [c EXCEPT !.at = "answered"]
  <2>1. /\ d \in CallSet /\ d.at = "answered" /\ d.op = c.op /\ d.mac = c.mac
        /\ d.meter = c.meter /\ d.size = c.size /\ d.id = c.id /\ d.image = c.image
    BY DEF CallSet
  <2>2. Goes(x, d)
    BY <1>2 DEF Answers
  <2> HIDE DEF d
  <2>3. x \in Station
    BY <1>2 DEF Slot
  <2> QED
    BY <2>1, <2>2, <2>3, GoesTyped DEF Answered, CallBecomes, Asked
<1> QED
  BY <1>1, <1>2

LEMMA RegisterLooksDoes ==
  ASSUME DataTypes, NEW x \in Slot, RegisterLooks(x)
  PROVE  /\ call[x].op = "register" /\ call[x].at = "lookup"
         /\ Handling(x) /\ Asked(x) /\ UNCHANGED <<rows, sequence>>
         /\ \/ call'[x].at = "insert" /\ \A i \in Ids : ~RowIsFor(i, call[x].mac)
            \/ call'[x].at = "update" /\ RowIsFor(call'[x].id, call[x].mac)
<1>1. call[x] \in CallSet /\ call \in [Slot -> CallSet]
  BY CallTyped
<1>2. PICK i : i = byMac(call[x].mac)
  OBVIOUS
<1>3. PICK at : at = (IF i = 0 THEN "insert" ELSE "update")
  OBVIOUS
<1>4. /\ \/ at = "insert" /\ \A j \in Ids : ~RowIsFor(j, call[x].mac)
         \/ at = "update" /\ RowIsFor(i, call[x].mac)
      /\ i \in MaybeId
  BY <1>2, <1>3, ByMacFinds, IdFacts DEF MaybeId
<1> DEFINE c == [[call[x] EXCEPT !.id = i] EXCEPT !.at = at]
<1>5. /\ call[x].op = "register" /\ call[x].at = "lookup"
      /\ call' = [call EXCEPT ![x] = c]
      /\ UNCHANGED <<firmware, rows, sequence, run, plugged, flash, runs, givenUp,
                     written, latest, contested>>
  BY <1>2, <1>3 DEF RegisterLooks, Goes, registry, boards, history
<1>6. /\ c \in CallSet /\ c.at = at /\ c.id = i /\ c.op = call[x].op /\ c.mac = call[x].mac
      /\ c.meter = call[x].meter /\ c.size = call[x].size
  BY <1>1, <1>4 DEF CallSet
<1> HIDE DEF c
<1>7. call'[x] = c /\ call' \in [Slot -> CallSet] /\ \A y \in Slot \ {x} : call'[y] = call[y]
  BY <1>1, <1>5, <1>6
<1> QED
  BY <1>4, <1>5, <1>6, <1>7 DEF Handling, Asked

LEMMA RegisterUpdatesDoes ==
  ASSUME DataTypes, CallInv, NEW x \in Slot, RegisterUpdates(x)
  PROVE  /\ call[x].op = "register" /\ call[x].at = "update"
         /\ Handling(x) /\ Answered(x, call[x].id, call[x].image) /\ UNCHANGED sequence
         /\ rows' \in [Ids -> Rows] /\ rows'[call[x].id].mac = rows[call[x].id].mac
         /\ rows'[call[x].id] # NoRow
         /\ rows'[call[x].id].flashes = rows[call[x].id].flashes
         /\ rows'[call[x].id].meter = call[x].meter
         /\ \A i \in Ids \ {call[x].id} : rows'[i] = rows[i]
<1>1. call[x] \in CallSet /\ call \in [Slot -> CallSet] /\ rows \in [Ids -> Rows]
  BY CallTyped DEF DataTypes
<1>2. /\ call[x].op = "register" /\ call[x].at = "update" /\ Answers(x, call[x])
      /\ rows' = [rows EXCEPT ![call[x].id] = [rows[call[x].id] EXCEPT !.meter = call[x].meter]]
      /\ UNCHANGED <<firmware, sequence, run, plugged, flash, runs, givenUp, written,
                     latest, contested>>
  BY DEF RegisterUpdates, boards, history
<1>3. call[x].meter \in Meter /\ call[x].id \in Ids /\ rows[call[x].id] # NoRow
  BY <1>2 DEF CallInv, Sound, RowIsFor, Known
<1>4. /\ call' \in [Slot -> CallSet] /\ \A y \in Slot \ {x} : call'[y] = call[y]
      /\ Answered(x, call[x].id, call[x].image)
  BY <1>1, <1>2, AnswersDoes
<1> DEFINE row == [rows[call[x].id] EXCEPT !.meter = call[x].meter]
<1>5. /\ row \in Rows /\ row # NoRow /\ row.meter = call[x].meter
      /\ row.mac = rows[call[x].id].mac /\ row.flashes = rows[call[x].id].flashes
  <2>1. rows[call[x].id] \in [mac : Board, meter : Meter, flashes : Nat]
    BY <1>1, <1>3 DEF Rows
  <2>2. /\ row \in [mac : Board, meter : Meter, flashes : Nat] /\ row.meter = call[x].meter
        /\ row.mac = rows[call[x].id].mac /\ row.flashes = rows[call[x].id].flashes
    BY <1>3, <2>1
  <2>3. NoRow.meter = NoMeter /\ NoMeter \notin Meter
    BY FactoryAssumption DEF NoRow
  <2> HIDE DEF row
  <2> QED
    BY <1>3, <2>2, <2>3 DEF Rows
<1> HIDE DEF row
<1>6. rows' = [rows EXCEPT ![call[x].id] = row]
  BY <1>2 DEF row
<1> QED
  BY <1>1, <1>2, <1>3, <1>4, <1>5, <1>6 DEF Handling

LEMMA CountsFlashDoes ==
  ASSUME DataTypes, CallInv, NEW x \in Slot, CountsFlash(x)
  PROVE  /\ call[x].op = "flashed" /\ call[x].at = "update"
         /\ Handling(x) /\ Answered(x, call[x].id, call[x].image) /\ UNCHANGED sequence
         /\ rows' \in [Ids -> Rows] /\ rows'[call[x].id].mac = rows[call[x].id].mac
         /\ rows'[call[x].id] # NoRow
         /\ rows'[call[x].id].flashes = rows[call[x].id].flashes + 1
         /\ rows'[call[x].id].meter = rows[call[x].id].meter
         /\ \A i \in Ids \ {call[x].id} : rows'[i] = rows[i]
<1>1. call[x] \in CallSet /\ call \in [Slot -> CallSet] /\ rows \in [Ids -> Rows]
  BY CallTyped DEF DataTypes
<1>2. /\ call[x].op = "flashed" /\ call[x].at = "update" /\ Answers(x, call[x])
      /\ rows' = [rows EXCEPT ![call[x].id] =
                    [rows[call[x].id] EXCEPT !.flashes = rows[call[x].id].flashes + 1]]
      /\ UNCHANGED <<firmware, sequence, run, plugged, flash, runs, givenUp, written,
                     latest, contested>>
  BY DEF CountsFlash, boards, history
<1>3. call[x].id \in Ids /\ rows[call[x].id] # NoRow
  BY <1>2 DEF CallInv, Sound, Known
<1>4. /\ call' \in [Slot -> CallSet] /\ \A y \in Slot \ {x} : call'[y] = call[y]
      /\ Answered(x, call[x].id, call[x].image)
  BY <1>1, <1>2, AnswersDoes
<1> DEFINE row == [rows[call[x].id] EXCEPT !.flashes = rows[call[x].id].flashes + 1]
<1>5. /\ row \in Rows /\ row # NoRow /\ row.meter = rows[call[x].id].meter
      /\ row.mac = rows[call[x].id].mac /\ row.flashes = rows[call[x].id].flashes + 1
  <2>1. rows[call[x].id] \in [mac : Board, meter : Meter, flashes : Nat]
    BY <1>1, <1>3 DEF Rows
  <2>2. /\ row \in [mac : Board, meter : Meter, flashes : Nat] /\ row.meter = rows[call[x].id].meter
        /\ row.mac = rows[call[x].id].mac /\ row.flashes = rows[call[x].id].flashes + 1
    BY <2>1
  <2>3. NoRow.meter = NoMeter /\ NoMeter \notin Meter
    BY FactoryAssumption DEF NoRow
  <2> HIDE DEF row
  <2> QED
    BY <2>1, <2>2, <2>3 DEF Rows
<1> HIDE DEF row
<1>6. rows' = [rows EXCEPT ![call[x].id] = row]
  BY <1>2 DEF row
<1> QED
  BY <1>1, <1>2, <1>3, <1>4, <1>5, <1>6 DEF Handling

LEMMA RegisterInsertsDoes ==
  ASSUME DataTypes, CallInv, NEW x \in Slot, RegisterInserts(x), sequence + 1 \in Ids
  PROVE  /\ call[x].op = "register" /\ call[x].at = "insert" /\ sequence' = sequence + 1
         /\ Handling(x)
         /\ \/ /\ \A i \in Ids : ~RowIsFor(i, call[x].mac)
               /\ Answered(x, sequence + 1, call[x].image)
               /\ rows' \in [Ids -> Rows]
               /\ \A i \in Ids \ {sequence + 1} : rows'[i] = rows[i]
               /\ rows'[sequence + 1] # NoRow /\ rows'[sequence + 1].mac = call[x].mac
               /\ rows'[sequence + 1].meter = call[x].meter /\ rows'[sequence + 1].flashes = 0
            \/ /\ \E i \in Ids : RowIsFor(i, call[x].mac)
               /\ rows' = rows /\ Asked(x) /\ call'[x].at = "again"
<1>1. call[x] \in CallSet /\ call \in [Slot -> CallSet] /\ rows \in [Ids -> Rows]
  BY CallTyped DEF DataTypes
<1>2. /\ call[x].op = "register" /\ call[x].at = "insert" /\ sequence' = sequence + 1
      /\ UNCHANGED <<firmware, run, plugged, flash, runs, givenUp, written, latest,
                     contested>>
  BY DEF RegisterInserts, boards, history
<1>3. call[x].meter \in Meter /\ call[x].mac \in Board
  BY <1>2 DEF CallInv, Sound
<1>4. CASE byMac(call[x].mac) = 0
  <2>1. \A i \in Ids : ~RowIsFor(i, call[x].mac)
    BY <1>4, ByMacFinds, IdFacts
  <2> DEFINE row == [mac |-> call[x].mac, meter |-> call[x].meter, flashes |-> 0]
             c == [call[x] EXCEPT !.id = sequence + 1]
  <2>2. rows' = [rows EXCEPT ![sequence + 1] = row] /\ Answers(x, c)
    BY <1>4 DEF RegisterInserts
  <2>3. row \in Rows /\ row # NoRow
    BY <1>3, FactoryAssumption DEF Rows, NoRow
  <2>4. /\ c \in CallSet /\ c.op = call[x].op /\ c.mac = call[x].mac /\ c.meter = call[x].meter
        /\ c.size = call[x].size /\ c.id = sequence + 1 /\ c.image = call[x].image
    BY <1>1 DEF CallSet, MaybeId
  <2>5. row.mac = call[x].mac /\ row.meter = call[x].meter /\ row.flashes = 0
    OBVIOUS
  <2> HIDE DEF row, c
  <2>6. /\ call' \in [Slot -> CallSet] /\ \A y \in Slot \ {x} : call'[y] = call[y]
        /\ Answered(x, sequence + 1, call[x].image)
    BY <2>2, <2>4, AnswersDoes
  <2>7. /\ rows' \in [Ids -> Rows] /\ \A i \in Ids \ {sequence + 1} : rows'[i] = rows[i]
        /\ rows'[sequence + 1] = row
    BY <1>1, <2>2, <2>3
  <2> QED
    BY <1>2, <2>1, <2>3, <2>5, <2>6, <2>7 DEF Handling
<1>5. CASE byMac(call[x].mac) # 0
  <2>1. \E i \in Ids : RowIsFor(i, call[x].mac)
    BY <1>5, ByMacFinds
  <2> DEFINE c == [call[x] EXCEPT !.at = "again"]
  <2>2. rows' = rows /\ Goes(x, c)
    BY <1>5 DEF RegisterInserts
  <2>3. /\ c \in CallSet /\ c.op = call[x].op /\ c.mac = call[x].mac /\ c.meter = call[x].meter
        /\ c.size = call[x].size /\ c.at = "again"
    BY <1>1 DEF CallSet
  <2> HIDE DEF c
  <2> QED
    BY <1>2, <2>1, <2>2, <2>3, GoesTyped DEF Handling, Asked, CallBecomes
<1> QED
  BY <1>4, <1>5

LEMMA RegisterLooksAgainDoes ==
  ASSUME DataTypes, CallInv, NEW x \in Slot, RegisterLooksAgain(x)
  PROVE  /\ call[x].op = "register" /\ call[x].at = "again"
         /\ Handling(x) /\ UNCHANGED <<rows, sequence>>
         /\ \E i \in Ids : RowIsFor(i, call[x].mac) /\ Answered(x, i, call[x].image)
<1>1. call[x] \in CallSet /\ call \in [Slot -> CallSet]
  BY CallTyped
<1>2. PICK i : i = byMac(call[x].mac)
  OBVIOUS
<1> DEFINE c == [call[x] EXCEPT !.id = i]
<1>3. /\ call[x].op = "register" /\ call[x].at = "again" /\ Answers(x, c)
      /\ UNCHANGED <<firmware, rows, sequence, run, plugged, flash, runs, givenUp,
                     written, latest, contested>>
  BY <1>2 DEF RegisterLooksAgain, registry, boards, history
<1>4. i \in Ids /\ RowIsFor(i, call[x].mac)
  BY <1>2, <1>3, ByMacFinds DEF CallInv, Sound
<1>5. /\ c \in CallSet /\ c.op = call[x].op /\ c.mac = call[x].mac /\ c.meter = call[x].meter
      /\ c.size = call[x].size /\ c.id = i /\ c.image = call[x].image
  BY <1>1, <1>4 DEF CallSet, MaybeId
<1> HIDE DEF c
<1> QED
  BY <1>3, <1>4, <1>5, AnswersDoes DEF Handling

LEMMA BuildsPartitionDoes ==
  ASSUME DataTypes, CallInv, NEW x \in Slot, BuildsPartition(x)
  PROVE  /\ call[x].op = "partition" /\ call[x].at = "read"
         /\ Handling(x) /\ UNCHANGED <<rows, sequence>>
         /\ Answered(x, call[x].id, FactoryImage(call[x].id, rows[call[x].id].meter, call[x].size))
<1>1. call[x] \in CallSet /\ call \in [Slot -> CallSet] /\ rows \in [Ids -> Rows]
  BY CallTyped DEF DataTypes
<1>2. PICK image : image = FactoryImage(call[x].id, rows[call[x].id].meter, call[x].size)
  OBVIOUS
<1> DEFINE c == [call[x] EXCEPT !.image = image]
<1>3. /\ call[x].op = "partition" /\ call[x].at = "read" /\ Answers(x, c)
      /\ UNCHANGED <<firmware, rows, sequence, run, plugged, flash, runs, givenUp,
                     written, latest, contested>>
  BY <1>2 DEF BuildsPartition, registry, boards, history
<1>4. call[x].id \in Ids /\ rows[call[x].id] # NoRow /\ call[x].size \in Sizes
  BY <1>3 DEF CallInv, Sound, Known
<1>5. rows[call[x].id].meter \in Meter
  BY <1>1, <1>4 DEF Rows
<1>6. image \in Images
  BY <1>2, <1>4, <1>5 DEF Images
<1>7. /\ c \in CallSet /\ c.op = call[x].op /\ c.mac = call[x].mac /\ c.meter = call[x].meter
      /\ c.size = call[x].size /\ c.id = call[x].id /\ c.image = image
  BY <1>1, <1>6 DEF CallSet
<1> HIDE DEF c
<1> QED
  BY <1>2, <1>3, <1>7, AnswersDoes DEF Handling

----------------------------------------------------------------------------
(* Types are kept, and rows are                                             *)

\* What an image that is not refused reads back as.
LEMMA ImageIsRead ==
  ASSUME NEW i \in Ids, NEW meter \in Meter, NEW size \in Sizes,
         FactoryImage(i, meter, size) # Refused
  PROVE  ReadBack(FactoryImage(i, meter, size), i) /\ HasMeter(FactoryImage(i, meter, size), meter)
<1>1. PICK table \in Offered : size = findPartition(parsePartitionTable(table), "fctry").size
  BY DEF Sizes
<1> QED
  BY <1>1 DEF ImagesAreReadBack, Offered, ReadBack, HasMeter

\* The sequence has a number left for every request that may take one.
LEMMA NumberLeft ==
  ASSUME DataTypes, SequenceInv, NEW x \in Slot,
         call[x].op = "register", call[x].at \in {"lookup", "insert"}
  PROVE  sequence + 1 \in Ids /\ sequence + 1 <= runs
<1>1. x \in Asking /\ IsFiniteSet(Asking) /\ sequence + Cardinality(Asking) <= runs
  BY DEF Asking, SequenceInv
<1>2. Cardinality(Asking) \in Nat /\ Cardinality(Asking) # 0
  BY <1>1, FS_CardinalityType, FS_EmptySet
<1>3. sequence \in Nat /\ runs \in 0..MaxRuns
  BY DEF DataTypes
<1>4. MaxRuns \in Nat
  BY FactoryAssumption
<1> QED
  BY <1>1, <1>2, <1>3, <1>4 DEF Ids


LEMMA OperatorTypes ==
  ASSUME DataTypes, Operator
  PROVE  DataTypes'
<1> USE DEF DataTypes
<1>1. CASE \E b \in Board, s \in Station : Plug(b, s)
  BY <1>1, PlugDoes
<1>2. CASE \E b \in Board : Unplug(b)
  BY <1>2, UnplugDoes
<1>3. CASE \E s \in Station : ConnectFails(s)
  BY <1>3, ConnectFailsDoes
<1>4. ASSUME NEW s \in Station, NEW b \in Board, NEW m \in Meter, NEW erase \in BOOLEAN,
             Start(s, b, m, erase)
      PROVE  DataTypes'
  <2>1. MaxRuns \in Nat
    BY FactoryAssumption
  <2>2. Started(s, b, m)
    BY <1>4, StartDoes, Zenon
  <2>3. runs' \in 0..MaxRuns
    BY <2>1, <2>2 DEF Started
  <2>4. contested' \subseteq Board
    BY <2>2 DEF Started
  <2> QED
    BY <2>2, <2>3, <2>4 DEF Started
<1> QED
  BY <1>1, <1>2, <1>3, <1>4 DEF Operator

LEMMA ProvisionTypes ==
  ASSUME DataTypes, CallInv, RunInv, NEW s \in Station, Provision(s)
  PROVE  DataTypes'
<1> USE DEF DataTypes
<1>1. CASE Registered(s)
  BY <1>1, RegisteredDoes DEF Quiet
<1>2. CASE GotPartition(s)
  BY <1>2, GotPartitionDoes DEF Quiet
<1>3. CASE Erase(s)
  BY <1>3, EraseDoes DEF Quiet, Advances, Puts
<1>4. CASE WriteFirmware(s)
  BY <1>4, WriteFirmwareDoes DEF Quiet, Advances, Puts
<1>5. CASE WriteIdentity(s)
  BY <1>5, WriteIdentityDoes DEF Quiet, Advances, Puts, CallBecomes
<1>6. CASE WriteBreaks(s)
  BY <1>6, WriteBreaksDoes DEF Quiet, Fails, Puts
<1>7. CASE Recorded(s)
  BY <1>7, RecordedDoes DEF Quiet, Advances, CallBecomes
<1>8. CASE Reset(s)
  BY <1>8, ResetDoes DEF Quiet
<1>9. CASE PortLost(s)
  BY <1>9, PortLostDoes DEF Quiet, Fails
<1>10. CASE CallFails(s)
  BY <1>10, CallFailsDoes DEF Quiet, Fails, CallBecomes
<1>11. CASE GiveUp(s)
  <2>1. givenUp' \in 0..MaxGivenUp
    BY <1>11, GiveUpDoes
  <2> QED
    BY <1>11, <2>1, GiveUpDoes DEF Quiet, Fails
<1> QED
  BY <1>1, <1>2, <1>3, <1>4, <1>5, <1>6, <1>7, <1>8, <1>9, <1>10, <1>11 DEF Provision

LEMMA HandleTypes ==
  ASSUME DataTypes, CallInv, SequenceInv, NEW x \in Slot, Handle(x)
  PROVE  DataTypes'
<1> USE DEF DataTypes, Handling
<1>1. CASE RegisterLooks(x)
  BY <1>1, RegisterLooksDoes
<1>2. CASE RegisterUpdates(x)
  BY <1>2, RegisterUpdatesDoes
<1>3. CASE RegisterInserts(x)
  <2>1. sequence + 1 \in Ids
    BY <1>3, NumberLeft DEF RegisterInserts
  <2> QED
    BY <1>3, <2>1, RegisterInsertsDoes
<1>4. CASE RegisterLooksAgain(x)
  BY <1>4, RegisterLooksAgainDoes
<1>5. CASE BuildsPartition(x)
  BY <1>5, BuildsPartitionDoes
<1>6. CASE CountsFlash(x)
  BY <1>6, CountsFlashDoes
<1> QED
  BY <1>1, <1>2, <1>3, <1>4, <1>5, <1>6 DEF Handle

LEMMA TypesKept ==
  ASSUME DataTypes, CallInv, RunInv, SequenceInv, [Next]_vars
  PROVE  DataTypes'
<1>1. CASE UNCHANGED vars
  BY <1>1 DEF vars, registry, boards, history, DataTypes
<1> QED
  BY <1>1, OperatorTypes, ProvisionTypes, HandleTypes DEF Next

\* A row stays, with its board; only a registration under way or a flash
\* changes it.
RowsGrow ==
  \A i \in Ids : rows[i] # NoRow =>
    rows'[i] # NoRow /\ rows'[i].mac = rows[i].mac /\ rows'[i].flashes >= rows[i].flashes

LEMMA RowIsTyped ==
  ASSUME DataTypes, NEW i \in Ids, rows[i] # NoRow
  PROVE  rows[i].mac \in Board /\ rows[i].meter \in Meter /\ rows[i].flashes \in Nat
BY DEF DataTypes, Rows

\* The only steps that change the registry.
Writing(x) == RegisterUpdates(x) \/ RegisterInserts(x) \/ CountsFlash(x)

LEMMA Writers ==
  ASSUME [Next]_vars
  PROVE  UNCHANGED <<rows, sequence>> \/ \E x \in Slot : Writing(x)
<1>1. CASE UNCHANGED vars
  BY <1>1 DEF vars, registry
<1>2. CASE Operator
  BY <1>2 DEF Operator, Plug, Unplug, ConnectFails, Start, registry
<1>3. CASE \E s \in Station : Provision(s)
  BY <1>3 DEF Provision, Registered, GotPartition, Erase, WriteFirmware, WriteIdentity,
    WriteBreaks,
     Recorded, Reset, PortLost, CallFails, GiveUp, registry
<1>4. CASE \E x \in Slot : Handle(x)
  BY <1>4 DEF Handle, RegisterLooks, RegisterLooksAgain, BuildsPartition, Writing,
    registry
<1> QED
  BY <1>1, <1>2, <1>3, <1>4 DEF Next

LEMMA RowsGrowAlways ==
  ASSUME DataTypes, CallInv, SequenceInv, RegistryInv, [Next]_vars
  PROVE  RowsGrow
<1>0. \A i \in Ids : rows[i] # NoRow => rows[i].flashes \in Nat
  BY RowIsTyped
<1>1. CASE UNCHANGED <<rows, sequence>>
  BY <1>0, <1>1 DEF RowsGrow
<1>2. ASSUME NEW x \in Slot, RegisterUpdates(x) PROVE RowsGrow
  BY <1>0, <1>2, RegisterUpdatesDoes DEF RowsGrow
<1>3. ASSUME NEW x \in Slot, CountsFlash(x) PROVE RowsGrow
  BY <1>0, <1>3, CountsFlashDoes DEF RowsGrow
<1>4. ASSUME NEW x \in Slot, RegisterInserts(x) PROVE RowsGrow
  <2>1. sequence + 1 \in Ids
    BY <1>4, NumberLeft DEF RegisterInserts
  <2>2. sequence \in Nat /\ \A i \in Ids : rows[i] # NoRow => i # sequence + 1
    BY IdFacts DEF RegistryInv, Known, DataTypes
  <2> QED
    BY <1>0, <1>4, <2>1, <2>2, RegisterInsertsDoes DEF RowsGrow
<1> QED
  BY <1>1, <1>2, <1>3, <1>4, Writers DEF Writing

\* What is said of a row stays true.
LEMMA RowStays ==
  ASSUME DataTypes, RowsGrow, NEW i, NEW b
  PROVE  /\ i \in Known => i \in Known' /\ rows'[i].mac = rows[i].mac
         /\ RowIsFor(i, b) => RowIsFor(i, b)'
         /\ i \in Known /\ rows[i].flashes > 0 /\ rows'[i].flashes \in Nat => rows'[i].flashes > 0
<1>1. i \in Known => i \in Ids /\ rows[i] # NoRow /\ rows[i].flashes \in Nat
  BY RowIsTyped DEF Known
<1> QED
  BY <1>1 DEF RowsGrow, Known, RowIsFor

LEMMA SoundStays ==
  ASSUME DataTypes, DataTypes', RowsGrow, NEW c, Sound(c)
  PROVE  Sound(c)'
<1>1. \A i \in Known : rows[i].flashes > 0 => rows'[i].flashes > 0
  <2>1. ASSUME NEW i \in Known, rows[i].flashes > 0 PROVE rows'[i].flashes > 0
    <3>1. i \in Ids /\ rows[i] # NoRow /\ rows[i].flashes \in Nat
      BY RowIsTyped DEF Known
    <3>2. rows'[i] # NoRow /\ rows'[i].flashes >= rows[i].flashes
      BY <3>1 DEF RowsGrow
    <3>3. rows'[i] \in Rows
      BY <3>1 DEF DataTypes
    <3>4. rows'[i].flashes \in Nat
      BY <3>2, <3>3 DEF Rows
    <3> QED
      BY <2>1, <3>1, <3>2, <3>4
  <2> QED
    BY <2>1
<1> QED
  BY <1>1, RowStays DEF Sound

----------------------------------------------------------------------------
(* The registry and its sequence                                            *)

LEMMA ContestedGrows ==
  ASSUME [Next]_vars
  PROVE  contested \subseteq contested'
<1>1. CASE UNCHANGED vars
  BY <1>1 DEF vars, history
<1>2. CASE Operator
  BY <1>2 DEF Operator, Plug, Unplug, ConnectFails, Start, history
<1>3. CASE \E s \in Station : Provision(s)
  BY <1>3 DEF Provision, Registered, GotPartition, Erase, WriteFirmware, WriteIdentity,
    WriteBreaks,
     Recorded, Reset, PortLost, CallFails, GiveUp, history
<1>4. CASE \E x \in Slot : Handle(x)
  BY <1>4 DEF Handle, RegisterLooks, RegisterUpdates, RegisterInserts,
    RegisterLooksAgain,
     BuildsPartition, CountsFlash, history
<1> QED
  BY <1>1, <1>2, <1>3, <1>4 DEF Next

LEMMA RegistryKept ==
  ASSUME DataTypes, RegistryInv, SequenceInv, CallInv, MeterInv, [Next]_vars
  PROVE  RegistryInv'
<1>0. contested' = {} => contested = {}
  BY ContestedGrows
<1>1. CASE UNCHANGED <<rows, sequence>>
  BY <1>0, <1>1 DEF RegistryInv, Known
<1>2. ASSUME Known' = Known, sequence' = sequence, \A i \in Known : rows'[i].mac = rows[i].mac
      PROVE  RegistryInv'
  BY <1>0, <1>2 DEF RegistryInv
<1>3. ASSUME NEW x \in Slot, RegisterUpdates(x)
      PROVE  RegistryInv'
  <2>1. call[x].id \in Known
    BY <1>3 DEF RegisterUpdates, CallInv, Sound, RowIsFor
  <2> QED
    BY <1>2, <1>3, <2>1, RegisterUpdatesDoes DEF Known
<1>4. ASSUME NEW x \in Slot, CountsFlash(x)
      PROVE  RegistryInv'
  <2>1. call[x].id \in Known
    BY <1>4 DEF CountsFlash, CallInv, Sound
  <2> QED
    BY <1>2, <1>4, <2>1, CountsFlashDoes DEF Known
<1>5. ASSUME NEW x \in Slot, RegisterInserts(x)
      PROVE  RegistryInv'
  <2>0. sequence + 1 \in Ids
    BY <1>5, NumberLeft DEF RegisterInserts
  <2>1. sequence \in Nat /\ sequence + 1 \notin Known /\ Known \subseteq 1..sequence
    BY DEF RegistryInv, DataTypes
  <2>2. sequence' = sequence + 1 /\ contested' = contested
    BY <1>5, <2>0, RegisterInsertsDoes DEF Handling
  <2>3. CASE \A i \in Ids : ~RowIsFor(i, call[x].mac)
    <3>1. /\ \A i \in Ids \ {sequence + 1} : rows'[i] = rows[i]
          /\ rows'[sequence + 1] # NoRow /\ rows'[sequence + 1].mac = call[x].mac
      BY <1>5, <2>0, <2>3, RegisterInsertsDoes
    <3>2. Known' = Known \union {sequence + 1}
      BY <2>0, <3>1 DEF Known
    <3>3. \A i \in Known : rows'[i] = rows[i] /\ rows[i].mac # call[x].mac
      BY <2>1, <2>3, <3>1 DEF Known, RowIsFor
    <3>4. Known' \subseteq 1..(sequence + 1)
      BY <2>1, <3>2
    <3>5. \A i, j \in Known' : rows'[i].mac = rows'[j].mac => i = j
      BY <3>1, <3>2, <3>3 DEF RegistryInv
    <3>6. contested = {} => Known' = 1..(sequence + 1)
      <4>1. ASSUME contested = {} PROVE Known' = 1..(sequence + 1)
        <5>1. Known = 1..sequence
          BY <4>1 DEF RegistryInv
        <5> QED
          BY <2>1, <3>2, <5>1
      <4> QED
        BY <4>1
    <3> QED
      BY <2>2, <3>4, <3>5, <3>6 DEF RegistryInv
  <2>4. CASE \E i \in Ids : RowIsFor(i, call[x].mac)
    <3>1. rows' = rows
      BY <1>5, <2>0, <2>4, RegisterInsertsDoes
    <3>2. call[x].op = "register" /\ call[x].at = "insert" /\ call[x].mac \in Board
      BY <1>5 DEF RegisterInserts, CallInv, Sound
    <3>3. contested # {}
      BY <2>4, <3>2 DEF MeterInv, Alone, Registering
    <3>4. Known' \subseteq 1..(sequence + 1)
      BY <2>1, <3>1 DEF Known
    <3> QED
      BY <2>2, <3>1, <3>3, <3>4 DEF RegistryInv, Known
  <2> QED
    BY <2>3, <2>4
<1> QED
  BY <1>1, <1>3, <1>4, <1>5, Writers DEF Writing

\* Replacing an element makes a set no larger.
LEMMA Swapped ==
  ASSUME NEW A, IsFiniteSet(A), NEW x \in A, NEW y, NEW B, B \subseteq (A \ {x}) \union {y}
  PROVE  IsFiniteSet(B) /\ Cardinality(B) <= Cardinality(A)
<1>1. IsFiniteSet(A \ {x}) /\ Cardinality(A \ {x}) = Cardinality(A) - 1
  BY FS_RemoveElement
<1> DEFINE C == A \ {x}
<1> HIDE DEF C
<1>2. /\ IsFiniteSet(C \union {y})
      /\ Cardinality(C \union {y}) = IF y \in C THEN Cardinality(C) ELSE Cardinality(C) + 1
  BY <1>1, FS_AddElement DEF C
<1>3. IsFiniteSet(B) /\ Cardinality(B) <= Cardinality(C \union {y})
  BY <1>2, FS_Subset DEF C
<1>4. Cardinality(A) \in Nat /\ Cardinality(C) \in Nat
  BY <1>1, FS_CardinalityType DEF C
<1>5. Cardinality(B) \in Nat
  BY <1>3, FS_CardinalityType
<1> QED
  BY <1>1, <1>2, <1>3, <1>4, <1>5 DEF C

Asks(c) == c.op = "register" /\ c.at \in {"lookup", "insert"}

LEMMA AskingIs == Asking = {x \in Slot : Asks(call[x])} /\ Asking' = {x \in Slot : Asks(call'[x])}
BY DEF Asking, Asks

LEMMA FewerAsk ==
  ASSUME DataTypes, DataTypes', SequenceInv, sequence' = sequence, runs' >= runs,
         \A y \in Slot : Asks(call'[y]) => Asks(call[y])
  PROVE  SequenceInv'
<1>1. Asking' \subseteq Asking
  BY AskingIs
<1>2. IsFiniteSet(Asking') /\ Cardinality(Asking') <= Cardinality(Asking)
  BY <1>1, FS_Subset DEF SequenceInv
<1>3. Cardinality(Asking) \in Nat /\ Cardinality(Asking') \in Nat
  BY <1>2, FS_CardinalityType DEF SequenceInv
<1>4. sequence \in Nat /\ runs \in Nat /\ runs' \in Nat
  BY DEF DataTypes
<1> QED
  BY <1>2, <1>3, <1>4 DEF SequenceInv

LEMMA SequenceKept ==
  ASSUME DataTypes, DataTypes', SequenceInv, CallInv, RunInv, [Next]_vars
  PROVE  SequenceInv'
<1>0. sequence \in Nat /\ runs \in Nat /\ runs' \in Nat
  BY DEF DataTypes
<1>1. CASE UNCHANGED <<call, sequence, runs>>
  BY <1>0, <1>1, FewerAsk
<1>2. ASSUME NEW s \in Station, NEW b \in Board, NEW m \in Meter, Started(s, b, m)
      PROVE  SequenceInv'
  <2>1. Asking' \subseteq Asking \union {s}
    BY <1>2, AskingIs DEF Started, Others
  <2>2. /\ IsFiniteSet(Asking \union {s})
        /\ Cardinality(Asking \union {s}) <= Cardinality(Asking) + 1
        /\ Cardinality(Asking) \in Nat
    BY FS_AddElement, FS_CardinalityType DEF SequenceInv
  <2>3. IsFiniteSet(Asking') /\ Cardinality(Asking') <= Cardinality(Asking \union {s})
    BY <2>1, <2>2, FS_Subset
  <2>4. Cardinality(Asking') \in Nat /\ Cardinality(Asking \union {s}) \in Nat
    BY <2>2, <2>3, FS_CardinalityType
  <2>5. sequence' = sequence /\ runs' = runs + 1
    BY <1>2 DEF Started
  <2> QED
    BY <1>0, <2>2, <2>3, <2>4, <2>5 DEF SequenceInv
<1>3. CASE Operator
  BY <1>1, <1>2, <1>3, StartDoes, Zenon DEF Operator, Plug, Unplug, ConnectFails,
    registry
<1>4. ASSUME NEW s \in Station, Provision(s)
      PROVE  SequenceInv'
  <2>0. ~Asks(NoCall)
    BY NoCallTyped DEF Asks
  <2>1. ASSUME UNCHANGED <<sequence, runs>>, ~Asks(call'[s]),
               \A y \in Slot \ {s} : call'[y] = call[y]
        PROVE  SequenceInv'
    BY <1>0, <2>1, FewerAsk
  <2>2. CASE Registered(s)
    BY <2>1, <2>2, RegisteredDoes DEF Asks, Quiet, Others
  <2>3. CASE GotPartition(s)
    BY <2>0, <2>1, <2>3, GotPartitionDoes DEF Quiet, Others
  <2>4. CASE Erase(s) \/ WriteFirmware(s) \/ WriteBreaks(s) \/ Reset(s) \/ PortLost(s)
    BY <1>1, <2>4 DEF Erase, WriteFirmware, WriteBreaks, Reset, PortLost, registry
  <2>5. CASE WriteIdentity(s)
    BY <2>1, <2>5, WriteIdentityDoes DEF Asks, Quiet, CallBecomes
  <2>6. CASE Recorded(s)
    BY <2>0, <2>1, <2>6, RecordedDoes DEF Quiet, CallBecomes
  <2>7. CASE CallFails(s)
    BY <2>0, <2>1, <2>7, CallFailsDoes DEF Quiet, CallBecomes
  <2>8. CASE GiveUp(s)
    <3>1. /\ call'[s] = NoCall /\ call'[GivenUp] = call[s]
          /\ \A y \in Slot \ {s, GivenUp} : call'[y] = call[y]
          /\ UNCHANGED <<sequence, runs>>
      BY <2>8, GiveUpDoes DEF Quiet
    <3>2. CASE Asks(call[s])
      <4>1. s \in Asking
        BY <3>2, AskingIs, Slots
      <4>2. Asking' \subseteq (Asking \ {s}) \union {GivenUp}
        BY <2>0, <3>1, AskingIs
      <4>3. IsFiniteSet(Asking') /\ Cardinality(Asking') <= Cardinality(Asking)
        BY <4>1, <4>2, Swapped DEF SequenceInv
      <4>4. Cardinality(Asking) \in Nat /\ Cardinality(Asking') \in Nat
        BY <4>3, FS_CardinalityType DEF SequenceInv
      <4> QED
        BY <1>0, <3>1, <4>3, <4>4 DEF SequenceInv
    <3>3. CASE ~Asks(call[s])
      <4>1. \A y \in Slot : Asks(call'[y]) => Asks(call[y])
        BY <2>0, <3>1, <3>3
      <4> QED
        BY <1>0, <3>1, <4>1, FewerAsk
    <3> QED
      BY <3>2, <3>3
  <2> QED
    BY <1>4, <2>2, <2>3, <2>4, <2>5, <2>6, <2>7, <2>8 DEF Provision
<1>5. ASSUME NEW x \in Slot, Handle(x)
      PROVE  SequenceInv'
  <2>1. CASE ~RegisterInserts(x)
    <3>1. UNCHANGED <<sequence, runs>> /\ \A y \in Slot \ {x} : call'[y] = call[y]
      BY <1>5, <2>1, RegisterLooksDoes, RegisterUpdatesDoes, RegisterLooksAgainDoes,
         BuildsPartitionDoes, CountsFlashDoes DEF Handle, Handling
    <3>2. Asks(call'[x]) => Asks(call[x])
      BY <1>5, <2>1, RegisterLooksDoes, RegisterUpdatesDoes, RegisterLooksAgainDoes,
         BuildsPartitionDoes, CountsFlashDoes, NoCallTyped DEF Handle, Asks, Answered
    <3> QED
      BY <1>0, <3>1, <3>2, FewerAsk
  <2>2. CASE RegisterInserts(x)
    <3>0. sequence + 1 \in Ids
      BY <2>2, NumberLeft DEF RegisterInserts
    <3>1. /\ sequence' = sequence + 1 /\ runs' = runs
          /\ \A y \in Slot \ {x} : call'[y] = call[y]
      BY <2>2, <3>0, RegisterInsertsDoes DEF Handling
    <3>2. Asks(call[x]) /\ ~Asks(call'[x])
      BY <2>2, <3>0, RegisterInsertsDoes, NoCallTyped DEF Asks, Answered
    <3>3. x \in Asking /\ Asking' \subseteq Asking \ {x}
      BY <3>1, <3>2, AskingIs
    <3>4. IsFiniteSet(Asking \ {x}) /\ Cardinality(Asking \ {x}) = Cardinality(Asking) - 1
      BY <3>3, FS_RemoveElement DEF SequenceInv
    <3>5. IsFiniteSet(Asking') /\ Cardinality(Asking') <= Cardinality(Asking \ {x})
      BY <3>3, <3>4, FS_Subset
    <3>6. Cardinality(Asking) \in Nat /\ Cardinality(Asking') \in Nat
      BY <3>5, FS_CardinalityType DEF SequenceInv
    <3> QED
      BY <1>0, <3>1, <3>4, <3>5, <3>6 DEF SequenceInv
  <2> QED
    BY <2>1, <2>2
<1>6. CASE UNCHANGED vars
  BY <1>1, <1>6 DEF vars, registry
<1> QED
  BY <1>3, <1>4, <1>5, <1>6 DEF Next

----------------------------------------------------------------------------
(* Requests and runs                                                        *)

LEMMA SoundUnmoved ==
  ASSUME DataTypes, DataTypes', RowsGrow, CallInv, NEW y \in Slot, NEW z \in Slot,
         call'[z] = call[y]
  PROVE  Sound(call[z])'
<1>1. PICK c : c = call[y]
  OBVIOUS
<1>2. Sound(c)
  BY <1>1 DEF CallInv
<1>3. Sound(c)'
  BY <1>2, SoundStays
<1>4. c = call'[z]
  BY <1>1
<1> HIDE DEF CallInv, DataTypes
<1> QED
  BY <1>3, <1>4 DEF Sound

LEMMA NoCallIsSound ==
  ASSUME NEW z \in Slot, call'[z] = NoCall
  PROVE  Sound(call[z])'
BY NoCallTyped DEF Sound

\* If one request moves, the others stay as sound as they were.
LEMMA CallMoves ==
  ASSUME DataTypes, DataTypes', RowsGrow, CallInv, NEW x \in Slot,
         \A y \in Slot \ {x} : call'[y] = call[y],
         Sound(call[x])',
         x = GivenUp => call'[x].at # "answered" /\ (givenUp' = 0 => call'[x] = NoCall),
         givenUp' = givenUp
  PROVE  CallInv'
<1>1. \A y \in Slot \ {x} : Sound(call[y])'
  BY SoundUnmoved
<1>2. \A y \in Slot : Sound(call[y])'
  BY <1>1
<1>3. call'[GivenUp].at # "answered" /\ (givenUp' = 0 => call'[GivenUp] = NoCall)
  BY Slots DEF CallInv
<1> QED
  BY <1>2, <1>3 DEF CallInv

LEMMA CallsStay ==
  ASSUME DataTypes, DataTypes', RowsGrow, CallInv, call' = call, givenUp' = givenUp
  PROVE  CallInv'
<1>1. \A y \in Slot : Sound(call[y])'
  BY SoundUnmoved
<1> QED
  BY <1>1 DEF CallInv

LEMMA StationCallsKept ==
  ASSUME DataTypes, DataTypes', RowsGrow, CallInv, RunInv, NEW s \in Station,
         Provision(s)
  PROVE  CallInv'
<1>0. s \in Slot /\ s # GivenUp
  BY Slots
<1>1. CASE Registered(s)
  <2>1. /\ call'[s].op = "partition" /\ call'[s].at = "read"
        /\ call'[s].id = call[s].id /\ call'[s].size \in Sizes
        /\ CallDone(s) /\ call[s].op = "register" /\ Others(s) /\ givenUp' = givenUp
    BY <1>1, RegisteredDoes DEF Quiet
  <2>2. call[s].id \in Known
    BY <1>0, <2>1 DEF CallInv, Sound, RowIsFor, CallDone
  <2>3. call'[s].id \in Known'
    BY <2>1, <2>2, RowStays
  <2>4. Sound(call[s])'
    BY <2>1, <2>3 DEF Sound
  <2> QED
    BY <1>0, <2>1, <2>4, CallMoves DEF Others
<1>2. CASE GotPartition(s)
  <2>1. call'[s] = NoCall /\ Others(s) /\ givenUp' = givenUp
    BY <1>2, GotPartitionDoes DEF Quiet
  <2> QED
    BY <1>0, <2>1, NoCallIsSound, CallMoves DEF Others
<1>3. CASE Erase(s) \/ WriteFirmware(s) \/ WriteBreaks(s) \/ Reset(s) \/ PortLost(s)
  BY <1>3, CallsStay DEF Erase, WriteFirmware, WriteBreaks, Reset, PortLost
<1>4. CASE WriteIdentity(s)
  <2>1. /\ Runs(s, "partition") /\ CallBecomes(s, call'[s])
        /\ call'[s].op = "flashed" /\ call'[s].at = "update"
        /\ call'[s].id = run[s].device /\ givenUp' = givenUp
    BY <1>4, WriteIdentityDoes DEF Quiet
  <2>2. run[s].device \in Known
    BY <2>1 DEF RunInv, Sure, Past, Going, Runs, RowIsFor
  <2>3. call'[s].id \in Known'
    BY <2>1, <2>2, RowStays
  <2>4. Sound(call[s])'
    BY <2>1, <2>3 DEF Sound
  <2> QED
    BY <1>0, <2>1, <2>4, CallMoves DEF CallBecomes
<1>5. CASE Recorded(s)
  <2>1. CallBecomes(s, NoCall) /\ givenUp' = givenUp
    BY <1>5, RecordedDoes DEF Quiet
  <2> QED
    BY <1>0, <2>1, NoCallIsSound, CallMoves DEF CallBecomes
<1>6. CASE CallFails(s)
  <2>1. CallBecomes(s, NoCall) /\ givenUp' = givenUp
    BY <1>6, CallFailsDoes DEF Quiet
  <2> QED
    BY <1>0, <2>1, NoCallIsSound, CallMoves DEF CallBecomes
<1>7. CASE GiveUp(s)
  <2>1. /\ call'[s] = NoCall /\ call'[GivenUp] = call[s] /\ ~CallDone(s)
        /\ \A y \in Slot \ {s, GivenUp} : call'[y] = call[y]
        /\ givenUp' = 1
    BY <1>7, GiveUpDoes
  <2>2. \A y \in Slot : Sound(call[y])'
    BY <1>0, <2>1, Slots, NoCallIsSound, SoundUnmoved
  <2> QED
    BY <2>1, <2>2 DEF CallInv, CallDone
<1> QED
  BY <1>1, <1>2, <1>3, <1>4, <1>5, <1>6, <1>7 DEF Provision

\* An answer is as sound as what it says, and nobody's request stays unanswered.
LEMMA AnswerIsSound ==
  ASSUME DataTypes, DataTypes', RowsGrow, CallInv, NEW x \in Slot, NEW i, NEW image,
         Handling(x), Answered(x, i, image), x # GivenUp => Sound(call[x])'
  PROVE  CallInv'
<1>1. CASE x = GivenUp
  <2>1. call'[x] = NoCall
    BY <1>1, Slots DEF Answered
  <2> QED
    BY <2>1, NoCallIsSound, NoCallTyped, CallMoves DEF Handling
<1>2. CASE x # GivenUp
  BY <1>2, CallMoves DEF Handling
<1> QED
  BY <1>1, <1>2

LEMMA ApiCallsKept ==
  ASSUME DataTypes, DataTypes', RowsGrow, CallInv, SequenceInv,
         NEW x \in Slot, Handle(x)
  PROVE  CallInv'
<1>0. call[x].op = "register" => call[x].mac \in Board /\ call[x].meter \in Meter
  BY DEF CallInv, Sound
<1>1. CASE RegisterLooks(x)
  <2>1. /\ call[x].op = "register" /\ call[x].at = "lookup" /\ Handling(x) /\ Asked(x) /\ rows' = rows
        /\ \/ call'[x].at = "insert"
           \/ call'[x].at = "update" /\ RowIsFor(call'[x].id, call[x].mac)
    BY <1>1, RegisterLooksDoes
  <2>2. Sound(call[x])'
    BY <1>0, <2>1 DEF Sound, Asked, RowIsFor, Known
  <2>3. givenUp # 0 \/ x # GivenUp
    BY <2>1, NoCallTyped DEF CallInv
  <2> QED
    BY <2>1, <2>2, <2>3, CallMoves DEF Handling
<1>2. CASE RegisterUpdates(x)
  <2>1. /\ call[x].op = "register" /\ call[x].at = "update" /\ Handling(x)
        /\ Answered(x, call[x].id, call[x].image)
    BY <1>2, RegisterUpdatesDoes
  <2>2. RowIsFor(call[x].id, call[x].mac)
    BY <2>1 DEF CallInv, Sound
  <2>3. PICK i, b : i = call[x].id /\ b = call[x].mac
    OBVIOUS
  <2>4. RowIsFor(i, b)'
    BY <2>2, <2>3, RowStays
  <2>5. x # GivenUp => Sound(call[x])'
    BY <1>0, <2>1, <2>3, <2>4 DEF Sound, Answered, Asked, RowIsFor
  <2> QED
    BY <2>1, <2>5, AnswerIsSound
<1>3. CASE RegisterInserts(x)
  <2>0. sequence + 1 \in Ids
    BY <1>3, NumberLeft DEF RegisterInserts
  <2>1. call[x].op = "register" /\ call[x].at = "insert" /\ Handling(x)
    BY <1>3, <2>0, RegisterInsertsDoes
  <2>2. CASE \E i \in Ids : RowIsFor(i, call[x].mac)
    <3>1. rows' = rows /\ Asked(x) /\ call'[x].at = "again"
      BY <1>3, <2>0, <2>2, RegisterInsertsDoes
    <3>2. Sound(call[x])'
      BY <1>0, <2>1, <2>2, <3>1 DEF Sound, Asked, RowIsFor, Known
    <3>3. givenUp # 0 \/ x # GivenUp
      BY <2>1, NoCallTyped DEF CallInv
    <3> QED
      BY <2>1, <3>1, <3>2, <3>3, CallMoves DEF Handling
  <2>3. CASE ~\E i \in Ids : RowIsFor(i, call[x].mac)
    <3>1. /\ Answered(x, sequence + 1, call[x].image)
          /\ rows'[sequence + 1] # NoRow /\ rows'[sequence + 1].mac = call[x].mac
      BY <1>3, <2>0, <2>3, RegisterInsertsDoes
    <3>2. x # GivenUp => Sound(call[x])'
      BY <1>0, <2>0, <2>1, <3>1 DEF Sound, Answered, Asked, RowIsFor, Known
    <3> QED
      BY <2>1, <3>1, <3>2, AnswerIsSound
  <2> QED
    BY <2>2, <2>3
<1>4. CASE RegisterLooksAgain(x)
  <2>1. /\ call[x].op = "register" /\ call[x].at = "again" /\ Handling(x) /\ rows' = rows
    BY <1>4, RegisterLooksAgainDoes
  <2>2. PICK i \in Ids : RowIsFor(i, call[x].mac) /\ Answered(x, i, call[x].image)
    BY <1>4, RegisterLooksAgainDoes
  <2>3. x # GivenUp => Sound(call[x])'
    BY <1>0, <2>1, <2>2 DEF Sound, Answered, Asked, RowIsFor, Known
  <2> QED
    BY <2>1, <2>2, <2>3, AnswerIsSound
<1>5. CASE BuildsPartition(x)
  <2>1. PICK image : image = FactoryImage(call[x].id, rows[call[x].id].meter, call[x].size)
    OBVIOUS
  <2>2. /\ call[x].op = "partition" /\ call[x].at = "read" /\ Handling(x) /\ rows' = rows
        /\ Answered(x, call[x].id, image)
    BY <1>5, <2>1, BuildsPartitionDoes
  <2>3. call[x].id \in Known /\ call[x].size \in Sizes
    BY <2>2 DEF CallInv, Sound
  <2>4. call[x].id \in Ids /\ rows[call[x].id].meter \in Meter
    BY <2>3, RowIsTyped DEF Known
  <2>5. image # Refused => ReadBack(image, call[x].id)
    BY <2>1, <2>3, <2>4, ImageIsRead
  <2>6. call[x].id \in Known'
    BY <2>2, <2>3 DEF Known
  <2>7. x # GivenUp => Sound(call[x])'
    BY <2>2, <2>3, <2>5, <2>6 DEF Sound, Answered, Asked
  <2> QED
    BY <2>2, <2>7, AnswerIsSound
<1>6. CASE CountsFlash(x)
  <2>1. /\ call[x].op = "flashed" /\ call[x].at = "update" /\ Handling(x)
        /\ Answered(x, call[x].id, call[x].image)
        /\ rows'[call[x].id].flashes = rows[call[x].id].flashes + 1
        /\ rows'[call[x].id] # NoRow
    BY <1>6, CountsFlashDoes
  <2>2. call[x].id \in Known
    BY <2>1 DEF CallInv, Sound
  <2>3. call[x].id \in Known' /\ rows[call[x].id].flashes \in Nat
    BY <2>1, <2>2, RowIsTyped DEF Known
  <2>4. rows'[call[x].id].flashes > 0
    BY <2>1, <2>3
  <2>5. x # GivenUp => Sound(call[x])'
    BY <2>1, <2>3, <2>4 DEF Sound, Answered, Asked
  <2> QED
    BY <2>1, <2>5, AnswerIsSound
<1> QED
  BY <1>1, <1>2, <1>3, <1>4, <1>5, <1>6 DEF Handle

LEMMA CallsKept ==
  ASSUME DataTypes, DataTypes', RowsGrow, CallInv, SequenceInv, RunInv,
         [Next]_vars
  PROVE  CallInv'
<1>1. CASE UNCHANGED vars
  BY <1>1, CallsStay DEF vars
<1>2. ASSUME NEW s \in Station, NEW b \in Board, NEW m \in Meter, Started(s, b, m)
      PROVE  CallInv'
  <2>0. s \in Slot /\ s # GivenUp
    BY Slots
  <2>1. CASE call' = call
    BY <1>2, <2>1, CallsStay DEF Started
  <2>2. CASE call' # call
    <3>1. /\ call'[s].op = "register" /\ call'[s].at = "lookup"
          /\ call'[s].mac = b /\ call'[s].meter = m
          /\ \A y \in Slot \ {s} : call'[y] = call[y] /\ givenUp' = givenUp
      BY <1>2, <2>2 DEF Started, Others
    <3>2. Sound(call[s])'
      BY <3>1 DEF Sound
    <3> QED
      BY <2>0, <1>2, <3>1, <3>2, CallMoves DEF Started
  <2> QED
    BY <2>1, <2>2
<1>3. CASE Operator
  <2>1. CASE UNCHANGED <<call, givenUp>>
    BY <2>1, CallsStay
  <2> QED
    BY <1>2, <1>3, <2>1, StartDoes, Zenon DEF Operator, Plug, Unplug, ConnectFails
<1> QED
  BY <1>1, <1>3, StationCallsKept, ApiCallsKept DEF Next

\* After the step row i is b's.
RowWillBeFor(i, b) == i \in Ids /\ rows'[i] # NoRow /\ rows'[i].mac = b

LEMMA RowsServe ==
  ASSUME DataTypes, DataTypes', RowsGrow, RunInv, NEW s \in Station
  PROVE  /\ Past(s) => RowWillBeFor(run[s].device, run[s].board)
         /\ Done(s) \/ Going(s, {"reset"}) => rows'[run[s].device].flashes > 0
<1>1. CASE Past(s)
  <2>1. RowIsFor(run[s].device, run[s].board)
    BY <1>1 DEF RunInv, Sure
  <2>2. PICK i : i = run[s].device
    OBVIOUS
  <2>3. i \in Ids /\ rows[i] # NoRow /\ rows[i].mac = run[s].board
    BY <2>1, <2>2 DEF RowIsFor, Known
  <2>4. rows'[i] # NoRow /\ rows'[i].mac = rows[i].mac /\ rows'[i].flashes >= rows[i].flashes
    BY <2>3 DEF RowsGrow
  <2>5. rows[i].flashes \in Nat
    BY <2>3, RowIsTyped
  <2>6. rows'[i].flashes \in Nat
    BY <2>3, <2>4 DEF DataTypes, Rows
  <2>7. Done(s) \/ Going(s, {"reset"}) => rows[i].flashes > 0
    BY <2>2 DEF RunInv, Sure
  <2>8. Done(s) \/ Going(s, {"reset"}) => rows'[i].flashes > 0
    BY <2>4, <2>5, <2>6, <2>7
  <2> QED
    BY <2>2, <2>3, <2>4, <2>8 DEF RowWillBeFor
<1>2. CASE ~Past(s)
  BY <1>2 DEF Past, Going
<1> QED
  BY <1>1, <1>2

LEMMA OthersSure ==
  ASSUME DataTypes, DataTypes', RowsGrow, RunInv, NEW t \in Station,
         run'[t] = run[t], firmware' = firmware, runs' >= runs,
         run[t].linked => /\ plugged'[run[t].board] = plugged[run[t].board]
                          /\ latest'[run[t].board] = latest[run[t].board]
  PROVE  Sure(t)'
<1>1. Sure(t) /\ run[t].number \in Nat /\ runs \in Nat /\ runs' \in Nat
  BY RunTyped DEF RunInv, DataTypes
<1>2. /\ Past(t)' <=> Past(t)
      /\ Imaged(t)' <=> Imaged(t)
      /\ Done(t)' <=> Done(t)
      /\ Going(t, {"reset"})' <=> Going(t, {"reset"})
  BY DEF Past, Imaged, Done, Going
<1>3. Past(t) => RowIsFor(run[t].device, run[t].board)'
  BY RowsServe DEF RowWillBeFor, RowIsFor, Known
<1>4. Done(t) \/ Going(t, {"reset"}) => rows'[run[t].device].flashes > 0
  BY RowsServe
<1>5. run'[t].number <= runs'
  BY <1>1 DEF Sure
<1> QED
  BY <1>1, <1>2, <1>3, <1>4, <1>5 DEF Sure

LEMMA OthersWait ==
  ASSUME RunInv, NEW t \in Station, run'[t] = run[t], call'[t] = call[t]
  PROVE  Waits(t)'
BY DEF RunInv, Waits

\* A handler leaves the request as the run expects it.
LEMMA HandledWaits ==
  ASSUME RunInv, NEW t \in Station, run'[t] = run[t],
         call[t].op # "none", call'[t].op = call[t].op, call'[t].mac = call[t].mac,
         call'[t].meter = call[t].meter, call[t].op # "register" => call'[t].id = call[t].id
  PROVE  Waits(t)'
<1>1. call[t] # NoCall
  BY NoCallTyped
<1>2. Waits(t)
  BY DEF RunInv
<1> QED
  BY <1>1, <1>2 DEF Waits

LEMMA NumbersStay ==
  ASSUME RunInv, \A t \in Station : run'[t].number = run[t].number
  PROVE  \A t, u \in Station : run'[t].number = run'[u].number /\ run'[t].number # 0 => t = u
BY DEF RunInv

LEMMA ApiRunsKept ==
  ASSUME DataTypes, DataTypes', RowsGrow, CallInv, RunInv, SequenceInv, NEW x \in Slot, Handle(x)
  PROVE  RunInv'
<1>1. Handling(x)
  BY NumberLeft, RegisterLooksDoes, RegisterUpdatesDoes, RegisterInsertsDoes,
    RegisterLooksAgainDoes,
     BuildsPartitionDoes, CountsFlashDoes DEF Handle, RegisterInserts
<1>2. \A t \in Station : Sure(t)'
  BY <1>1, OthersSure DEF Handling, DataTypes
<1>3. call[x].op # "none"
  BY DEF Handle, RegisterLooks, RegisterUpdates, RegisterInserts, RegisterLooksAgain,
     BuildsPartition, CountsFlash
<1>4. x \in Station => Asked(x) /\ (call[x].op # "register" => call'[x].id = call[x].id)
  <2>1. x # GivenUp \/ x \notin Station
    BY Slots
  <2> QED
    BY <2>1, NumberLeft, RegisterLooksDoes, RegisterUpdatesDoes, RegisterInsertsDoes,
       RegisterLooksAgainDoes, BuildsPartitionDoes, CountsFlashDoes
       DEF Handle, RegisterInserts, Answered
<1>5. \A t \in Station : Waits(t)'
  <2>1. ASSUME NEW t \in Station, t # x PROVE Waits(t)'
    BY <1>1, <2>1, Slots, OthersWait DEF Handling
  <2>2. ASSUME NEW t \in Station, t = x PROVE Waits(t)'
    BY <1>1, <1>3, <1>4, <2>2, HandledWaits DEF Handling, Asked
  <2> QED
    BY <2>1, <2>2
<1>6. \A t, u \in Station : run'[t].number = run'[u].number /\ run'[t].number # 0 => t = u
  BY <1>1, NumbersStay DEF Handling
<1> QED
  BY <1>2, <1>5, <1>6 DEF RunInv

\* A run that has failed is sure of nothing but its number.
LEMMA FailedIsSure ==
  ASSUME DataTypes, RunInv, NEW s \in Station, Fails(s), runs' = runs
  PROVE  Sure(s)'
<1>1. run'[s].state = "failed" /\ run'[s].linked = FALSE /\ run'[s].number = run[s].number
  BY DEF Fails, Stays
<1>2. run[s].number <= runs
  BY DEF RunInv, Sure
<1> QED
  BY <1>1, <1>2 DEF Sure, Past, Imaged, Done, Going

LEMMA FailedWaits ==
  ASSUME RunInv, NEW s \in Station, Fails(s), call'[s] = NoCall
  PROVE  Waits(s)'
BY DEF Fails, Waits

\* The others are as they were when s moves.
LEMMA OnlyMoves ==
  ASSUME DataTypes, DataTypes', RowsGrow, RunInv, NEW s \in Station,
         \A t \in Station \ {s} : run'[t] = run[t] /\ call'[t] = call[t],
         Waits(s)', Sure(s)', run'[s].number = run[s].number,
         UNCHANGED <<firmware, runs, plugged, latest>>
  PROVE  RunInv'
<1>1. runs \in Nat /\ runs' \in Nat
  BY DEF DataTypes
<1>2. \A t \in Station : Waits(t)' /\ Sure(t)'
  BY <1>1, OthersSure, OthersWait
<1>3. \A t, u \in Station : run'[t].number = run'[u].number /\ run'[t].number # 0 => t = u
  BY NumbersStay
<1> QED
  BY <1>2, <1>3 DEF RunInv

LEMMA StationRunsKept ==
  ASSUME DataTypes, DataTypes', RowsGrow, CallInv, RunInv, NEW s \in Station, Provision(s)
  PROVE  RunInv'
<1>0. /\ s \in Slot /\ Station \subseteq Slot /\ GivenUp \notin Station
      /\ Waits(s) /\ Sure(s) /\ run[s].number \in Nat /\ run[s].linked \in BOOLEAN
  BY Slots, RunTyped DEF RunInv
<1>1. CASE Registered(s)
  <2>1. /\ Runs(s, "register") /\ CallDone(s) /\ call[s].op = "register"
        /\ Others(s) /\ Stays(s)
        /\ run'[s].state = "running" /\ run'[s].step = "identity"
        /\ run'[s].linked = run[s].linked /\ run'[s].device = call[s].id
        /\ call'[s].op = "partition" /\ call'[s].id = call[s].id /\ Quiet
    BY <1>1, RegisteredDoes
  <2>2. RowIsFor(call[s].id, call[s].mac) /\ call[s].mac = run[s].board
    BY <1>0, <2>1 DEF CallInv, Sound, CallDone, Waits, Runs
  <2>3. PICK i, b : i = call[s].id /\ b = run[s].board
    OBVIOUS
  <2>4. RowIsFor(i, b)'
    BY <2>2, <2>3, RowStays
  <2>5. Waits(s)'
    BY <2>1 DEF Waits
  <2>6. Sure(s)'
    BY <1>0, <2>1, <2>3, <2>4 DEF Sure, Past, Imaged, Done, Going, Stays, Quiet, Runs,
      RowIsFor, RowWillBeFor, Known
  <2> QED
    BY <1>0, <2>1, <2>5, <2>6, OnlyMoves DEF Others, Quiet, Stays
<1>2. CASE GotPartition(s)
  <2>1. /\ Runs(s, "identity") /\ CallDone(s) /\ call[s].op = "partition"
        /\ Others(s) /\ Stays(s) /\ call'[s] = NoCall /\ Quiet
        /\ \/ run'[s].state = "failed" /\ run'[s].linked = FALSE
           \/ /\ run'[s].state = "running" /\ run'[s].step \in {"erase", "firmware"}
              /\ run'[s].linked = run[s].linked /\ run'[s].device = run[s].device
              /\ call[s].image # Refused /\ run'[s].image = call[s].image
    BY <1>2, GotPartitionDoes
  <2>2. Waits(s)'
    BY <2>1 DEF Waits
  <2>3. call[s].id = run[s].device /\ (call[s].image # Refused => ReadBack(call[s].image, run[s].device))
    BY <1>0, <2>1 DEF CallInv, Sound, CallDone, Waits, Runs
  <2>4. RowWillBeFor(run[s].device, run[s].board)
    BY <2>1, RowsServe DEF Past, Going, Runs
  <2>5. Sure(s)'
    BY <1>0, <2>1, <2>3, <2>4 DEF Sure, Past, Imaged, Done, Going, Stays, Quiet, Runs,
      RowIsFor, RowWillBeFor, Known
  <2> QED
    BY <1>0, <2>1, <2>2, <2>5, OnlyMoves DEF Others, Quiet, Stays
<1>3. ASSUME NEW step \in {"firmware", "partition", "record"}, Advances(s, step), Quiet,
             Imaged(s), \/ call' = call /\ call[s] = NoCall /\ step # "record"
                        \/ /\ CallBecomes(s, call'[s]) /\ step = "record"
                           /\ call'[s].op = "flashed" /\ call'[s].id = run[s].device,
             run[s].state = "running"
      PROVE  RunInv'
  <2>1. Waits(s)'
    BY <1>3 DEF Waits, Advances
  <2>2. RowWillBeFor(run[s].device, run[s].board) /\ ReadBack(run[s].image, run[s].device)
    BY <1>0, <1>3, RowsServe DEF Past, Imaged, Done, Going, Sure
  <2>3. Sure(s)'
    BY <1>0, <1>3, <2>2
       DEF Sure, Past, Imaged, Done, Going, Stays, Quiet, Advances, RowIsFor,
           RowWillBeFor, Known
  <2> QED
    BY <1>0, <1>3, <2>1, <2>3, OnlyMoves DEF Advances, Quiet, Stays, CallBecomes
<1>4. CASE Erase(s)
  <2>1. Runs(s, "erase") /\ Advances(s, "firmware") /\ Quiet /\ call' = call
    BY <1>4, EraseDoes
  <2>2. Imaged(s) /\ run[s].state = "running" /\ call[s] = NoCall
    BY <1>0, <2>1 DEF Imaged, Going, Runs, Waits
  <2> QED
    BY <1>3, <2>1, <2>2
<1>5. CASE WriteFirmware(s)
  <2>1. Runs(s, "firmware") /\ Advances(s, "partition") /\ Quiet /\ call' = call
    BY <1>5, WriteFirmwareDoes
  <2>2. Imaged(s) /\ run[s].state = "running" /\ call[s] = NoCall
    BY <1>0, <2>1 DEF Imaged, Going, Runs, Waits
  <2> QED
    BY <1>3, <2>1, <2>2
<1>6. CASE WriteIdentity(s)
  <2>1. /\ Runs(s, "partition") /\ Advances(s, "record") /\ Quiet
        /\ CallBecomes(s, call'[s]) /\ call'[s].op = "flashed" /\ call'[s].id = run[s].device
    BY <1>6, WriteIdentityDoes
  <2>2. Imaged(s) /\ run[s].state = "running"
    BY <2>1 DEF Imaged, Going, Runs
  <2> QED
    BY <1>3, <2>1, <2>2
<1>7. ASSUME Fails(s), Quiet, call'[s] = NoCall,
             \A t \in Station \ {s} : call'[t] = call[t]
      PROVE  RunInv'
  <2>1. Waits(s)' /\ Sure(s)'
    BY <1>7, FailedWaits, FailedIsSure DEF Quiet
  <2> QED
    BY <1>7, <2>1, OnlyMoves DEF Fails, Stays, Quiet
<1>8. CASE WriteBreaks(s)
  <2>1. Fails(s) /\ Quiet /\ call' = call /\ run[s].state = "running" /\ run[s].step \in {"firmware", "partition"}
    BY <1>8, WriteBreaksDoes
  <2>2. call[s] = NoCall
    BY <1>0, <2>1 DEF Waits
  <2> QED
    BY <1>7, <2>1, <2>2
<1>9. CASE PortLost(s)
  <2>1. Fails(s) /\ Quiet /\ call' = call /\ run[s].state = "running"
        /\ run[s].step \in {"erase", "firmware", "partition"}
    BY <1>9, PortLostDoes
  <2>2. call[s] = NoCall
    BY <1>0, <2>1 DEF Waits
  <2> QED
    BY <1>7, <2>1, <2>2
<1>10. CASE CallFails(s)
  BY <1>0, <1>7, <1>10, CallFailsDoes DEF CallBecomes
<1>11. CASE GiveUp(s)
  BY <1>0, <1>7, <1>11, GiveUpDoes
<1>12. CASE Recorded(s)
  <2>1. Runs(s, "record") /\ CallDone(s) /\ Advances(s, "reset") /\ CallBecomes(s, NoCall) /\ Quiet
    BY <1>12, RecordedDoes
  <2>2. Waits(s)'
    BY <2>1 DEF Waits, Advances, CallBecomes
  <2>3. call[s].op = "flashed" /\ call[s].id = run[s].device /\ rows[run[s].device].flashes > 0
    BY <1>0, <2>1 DEF Waits, Runs, CallInv, Sound, CallDone
  <2>4. rows' = rows
    BY <2>1 DEF Quiet
  <2>5. RowWillBeFor(run[s].device, run[s].board) /\ ReadBack(run[s].image, run[s].device)
    BY <1>0, <2>1, RowsServe DEF Past, Imaged, Done, Going, Sure, Runs
  <2>6. Sure(s)'
    BY <1>0, <2>1, <2>3, <2>4, <2>5
       DEF Sure, Past, Imaged, Done, Going, Stays, Quiet, Advances, RowIsFor,
           RowWillBeFor, Known, Runs
  <2> QED
    BY <1>0, <2>1, <2>2, <2>6, OnlyMoves DEF Advances, Quiet, Stays, CallBecomes
<1>13. CASE Reset(s)
  <2>1. /\ Runs(s, "reset") /\ \A t \in Station \ {s} : run'[t] = run[t]
        /\ Stays(s) /\ run'[s].state = "done" /\ run'[s].linked = FALSE
        /\ run'[s].device = run[s].device /\ run'[s].image = run[s].image
        /\ Quiet /\ call' = call
    BY <1>13, ResetDoes
  <2>2. Waits(s)'
    BY <1>0, <2>1 DEF Waits, Runs
  <2>3. /\ RowWillBeFor(run[s].device, run[s].board) /\ ReadBack(run[s].image, run[s].device)
        /\ rows'[run[s].device].flashes > 0
    BY <1>0, <2>1, RowsServe DEF Past, Imaged, Done, Going, Sure, Runs
  <2>4. Sure(s)'
    BY <1>0, <2>1, <2>3
       DEF Sure, Past, Imaged, Done, Going, Stays, Quiet, RowIsFor, RowWillBeFor, Known,
           Runs
  <2> QED
    BY <1>0, <2>1, <2>2, <2>4, OnlyMoves DEF Quiet, Stays
<1> QED
  BY <1>1, <1>2, <1>4, <1>5, <1>6, <1>8, <1>9, <1>10, <1>11, <1>12, <1>13 DEF Provision

LEMMA OperatorRunsKept ==
  ASSUME DataTypes, DataTypes', RowsGrow, CallInv, RunInv, Operator
  PROVE  RunInv'
<1>0. /\ Station \subseteq Slot /\ runs \in Nat /\ runs' \in Nat
      /\ \A t \in Station : Waits(t) /\ Sure(t) /\ run[t].number \in Nat
      /\ Nowhere \notin Station
  <2>1. \A t \in Station : Waits(t) /\ Sure(t) /\ run[t].number \in Nat
    BY RunTyped DEF RunInv
  <2>2. Nowhere \notin Station
    BY FactoryAssumption
  <2>3. runs \in Nat /\ runs' \in Nat
    BY DEF DataTypes
  <2> QED
    BY <2>1, <2>2, <2>3, Slots
<1>1. ASSUME NEW b \in Board, NEW s \in Station, Plug(b, s)
      PROVE  RunInv'
  <2>1. /\ plugged[b] = Nowhere /\ \A o \in Board \ {b} : plugged'[o] = plugged[o]
        /\ UNCHANGED <<firmware, run, call, runs, latest>>
    BY <1>1, PlugDoes
  <2>2. ASSUME NEW t \in Station PROVE Waits(t)' /\ Sure(t)'
    <3>1. run[t].linked => run[t].board \in Board /\ run[t].board # b
      BY <1>0, <2>1 DEF Sure
    <3> QED
      BY <1>0, <2>1, <3>1, OthersSure, OthersWait
  <2> QED
    BY <2>1, <2>2, NumbersStay DEF RunInv
<1>2. ASSUME NEW b \in Board, Unplug(b)
      PROVE  RunInv'
  <2>1. PICK s \in Station :
          /\ plugged[b] = s /\ \A o \in Board \ {b} : plugged'[o] = plugged[o]
          /\ \A t \in Station \ {s} : run'[t] = run[t]
          /\ Stays(s) /\ run'[s].step = run[s].step /\ run'[s].state = run[s].state
          /\ run'[s].linked = FALSE /\ run'[s].device = run[s].device
          /\ run'[s].image = run[s].image
          /\ UNCHANGED <<firmware, rows, call, runs, latest>>
    BY <1>2, UnplugDoes
  <2>2. ASSUME NEW t \in Station, t # s PROVE Waits(t)' /\ Sure(t)'
    <3>1. run[t].linked => run[t].board \in Board /\ run[t].board # b
      BY <1>0, <2>1, <2>2 DEF Sure
    <3> QED
      BY <1>0, <2>1, <2>2, <3>1, OthersSure, OthersWait
  <2>3. Waits(s)' /\ Sure(s)'
    BY <1>0, <2>1 DEF Waits, Sure, Past, Imaged, Done, Going, Stays, RowIsFor, Known
  <2>4. \A t \in Station : run'[t].number = run[t].number
    BY <2>1 DEF Stays
  <2> QED
    BY <2>2, <2>3, <2>4, NumbersStay DEF RunInv
<1>3. ASSUME NEW s \in Station, ConnectFails(s)
      PROVE  RunInv'
  <2>1. /\ run[s].state # "running" /\ \A t \in Station \ {s} : run'[t] = run[t]
        /\ run'[s].state \in {"idle", "failed"} /\ run'[s].linked = FALSE
        /\ run'[s].number = 0
        /\ UNCHANGED <<firmware, call, plugged, runs, latest>>
    BY <1>3, ConnectFailsDoes
  <2>2. \A t \in Station \ {s} : Waits(t)' /\ Sure(t)'
    BY <1>0, <2>1, OthersSure, OthersWait
  <2>3. Waits(s)' /\ Sure(s)'
    BY <1>0, <2>1 DEF Waits, Sure, Past, Imaged, Done, Going
  <2>4. \A t, u \in Station : run'[t].number = run'[u].number /\ run'[t].number # 0 => t = u
    BY <2>1 DEF RunInv
  <2> QED
    BY <2>2, <2>3, <2>4 DEF RunInv
<1>4. ASSUME NEW s \in Station, NEW b \in Board, NEW m \in Meter, Started(s, b, m)
      PROVE  RunInv'
  <2>1. /\ run[s].state # "running" /\ plugged[b] = s /\ firmware[s] \in Offered
        /\ Others(s)
        /\ run'[s].board = b /\ run'[s].meter = m /\ run'[s].number = runs + 1
        /\ runs' = runs + 1 /\ latest'[b] = runs + 1
        /\ \A o \in Board \ {b} : latest'[o] = latest[o]
        /\ UNCHANGED <<firmware, plugged>>
    BY <1>4 DEF Started
  <2>2. ASSUME NEW t \in Station \ {s} PROVE Waits(t)' /\ Sure(t)'
    <3>1. run[t].linked => run[t].board \in Board /\ run[t].board # b
      BY <1>0, <2>1 DEF Sure
    <3> QED
      BY <1>0, <2>1, <3>1, OthersSure, OthersWait DEF Others
  <2>3. call[s] = NoCall
    BY <1>0, <2>1 DEF Waits
  <2>4. CASE /\ run'[s].state = "running" /\ run'[s].step = "register"
             /\ call'[s].op = "register" /\ call'[s].at = "lookup"
             /\ call'[s].mac = b /\ call'[s].meter = m
    <3>1. Waits(s)'
      BY <2>1, <2>4 DEF Waits
    <3>2. Sure(s)'
      BY <1>0, <2>1, <2>4 DEF Sure, Past, Imaged, Done, Going
    <3> QED
      BY <1>0, <2>1, <2>2, <3>1, <3>2 DEF RunInv, Others, Sure
  <2>5. CASE run'[s].state = "failed" /\ run'[s].linked = FALSE /\ call' = call
    <3>1. Waits(s)'
      BY <2>3, <2>5 DEF Waits
    <3>2. Sure(s)'
      BY <1>0, <2>1, <2>5 DEF Sure, Past, Imaged, Done, Going
    <3> QED
      BY <1>0, <2>1, <2>2, <3>1, <3>2 DEF RunInv, Others, Sure
  <2> QED
    BY <1>4, <2>4, <2>5 DEF Started
<1> QED
  BY <1>1, <1>2, <1>3, <1>4, StartDoes, Zenon DEF Operator

LEMMA RunsKept ==
  ASSUME DataTypes, DataTypes', RowsGrow, CallInv, RunInv, SequenceInv, [Next]_vars
  PROVE  RunInv'
<1>1. CASE UNCHANGED vars
  <2>1. UNCHANGED <<run, call, firmware, rows, runs, plugged, latest>>
    BY <1>1 DEF vars, registry, boards, history
  <2> QED
    BY <2>1 DEF RunInv, Waits, Sure, Past, Imaged, Done, Going, RowIsFor, Known
<1> QED
  BY <1>1, OperatorRunsKept, StationRunsKept, ApiRunsKept DEF Next

----------------------------------------------------------------------------
(* What is in the flash                                                     *)

Own(image, b) == ImagesAreReadBack /\ Whole(image) => RowWillBeFor(IdentityOf(image), b)

LEMMA OwnStays ==
  ASSUME DataTypes, RowsGrow, FlashInv, NEW b \in Board
  PROVE  Own(flash[b].identity, b)
<1>1. CASE ImagesAreReadBack /\ Whole(flash[b].identity)
  <2>1. PICK i : i = IdentityOf(flash[b].identity)
    OBVIOUS
  <2>2. RowIsFor(i, b)
    BY <1>1, <2>1 DEF FlashInv, OwnIdentity
  <2>3. RowWillBeFor(i, b)
    BY <2>2 DEF RowIsFor, Known, RowsGrow, RowWillBeFor
  <2> QED
    BY <2>1, <2>3 DEF Own
<1> QED
  BY <1>1 DEF Own

LEMMA OwnNext ==
  ASSUME NEW b \in Board, Own(flash'[b].identity, b)
  PROVE  OwnIdentity(b)'
BY DEF Own, OwnIdentity, RowIsFor, RowWillBeFor, Known

\* Nothing was written to any board.
LEMMA FlashStays ==
  ASSUME DataTypes, DataTypes', RowsGrow, FlashInv, flash' = flash, runs' >= runs
  PROVE  \A b \in Board : flash'[b].run <= runs' /\ OwnIdentity(b)'
<1>1. \A b \in Board : OwnIdentity(b)'
  BY OwnStays, OwnNext
<1>2. \A b \in Board : flash[b].run \in Nat /\ flash[b].run <= runs
  BY DEF DataTypes, FlashSet, FlashInv
<1>3. runs \in Nat /\ runs' \in Nat
  BY DEF DataTypes
<1> QED
  BY <1>1, <1>2, <1>3

\* A run writes what is its board's own, or what no charger reads.
LEMMA PutsOwn ==
  ASSUME DataTypes, DataTypes', RowsGrow, FlashInv, RunInv, NEW s \in Station, NEW fw, NEW identity,
         Puts(s, fw, identity), run[s].state = "running", runs' = runs,
         Own(identity, run[s].board)
  PROVE  \A b \in Board : flash'[b].run <= runs' /\ OwnIdentity(b)'
<1>1. run[s].board \in Board /\ run[s].number <= runs
  BY DEF RunInv, Sure
<1>2. ASSUME NEW b \in Board, b # run[s].board
      PROVE  flash'[b].run <= runs' /\ OwnIdentity(b)'
  <2>1. flash'[b] = flash[b]
    BY <1>2 DEF Puts
  <2>2. Own(flash'[b].identity, b)
    BY <2>1, OwnStays
  <2> QED
    BY <2>1, <2>2, OwnNext DEF FlashInv
<1>3. ASSUME NEW b \in Board, b = run[s].board
      PROVE  flash'[b].run <= runs' /\ OwnIdentity(b)'
  <2>1. flash'[b].run = run[s].number /\ flash'[b].identity = identity
    BY <1>3 DEF Puts
  <2> QED
    BY <1>1, <1>3, <2>1, OwnNext
<1> QED
  BY <1>2, <1>3

\* A run that has not come to the identity yet, or has failed, holds nothing.
LEMMA HoldsNothing ==
  ASSUME NEW s \in Station, run'[s].state # "done",
         run'[s].state = "running" => run'[s].step \notin {"partition", "record", "reset"}
  PROVE  Holds(s)'
BY DEF Holds, Going, Wrote, Done

\* What a run holds it goes on holding, unless its board is written to.
LEMMA HoldsOn ==
  ASSUME FlashInv, NEW s \in Station, run'[s] = run[s], firmware' = firmware,
         Wrote(s) \/ (Going(s, {"partition"}) /\ run[s].linked) =>
           /\ flash'[run[s].board] = flash[run[s].board]
           /\ latest'[run[s].board] = latest[run[s].board] \/ latest'[run[s].board] # run[s].number
  PROVE  Holds(s)'
BY DEF FlashInv, Holds, Going, Wrote, Done

\* Who holds something on a board is on record there.
LEMMA HolderIsOnBoard ==
  ASSUME DataTypes, RunInv, NEW s \in Station,
         Wrote(s) \/ (Going(s, {"partition"}) /\ run[s].linked)
  PROVE  run[s].board \in Board /\ run[s].number > 0 /\ run[s].number \in Nat
<1>1. Past(s) /\ Sure(s)
  BY DEF RunInv, Past, Wrote, Done, Going
<1>2. run[s].device \in Ids /\ rows[run[s].device] # NoRow /\ rows[run[s].device].mac = run[s].board
  BY <1>1 DEF Sure, RowIsFor, Known
<1> QED
  BY <1>1, <1>2, RowIsTyped, RunTyped DEF Sure

\* A run that has the port open writes to its own board only: others that hold
\* something there are outdated.
LEMMA OthersHold ==
  ASSUME DataTypes, RunInv, FlashInv, NEW s \in Station, NEW fw, NEW identity,
         Puts(s, fw, identity), run[s].linked, UNCHANGED <<firmware, latest>>,
         NEW t \in Station, t # s, run'[t] = run[t]
  PROVE  Holds(t)'
<1>1. /\ plugged[run[s].board] = s /\ latest[run[s].board] = run[s].number
      /\ run[s].state = "running" /\ run[s].number # 0 /\ run[s].number \in Nat
      /\ run[s].board \in Board
  BY RunTyped DEF RunInv, Sure
<1>2. run[s].number # run[t].number
  BY <1>1 DEF RunInv
<1>3. CASE run[t].board # run[s].board
  BY <1>3, HoldsOn, HolderIsOnBoard DEF Puts
<1>4. CASE run[t].board = run[s].board
  <2>1. ~(Going(t, {"partition"}) /\ run[t].linked)
    BY <1>1, <1>4 DEF RunInv, Sure
  <2>2. flash'[run[t].board].run # run[t].number /\ latest'[run[t].board] # run[t].number
    BY <1>1, <1>2, <1>4 DEF Puts
  <2> QED
    BY <2>1, <2>2 DEF Holds, Wrote, Going, Done
<1> QED
  BY <1>3, <1>4

\* The flash of every board stays; one run goes on, or none.
LEMMA UnwrittenFlash ==
  ASSUME DataTypes, DataTypes', RowsGrow, RunInv, FlashInv, NEW s \in Station,
         flash' = flash, UNCHANGED <<firmware, runs, latest>>,
         \A t \in Station \ {s} : run'[t] = run[t], Holds(s)'
  PROVE  FlashInv'
<1>1. runs' >= runs
  BY DEF DataTypes
<1>2. \A t \in Station \ {s} : Holds(t)'
  BY HoldsOn
<1> QED
  BY <1>1, <1>2, FlashStays DEF FlashInv

LEMMA WrittenFlash ==
  ASSUME DataTypes, DataTypes', RowsGrow, RunInv, FlashInv, NEW s \in Station,
         NEW fw, NEW identity, Puts(s, fw, identity), run[s].linked,
         Own(identity, run[s].board),
         UNCHANGED <<firmware, runs, latest>>,
         \A t \in Station \ {s} : run'[t] = run[t], Holds(s)'
  PROVE  FlashInv'
<1>1. \A t \in Station \ {s} : Holds(t)'
  BY OthersHold
<1>2. run[s].state = "running"
  BY DEF RunInv, Sure
<1> QED
  BY <1>1, <1>2, PutsOwn DEF FlashInv

LEMMA NothingRead == \A b : Own(Blank, b) /\ Own(Torn, b)
BY DEF Own, Whole

LEMMA StationFlashKept ==
  ASSUME DataTypes, DataTypes', RowsGrow, CallInv, RunInv, FlashInv, NEW s \in Station, Provision(s)
  PROVE  FlashInv'
<1>0. Sure(s) /\ Holds(s)
  BY DEF RunInv, FlashInv
<1>1. CASE Registered(s)
  BY <1>1, RegisteredDoes, HoldsNothing, UnwrittenFlash DEF Quiet, Others
<1>2. CASE GotPartition(s)
  BY <1>2, GotPartitionDoes, HoldsNothing, UnwrittenFlash DEF Quiet, Others
<1>3. CASE Erase(s)
  <2>1. Runs(s, "erase") /\ run[s].linked /\ Advances(s, "firmware") /\ Puts(s, Blank, Blank) /\ Quiet
    BY <1>3, EraseDoes
  <2>2. Holds(s)'
    BY <2>1, HoldsNothing DEF Advances, Runs
  <2> QED
    BY <2>1, <2>2, NothingRead, WrittenFlash DEF Advances, Quiet
<1>4. CASE WriteFirmware(s)
  <2>1. /\ Runs(s, "firmware") /\ run[s].linked /\ Advances(s, "partition") /\ Quiet
        /\ Puts(s, firmware[s], flash[run[s].board].identity)
    BY <1>4, WriteFirmwareDoes
  <2>2. Holds(s)'
    BY <2>1 DEF Holds, Advances, Stays, Puts, Quiet, Going, Wrote, Done, Runs
  <2>3. Own(flash[run[s].board].identity, run[s].board)
    BY <1>0, <2>1, OwnStays DEF Sure, Runs
  <2> QED
    BY <2>1, <2>2, <2>3, WrittenFlash DEF Advances, Quiet
<1>5. CASE WriteIdentity(s)
  <2>1. /\ Runs(s, "partition") /\ run[s].linked /\ Advances(s, "record") /\ Quiet
        /\ Puts(s, flash[run[s].board].firmware, run[s].image)
    BY <1>5, WriteIdentityDoes
  <2>2. Past(s) /\ Imaged(s) /\ Going(s, {"partition"})
    BY <2>1 DEF Past, Imaged, Going, Runs
  <2>3. Holds(s)'
    BY <1>0, <2>1, <2>2 DEF Holds, Advances, Stays, Puts, Quiet, Going, Wrote, Done,
      Runs
  <2>4. Own(run[s].image, run[s].board)
    BY <1>0, <2>2, RowsServe DEF Sure, Own, ReadBack, ReadsAs
  <2> QED
    BY <2>1, <2>3, <2>4, WrittenFlash DEF Advances, Quiet
<1>6. CASE WriteBreaks(s)
  <2>1. /\ run[s].linked /\ run[s].state = "running" /\ Fails(s) /\ Quiet
        /\ \/ Puts(s, Torn, flash[run[s].board].identity)
           \/ Puts(s, flash[run[s].board].firmware, Torn)
    BY <1>6, WriteBreaksDoes
  <2>2. Holds(s)'
    BY <2>1, HoldsNothing DEF Fails
  <2>3. Own(flash[run[s].board].identity, run[s].board)
    BY <1>0, <2>1, OwnStays DEF Sure
  <2> QED
    BY <2>1, <2>2, <2>3, NothingRead, WrittenFlash DEF Fails, Quiet
<1>7. CASE Recorded(s)
  <2>1. Runs(s, "record") /\ Advances(s, "reset") /\ Quiet /\ flash' = flash
    BY <1>7, RecordedDoes
  <2>2. Holds(s)'
    BY <1>0, <2>1 DEF Holds, Advances, Stays, Quiet, Going, Wrote, Done, Runs
  <2> QED
    BY <2>1, <2>2, UnwrittenFlash DEF Advances, Quiet
<1>8. CASE Reset(s)
  <2>1. /\ Runs(s, "reset") /\ \A t \in Station \ {s} : run'[t] = run[t]
        /\ Stays(s) /\ run'[s].state = "done" /\ run'[s].linked = FALSE
        /\ run'[s].image = run[s].image /\ Quiet /\ flash' = flash
    BY <1>8, ResetDoes
  <2>2. Holds(s)'
    BY <1>0, <2>1 DEF Holds, Stays, Quiet, Going, Wrote, Done, Runs
  <2> QED
    BY <2>1, <2>2, UnwrittenFlash DEF Quiet
<1>9. CASE PortLost(s)
  BY <1>9, PortLostDoes, HoldsNothing, UnwrittenFlash DEF Fails, Quiet
<1>10. CASE CallFails(s)
  BY <1>10, CallFailsDoes, HoldsNothing, UnwrittenFlash DEF Fails, Quiet
<1>11. CASE GiveUp(s)
  BY <1>11, GiveUpDoes, HoldsNothing, UnwrittenFlash DEF Fails, Quiet
<1> QED
  BY <1>1, <1>2, <1>3, <1>4, <1>5, <1>6, <1>7, <1>8, <1>9, <1>10, <1>11 DEF Provision

LEMMA OperatorFlashKept ==
  ASSUME DataTypes, DataTypes', RowsGrow, CallInv, RunInv, FlashInv, Operator
  PROVE  FlashInv'
<1>0. runs \in Nat /\ runs' \in Nat
  BY DEF DataTypes
<1>1. ASSUME NEW b \in Board, NEW s \in Station, Plug(b, s)
      PROVE  FlashInv'
  <2>1. UNCHANGED <<firmware, rows, run, flash, runs, latest>>
    BY <1>1, PlugDoes
  <2>2. \A t \in Station : Holds(t)'
    BY <2>1, HoldsOn
  <2> QED
    BY <1>0, <2>1, <2>2, FlashStays DEF FlashInv
<1>2. ASSUME NEW b \in Board, Unplug(b)
      PROVE  FlashInv'
  <2>1. PICK s \in Station :
          /\ \A t \in Station \ {s} : run'[t] = run[t]
          /\ Stays(s) /\ run'[s].step = run[s].step /\ run'[s].state = run[s].state
          /\ run'[s].linked = FALSE /\ run'[s].image = run[s].image
          /\ UNCHANGED <<firmware, flash, runs, latest>>
    BY <1>2, UnplugDoes
  <2>2. Holds(s)
    BY DEF FlashInv
  <2>3. Holds(s)'
    BY <2>1, <2>2 DEF Holds, Stays, Going, Wrote, Done
  <2> QED
    BY <2>1, <2>3, UnwrittenFlash
<1>3. ASSUME NEW s \in Station, ConnectFails(s)
      PROVE  FlashInv'
  BY <1>3, ConnectFailsDoes, HoldsNothing, UnwrittenFlash
<1>4. ASSUME NEW s \in Station, NEW b \in Board, NEW m \in Meter, Started(s, b, m)
      PROVE  FlashInv'
  <2>1. /\ Others(s) /\ runs' = runs + 1 /\ latest'[b] = runs + 1
        /\ \A o \in Board \ {b} : latest'[o] = latest[o]
        /\ UNCHANGED <<firmware, flash>>
        /\ \/ run'[s].state = "running" /\ run'[s].step = "register"
           \/ run'[s].state = "failed"
    BY <1>4 DEF Started
  <2>2. Holds(s)'
    BY <2>1, HoldsNothing
  <2>3. ASSUME NEW t \in Station \ {s} PROVE Holds(t)'
    <3>1. run[t].number <= runs /\ run[t].number \in Nat
      BY RunTyped DEF RunInv, Sure
    <3>2. run[t].number # runs + 1
      BY <1>0, <3>1
    <3> QED
      BY <2>1, <3>2, HoldsOn, HolderIsOnBoard DEF Others
  <2> QED
    BY <1>0, <2>1, <2>2, <2>3, FlashStays DEF FlashInv
<1> QED
  BY <1>1, <1>2, <1>3, <1>4, StartDoes, Zenon DEF Operator

LEMMA FlashKept ==
  ASSUME DataTypes, DataTypes', RowsGrow, CallInv, RunInv, SequenceInv, FlashInv, [Next]_vars
  PROVE  FlashInv'
<1>1. CASE UNCHANGED vars \/ \E x \in Slot : Handle(x)
  <2>1. UNCHANGED <<firmware, run, flash, runs, latest>>
    BY <1>1 DEF vars, boards, history, Handle, RegisterLooks, RegisterUpdates,
      RegisterInserts,
       RegisterLooksAgain, BuildsPartition, CountsFlash
  <2>2. \A t \in Station : Holds(t)'
    BY <2>1, HoldsOn
  <2>3. runs' >= runs
    BY <2>1 DEF DataTypes
  <2> QED
    BY <2>1, <2>2, <2>3, FlashStays DEF FlashInv
<1> QED
  BY <1>1, OperatorFlashKept, StationFlashKept DEF Next

----------------------------------------------------------------------------
(* Boards that are registered once at a time                                *)

\* A request only ends, or stays where it is, and no row of the board comes.
LEMMA AloneStays ==
  ASSUME NEW b \in Board, Alone(b),
         \A y \in Slot : Registering(y, b)' => Registering(y, b) /\ call'[y].at = call[y].at,
         \A i \in Ids : RowWillBeFor(i, b) => RowIsFor(i, b)
  PROVE  Alone(b)'
<1>1. \A i \in Ids : RowIsFor(i, b)' => RowWillBeFor(i, b)
  BY DEF RowIsFor, Known, RowWillBeFor
<1>2. \A x, y \in Slot : Registering(x, b)' /\ Registering(y, b)' => x = y
  BY DEF Alone
<1>3. ASSUME NEW x \in Slot, Registering(x, b)'
      PROVE  /\ call'[x].at # "again"
             /\ call'[x].at = "insert" => \A i \in Ids : ~RowIsFor(i, b)'
  BY <1>1, <1>3 DEF Alone
<1> QED
  BY <1>2, <1>3 DEF Alone

LEMMA AloneNone ==
  ASSUME NEW b \in Board, \A y \in Slot : ~Registering(y, b)'
  PROVE  Alone(b)'
BY DEF Alone

\* If a board is not being registered, a step leaves it so, and its row's meter alone.
BoardQuiet(b) ==
  (\A y \in Slot : ~Registering(y, b)) =>
     /\ \A y \in Slot : ~Registering(y, b)'
     /\ \A i \in Ids : RowIsFor(i, b) => rows'[i].meter = rows[i].meter

LEMMA QuietCalls ==
  ASSUME NEW b, rows' = rows,
         \A y \in Slot : Registering(y, b)' => \E z \in Slot : Registering(z, b)
  PROVE  BoardQuiet(b)
BY DEF BoardQuiet

\* The steps of a station, but the first, register nothing.
Unregistering == \A y \in Slot, b \in Board :
  Registering(y, b)' => Registering(y, b) /\ call'[y].at = call[y].at

LEMMA OneUnregisters ==
  ASSUME NEW s \in Slot, \A y \in Slot \ {s} : call'[y] = call[y],
         call'[s].op # "register" \/ call'[s].at = "answered"
  PROVE  Unregistering
BY DEF Unregistering, Registering

LEMMA NoneUnregisters ==
  ASSUME call' = call
  PROVE  Unregistering
BY DEF Unregistering, Registering

LEMMA UnregisteringKeeps ==
  ASSUME MeterInv, Unregistering, rows' = rows, contested' = contested
  PROVE  /\ \A b \in Board \ contested' : Alone(b)'
         /\ \A b \in Board : BoardQuiet(b)
<1>1. \A i \in Ids, b \in Board : RowWillBeFor(i, b) => RowIsFor(i, b)
  BY DEF RowWillBeFor, RowIsFor, Known
<1>2. ASSUME NEW b \in Board \ contested' PROVE Alone(b)'
  BY <1>1, AloneStays DEF MeterInv, Unregistering
<1>3. ASSUME NEW b \in Board PROVE BoardQuiet(b)
  BY QuietCalls DEF Unregistering
<1> QED
  BY <1>2, <1>3

\* A run that is not under way has chosen nothing.
LEMMA ChosenNothing ==
  ASSUME NEW s \in Station, run'[s].state \notin {"running", "done"}
  PROVE  Chosen(s)'
BY DEF Chosen, HasRow, Past, Imaged, Wrote, Done, Going

LEMMA RegistersFor ==
  ASSUME DataTypes, CallInv, RunInv, NEW s \in Station
  PROVE  /\ Going(s, {"register"}) =>
              /\ call[s].op = "register" /\ call[s].mac = run[s].board
              /\ call[s].meter = run[s].meter
              /\ CallDone(s) => RowIsFor(call[s].id, run[s].board)
         /\ Past(s) => RowIsFor(run[s].device, run[s].board)
         /\ Going(s, {"identity"}) => call[s].op = "partition" /\ call[s].id = run[s].device
BY Slots DEF RunInv, Waits, Sure, CallInv, Sound, Going, CallDone

\* Another's step leaves a run's choice.
LEMMA ChosenStays ==
  ASSUME DataTypes, CallInv, RunInv, NEW t \in Station, Chosen(t),
         run'[t] = run[t], call'[t] = call[t],
         latest'[run[t].board] = latest[run[t].board],
         BoardQuiet(run[t].board)
  PROVE  Chosen(t)'
<1>1. /\ HasRow(t)' <=> HasRow(t)
      /\ Past(t)' <=> Past(t)
      /\ Imaged(t)' <=> Imaged(t)
      /\ Wrote(t)' <=> Wrote(t)
      /\ Going(t, {"register"})' <=> Going(t, {"register"})
      /\ Going(t, {"identity"})' <=> Going(t, {"identity"})
      /\ CallDone(t)' <=> CallDone(t)
  BY DEF HasRow, Past, Imaged, Wrote, Going, Done, CallDone
<1>2. CASE latest[run[t].board] = run[t].number /\ run[t].number # 0
  <2>1. HasRow(t) =>
          /\ \A y \in Slot : ~Registering(y, run[t].board)'
          /\ \A i \in Ids : RowIsFor(i, run[t].board) => rows'[i].meter = rows[i].meter
    BY <1>2 DEF Chosen, BoardQuiet
  <2>2. HasRow(t) => \A y \in Slot :
          ~(call'[y].op = "register" /\ call'[y].at # "answered" /\ call'[y].mac = run'[t].board)
    BY <2>1 DEF Registering
  <2>3. Past(t) => rows'[run[t].device].meter = run[t].meter
    BY <1>2, <2>1, RegistersFor DEF Chosen, HasRow, RowIsFor, Known
  <2>4. Going(t, {"register"}) /\ CallDone(t) => rows'[call[t].id].meter = run[t].meter
    BY <1>2, <2>1, RegistersFor DEF Chosen, HasRow, RowIsFor, Known
  <2> QED
    BY <1>1, <1>2, <2>2, <2>3, <2>4 DEF Chosen, Registering
<1>3. CASE ~(latest[run[t].board] = run[t].number /\ run[t].number # 0)
  BY <1>1, <1>3 DEF Chosen
<1> QED
  BY <1>2, <1>3

\* A run goes on with the row, the meter and the image it has.
LEMMA ChosenAdvances ==
  ASSUME DataTypes, CallInv, RunInv, NEW s \in Station, Chosen(s), rows' = rows,
         latest' = latest, BoardQuiet(run[s].board), Stays(s),
         run'[s].device = run[s].device, run'[s].image = run[s].image,
         Past(s), ~Going(s, {"register"})', ~(Going(s, {"identity"})' /\ CallDone(s)'),
         Imaged(s)' => Imaged(s),
         Wrote(s)' => Wrote(s) \/ (Imaged(s) /\ run[s].linked)
  PROVE  Chosen(s)'
<1>1. run[s].linked => latest[run[s].board] = run[s].number /\ run[s].number # 0
  <2>1. run[s].number \in Nat /\ (run[s].linked => run[s].state = "running")
    BY RunTyped DEF RunInv, Sure
  <2> QED
    BY <2>1 DEF RunInv, Sure
<1>2. Wrote(s)' => HasMeter(run[s].image, run[s].meter)
  BY <1>1 DEF Chosen
<1>3. CASE latest[run[s].board] = run[s].number /\ run[s].number # 0
  <2>1. \A y \in Slot : ~Registering(y, run[s].board)'
    BY <1>3 DEF Chosen, BoardQuiet, HasRow
  <2>2. rows[run[s].device].meter = run[s].meter
    BY <1>3 DEF Chosen
  <2>3. Imaged(s)' => HasMeter(run[s].image, run[s].meter)
    BY <1>3 DEF Chosen
  <2>4. \A y \in Slot : ~(Registering(y, run[s].board)')
    BY <2>1
  <2> QED
    BY <1>2, <2>2, <2>3, <2>4 DEF Chosen, Stays, Registering
<1>4. CASE ~(latest[run[s].board] = run[s].number /\ run[s].number # 0)
  BY <1>2, <1>4 DEF Chosen, Stays
<1> QED
  BY <1>3, <1>4

\* All other runs keep their choice, and so does s.
LEMMA ChoicesKept ==
  ASSUME DataTypes, CallInv, RunInv, MeterInv, NEW s \in Station,
         \A t \in Station \ {s} : run'[t] = run[t] /\ call'[t] = call[t],
         run'[s].board \in Board \ contested' => Chosen(s)',
         contested' = contested, latest' = latest,
         \A b \in Board \ contested' : Alone(b)',
         \A b \in Board \ contested : BoardQuiet(b)
  PROVE  MeterInv'
<1>1. ASSUME NEW t \in Station, t # s, run'[t].board \in Board \ contested'
      PROVE  Chosen(t)'
  <2>1. run[t].board \in Board \ contested /\ run'[t] = run[t] /\ call'[t] = call[t]
    BY <1>1
  <2> QED
    BY <2>1, ChosenStays DEF MeterInv
<1> QED
  BY <1>1 DEF MeterInv

LEMMA StationMeterKept ==
  ASSUME DataTypes, CallInv, RunInv, MeterInv, NEW s \in Station, Provision(s)
  PROVE  MeterInv'
<1>0. s \in Slot /\ Station \subseteq Slot /\ GivenUp \notin Station
  BY Slots
<1>1. ASSUME Unregistering, \A t \in Station \ {s} : run'[t] = run[t] /\ call'[t] = call[t],
             Quiet, run'[s].board \in Board \ contested /\ (\A b \in Board : BoardQuiet(b))
                      => Chosen(s)'
      PROVE  MeterInv'
  BY <1>1, UnregisteringKeeps, ChoicesKept DEF Quiet
<1>2. CASE Registered(s)
  <2>1. /\ Runs(s, "register") /\ CallDone(s)
        /\ Others(s) /\ Stays(s)
        /\ run'[s].state = "running" /\ run'[s].step = "identity"
        /\ run'[s].device = call[s].id
        /\ call'[s].op = "partition" /\ call'[s].at = "read" /\ Quiet
    BY <1>2, RegisteredDoes
  <2>2. Unregistering
    BY <1>0, <2>1, OneUnregisters DEF Others
  <2>3. ASSUME run'[s].board \in Board \ contested, \A b \in Board : BoardQuiet(b)
        PROVE  Chosen(s)'
    <3>1. Chosen(s) /\ HasRow(s) /\ Going(s, {"register"})
      BY <2>1, <2>3 DEF MeterInv, Stays, HasRow, Going, Runs
    <3>2. ~Imaged(s)' /\ ~Wrote(s)' /\ ~Going(s, {"register"})' /\ ~CallDone(s)'
      BY <2>1 DEF Imaged, Wrote, Done, Going, CallDone
    <3>3. CASE latest[run[s].board] = run[s].number /\ run[s].number # 0
      <4>1. \A y \in Slot : ~(Registering(y, run[s].board)')
        BY <2>1, <2>3, <3>1, <3>3 DEF Chosen, BoardQuiet, Stays
      <4>2. \A y \in Slot :
              ~(call'[y].op = "register" /\ call'[y].at # "answered" /\ call'[y].mac = run'[s].board)
        BY <2>1, <3>1, <3>3, <2>3 DEF Chosen, BoardQuiet, Stays, Registering
      <4>3. rows'[run'[s].device].meter = run'[s].meter
        BY <2>1, <3>1, <3>3 DEF Chosen, Stays, Quiet
      <4> QED
        BY <3>2, <4>2, <4>3 DEF Chosen, Registering
    <3>4. CASE ~(latest[run[s].board] = run[s].number /\ run[s].number # 0)
      BY <2>1, <3>2, <3>4 DEF Chosen, Stays, Quiet
    <3> QED
      BY <3>3, <3>4
  <2> QED
    BY <1>0, <1>1, <2>1, <2>2, <2>3 DEF Others
<1>3. CASE GotPartition(s)
  <2>1. /\ Runs(s, "identity") /\ CallDone(s)
        /\ Others(s) /\ Stays(s) /\ call'[s] = NoCall /\ Quiet
        /\ \/ run'[s].state = "failed"
           \/ /\ run'[s].state = "running" /\ run'[s].step \in {"erase", "firmware"}
              /\ run'[s].device = run[s].device
              /\ call[s].image # Refused /\ run'[s].image = call[s].image
    BY <1>3, GotPartitionDoes
  <2>2. Unregistering
    BY <1>0, <2>1, NoCallTyped, OneUnregisters DEF Others
  <2>3. ASSUME run'[s].board \in Board \ contested, \A b \in Board : BoardQuiet(b),
               run'[s].state = "running"
        PROVE  Chosen(s)'
    <3>1. Chosen(s) /\ HasRow(s) /\ Past(s) /\ Going(s, {"identity"})
      BY <2>1, <2>3 DEF MeterInv, Stays, HasRow, Past, Going, Runs
    <3>2. ~Wrote(s)' /\ ~Going(s, {"register"})' /\ ~Going(s, {"identity"})'
      BY <2>1, <2>3 DEF Wrote, Done, Going
    <3>3. CASE latest[run[s].board] = run[s].number /\ run[s].number # 0
      <4>2. \A y \in Slot :
              ~(call'[y].op = "register" /\ call'[y].at # "answered" /\ call'[y].mac = run'[s].board)
        BY <2>1, <3>1, <3>3, <2>3 DEF Chosen, BoardQuiet, Stays, Registering
      <4>3. rows'[run'[s].device].meter = run'[s].meter
        BY <2>1, <2>3, <3>1, <3>3 DEF Chosen, Stays, Quiet
      <4>4. HasMeter(run'[s].image, run'[s].meter)
        BY <2>1, <2>3, <3>1, <3>3 DEF Chosen, Stays
      <4> QED
        BY <3>2, <4>2, <4>3, <4>4 DEF Chosen, Registering
    <3>4. CASE ~(latest[run[s].board] = run[s].number /\ run[s].number # 0)
      BY <2>1, <3>2, <3>4 DEF Chosen, Stays, Quiet
    <3> QED
      BY <3>3, <3>4
  <2>4. run'[s].board \in Board \ contested /\ (\A b \in Board : BoardQuiet(b)) => Chosen(s)'
    BY <2>1, <2>3, ChosenNothing
  <2> QED
    BY <1>0, <1>1, <2>1, <2>2, <2>4 DEF Others
<1>4. CASE Erase(s) \/ WriteFirmware(s)
  <2>1. PICK step \in {"firmware", "partition"} :
          /\ Runs(s, "erase") \/ Runs(s, "firmware")
          /\ Advances(s, step) /\ Quiet /\ call' = call
    BY <1>4, EraseDoes, WriteFirmwareDoes
  <2>2. ASSUME run'[s].board \in Board \ contested, \A b \in Board : BoardQuiet(b)
        PROVE  Chosen(s)'
    <3>1. Past(s) /\ Imaged(s) /\ Chosen(s)
      BY <2>1, <2>2 DEF Past, Imaged, Going, Runs, MeterInv, Advances, Stays
    <3>2. ~Going(s, {"register"})' /\ ~Going(s, {"identity"})' /\ ~Wrote(s)'
      BY <2>1 DEF Advances, Going, Wrote, Done, Runs
    <3> QED
      BY <2>1, <2>2, <3>1, <3>2, ChosenAdvances DEF Advances, Quiet, Stays
  <2> QED
    BY <1>0, <1>1, <2>1, <2>2, NoneUnregisters DEF Advances
<1>5. CASE WriteIdentity(s)
  <2>1. /\ Runs(s, "partition") /\ run[s].linked /\ Advances(s, "record") /\ Quiet
        /\ CallBecomes(s, call'[s]) /\ call'[s].op = "flashed"
    BY <1>5, WriteIdentityDoes
  <2>2. ASSUME run'[s].board \in Board \ contested, \A b \in Board : BoardQuiet(b)
        PROVE  Chosen(s)'
    <3>1. Past(s) /\ Imaged(s) /\ Chosen(s)
      BY <2>1, <2>2 DEF Past, Imaged, Going, Runs, MeterInv, Advances, Stays
    <3>2. ~Going(s, {"register"})' /\ ~Going(s, {"identity"})'
      BY <2>1 DEF Advances, Going
    <3> QED
      BY <2>1, <2>2, <3>1, <3>2, ChosenAdvances DEF Advances, Quiet, Stays
  <2>3. Unregistering
    BY <1>0, <2>1, OneUnregisters DEF CallBecomes
  <2> QED
    BY <1>0, <1>1, <2>1, <2>2, <2>3 DEF Advances, CallBecomes
<1>6. CASE WriteBreaks(s) \/ PortLost(s)
  <2>1. Fails(s) /\ Quiet /\ call' = call
    BY <1>6, WriteBreaksDoes, PortLostDoes
  <2> QED
    BY <1>1, <2>1, NoneUnregisters, ChosenNothing DEF Fails
<1>7. CASE CallFails(s)
  <2>1. Fails(s) /\ Quiet /\ CallBecomes(s, NoCall)
    BY <1>7, CallFailsDoes
  <2>2. Unregistering
    BY <1>0, <2>1, NoCallTyped, OneUnregisters DEF CallBecomes
  <2> QED
    BY <1>0, <1>1, <2>1, <2>2, ChosenNothing DEF Fails, CallBecomes
<1>8. CASE Recorded(s)
  <2>1. Runs(s, "record") /\ Advances(s, "reset") /\ CallBecomes(s, NoCall) /\ Quiet
    BY <1>8, RecordedDoes
  <2>2. ASSUME run'[s].board \in Board \ contested, \A b \in Board : BoardQuiet(b)
        PROVE  Chosen(s)'
    <3>1. Past(s) /\ Imaged(s) /\ Wrote(s) /\ Chosen(s)
      BY <2>1, <2>2 DEF Past, Imaged, Wrote, Going, Runs, MeterInv, Advances, Stays
    <3>2. ~Going(s, {"register"})' /\ ~Going(s, {"identity"})'
      BY <2>1 DEF Advances, Going
    <3> QED
      BY <2>1, <2>2, <3>1, <3>2, ChosenAdvances DEF Advances, Quiet, Stays
  <2>3. Unregistering
    BY <1>0, <2>1, NoCallTyped, OneUnregisters DEF CallBecomes
  <2> QED
    BY <1>0, <1>1, <2>1, <2>2, <2>3 DEF Advances, CallBecomes
<1>9. CASE Reset(s)
  <2>1. /\ Runs(s, "reset") /\ \A t \in Station \ {s} : run'[t] = run[t]
        /\ Stays(s) /\ run'[s].state = "done"
        /\ run'[s].device = run[s].device /\ run'[s].image = run[s].image
        /\ Quiet /\ call' = call
    BY <1>9, ResetDoes
  <2>2. ASSUME run'[s].board \in Board \ contested, \A b \in Board : BoardQuiet(b)
        PROVE  Chosen(s)'
    <3>1. Past(s) /\ Imaged(s) /\ Wrote(s) /\ Chosen(s)
      BY <2>1, <2>2 DEF Past, Imaged, Wrote, Going, Runs, MeterInv, Stays
    <3>2. ~Going(s, {"register"})' /\ ~Going(s, {"identity"})'
      BY <2>1 DEF Going
    <3> QED
      BY <2>1, <2>2, <3>1, <3>2, ChosenAdvances DEF Quiet, Stays
  <2> QED
    BY <1>1, <2>1, <2>2, NoneUnregisters
<1>10. CASE GiveUp(s)
  <2>1. /\ Fails(s) /\ Quiet /\ call[GivenUp] = NoCall
        /\ call'[s] = NoCall /\ call'[GivenUp] = call[s]
        /\ \A y \in Slot \ {s, GivenUp} : call'[y] = call[y]
    BY <1>10, GiveUpDoes
  <2>2. \A b : ~Registering(GivenUp, b) /\ ~(Registering(s, b)')
    BY <2>1, NoCallTyped DEF Registering
  <2>3. ASSUME NEW b \in Board \ contested PROVE Alone(b)' /\ BoardQuiet(b)
    <3>1. Alone(b)
      BY DEF MeterInv
    <3>2. \A y \in Slot : Registering(y, b)' =>
            \/ y # s /\ y # GivenUp /\ Registering(y, b) /\ call'[y] = call[y]
            \/ y = GivenUp /\ Registering(s, b) /\ call'[y] = call[s]
      BY <2>1, <2>2 DEF Registering
    <3>3. \A i : RowIsFor(i, b)' <=> RowIsFor(i, b)
      BY <2>1 DEF Quiet, RowIsFor, Known
    <3>4. \A x, y \in Slot : Registering(x, b)' /\ Registering(y, b)' => x = y
      BY <1>0, <3>1, <3>2 DEF Alone
    <3>5. ASSUME NEW x \in Slot, Registering(x, b)'
          PROVE  /\ call'[x].at # "again"
                 /\ call'[x].at = "insert" => \A i \in Ids : ~RowIsFor(i, b)'
      BY <1>0, <3>1, <3>2, <3>3, <3>5 DEF Alone
    <3>6. BoardQuiet(b)
      BY <1>0, <2>1, <3>2, QuietCalls DEF Quiet
    <3> QED
      BY <3>4, <3>5, <3>6 DEF Alone
  <2> QED
    BY <1>0, <2>1, <2>3, ChosenNothing, ChoicesKept DEF Fails, Quiet
<1> QED
  BY <1>2, <1>3, <1>4, <1>5, <1>6, <1>7, <1>8, <1>9, <1>10 DEF Provision

LEMMA OperatorMeterKept ==
  ASSUME DataTypes, CallInv, RunInv, MeterInv, Operator
  PROVE  MeterInv'
<1>0. Station \subseteq Slot
  BY Slots
<1>1. ASSUME NEW b \in Board, NEW s \in Station, Plug(b, s)
      PROVE  MeterInv'
  <2>1. UNCHANGED <<rows, run, call, latest, contested>>
    BY <1>1, PlugDoes
  <2>2. /\ \A o \in Board \ contested' : Alone(o)'
        /\ \A o \in Board : BoardQuiet(o)
    BY <2>1, NoneUnregisters, UnregisteringKeeps
  <2>3. ASSUME NEW t \in Station, run'[t].board \in Board \ contested' PROVE Chosen(t)'
    BY <2>1, <2>2, <2>3, ChosenStays DEF MeterInv
  <2> QED
    BY <2>2, <2>3 DEF MeterInv
<1>2. ASSUME NEW b \in Board, Unplug(b)
      PROVE  MeterInv'
  <2>1. PICK s \in Station :
          /\ \A t \in Station \ {s} : run'[t] = run[t]
          /\ Stays(s) /\ run'[s].step = run[s].step /\ run'[s].state = run[s].state
          /\ run'[s].device = run[s].device /\ run'[s].image = run[s].image
          /\ UNCHANGED <<rows, call, latest, contested>>
    BY <1>2, UnplugDoes
  <2>2. /\ \A o \in Board \ contested' : Alone(o)'
        /\ \A o \in Board : BoardQuiet(o)
    BY <2>1, NoneUnregisters, UnregisteringKeeps
  <2>3. ASSUME run'[s].board \in Board \ contested'
        PROVE  Chosen(s)'
    <3>1. Chosen(s)
      BY <2>1, <2>3 DEF MeterInv, Stays
    <3>2. /\ HasRow(s)' <=> HasRow(s)
          /\ Past(s)' <=> Past(s)
          /\ Imaged(s)' <=> Imaged(s)
          /\ Wrote(s)' <=> Wrote(s)
          /\ Going(s, {"register"})' <=> Going(s, {"register"})
          /\ Going(s, {"identity"})' <=> Going(s, {"identity"})
          /\ CallDone(s)' <=> CallDone(s)
      BY <2>1 DEF HasRow, Past, Imaged, Wrote, Going, Done, CallDone
    <3> QED
      BY <2>1, <3>1, <3>2 DEF Chosen, Stays, Registering
  <2> QED
    BY <2>1, <2>2, <2>3, ChoicesKept
<1>3. ASSUME NEW s \in Station, ConnectFails(s)
      PROVE  MeterInv'
  <2>1. /\ run'[s].state \in {"idle", "failed"}
        /\ \A t \in Station \ {s} : run'[t] = run[t]
        /\ UNCHANGED <<rows, call, latest, contested>>
    BY <1>3, ConnectFailsDoes
  <2>2. /\ \A o \in Board \ contested' : Alone(o)'
        /\ \A o \in Board : BoardQuiet(o)
    BY <2>1, NoneUnregisters, UnregisteringKeeps
  <2> QED
    BY <2>1, <2>2, ChosenNothing, ChoicesKept
<1>4. ASSUME NEW s \in Station, NEW b \in Board, NEW m \in Meter, Started(s, b, m)
      PROVE  MeterInv'
  <2>1. /\ run[s].state # "running" /\ Others(s)
        /\ run'[s].board = b
        /\ \/ /\ run'[s].state = "running" /\ run'[s].step = "register"
              /\ call'[s].op = "register" /\ call'[s].at = "lookup"
              /\ call'[s].mac = b
           \/ run'[s].state = "failed" /\ call' = call
        /\ latest'[b] = runs + 1 /\ \A o \in Board \ {b} : latest'[o] = latest[o]
        /\ contested' = (IF \E x \in Slot : Registering(x, b) THEN contested \union {b} ELSE contested)
        /\ rows' = rows
    BY <1>4 DEF Started
  <2>2. call[s] = NoCall /\ s \in Slot
    BY <1>0, <2>1 DEF RunInv, Waits
  <2>3. \A o : ~Registering(s, o)
    BY <2>2, NoCallTyped DEF Registering
  <2>4. \A y \in Slot, o \in Board : o # b /\ Registering(y, o)' =>
           Registering(y, o) /\ call'[y].at = call[y].at
    BY <2>1, <2>2 DEF Registering, Others
  <2>5. \A i \in Ids, o \in Board : RowWillBeFor(i, o) => RowIsFor(i, o)
    BY <2>1 DEF RowWillBeFor, RowIsFor, Known
  <2>6. ASSUME NEW o \in Board, o \notin contested', o # b PROVE Alone(o)'
    <3>1. Alone(o)
      BY <2>1, <2>6 DEF MeterInv
    <3> QED
      BY <2>4, <2>5, <2>6, <3>1, AloneStays
  <2>7. ASSUME b \notin contested' PROVE Alone(b)'
    <3>1. \A x \in Slot : ~Registering(x, b)
      BY <2>1, <2>7
    <3>2. \A y \in Slot : Registering(y, b)' => y = s /\ call'[y].at = "lookup"
      BY <2>1, <2>2, <3>1 DEF Registering, Others
    <3> QED
      BY <3>2 DEF Alone
  <2>8. \A o \in Board : o # b => BoardQuiet(o)
    BY <2>1, <2>4, QuietCalls
  <2>9. Chosen(s)'
    <3>1. ~HasRow(s)' /\ ~Past(s)' /\ ~Imaged(s)' /\ ~Wrote(s)'
          /\ ~(Going(s, {"register"})' /\ CallDone(s)') /\ ~Going(s, {"identity"})'
      BY <2>1 DEF HasRow, Past, Imaged, Wrote, Done, Going, CallDone
    <3> QED
      BY <3>1 DEF Chosen
  <2>10. ASSUME NEW t \in Station, t # s, run'[t].board \in Board \ contested' PROVE Chosen(t)'
    <3>1. run'[t] = run[t] /\ call'[t] = call[t] /\ Chosen(t)
      BY <1>0, <2>1, <2>10 DEF Others, MeterInv
    <3>2. CASE run[t].board # b
      BY <2>1, <2>8, <2>10, <3>1, <3>2, ChosenStays
    <3>3. CASE run[t].board = b
      <4>1. run[t].number <= runs /\ run[t].number \in Nat /\ runs \in Nat
        BY RunTyped DEF RunInv, Sure, DataTypes
      <4>2. latest'[run'[t].board] # run'[t].number
        BY <2>1, <3>1, <3>3, <4>1
      <4>3. Wrote(t)' <=> Wrote(t)
        BY <3>1 DEF Wrote, Done, Going
      <4> QED
        BY <3>1, <4>2, <4>3 DEF Chosen
    <3> QED
      BY <3>2, <3>3
  <2> QED
    BY <2>6, <2>7, <2>9, <2>10 DEF MeterInv
<1> QED
  BY <1>1, <1>2, <1>3, <1>4, StartDoes, Zenon DEF Operator

\* Whose request it is that a handler works on.
LEMMA CallSaysStep ==
  ASSUME DataTypes, RunInv, NEW s \in Station, call[s].op # "none"
  PROVE  /\ call[s].op = "register" => Going(s, {"register"})
         /\ call[s].op = "partition" => Going(s, {"identity"})
         /\ call[s].op = "flashed" => Going(s, {"record"})
<1>1. Waits(s) /\ call[s] # NoCall
  BY NoCallTyped DEF RunInv
<1>2. run[s].step \in Steps
  BY RunTyped DEF RunSet
<1> QED
  BY <1>1, <1>2 DEF Waits, Going, Steps

\* The handler's own run; all others keep their choice.
LEMMA HandlerChoices ==
  ASSUME DataTypes, CallInv, RunInv, MeterInv, NEW x \in Slot, Handling(x),
         x \in Station /\ run[x].board \in Board \ contested => Chosen(x)',
         \A b \in Board \ contested : Alone(b)' /\ BoardQuiet(b)
  PROVE  MeterInv'
<1>1. UNCHANGED <<run, latest, contested>>
  BY DEF Handling
<1>2. ASSUME NEW t \in Station, t # x, run'[t].board \in Board \ contested'
      PROVE  Chosen(t)'
  <2>1. run'[t] = run[t] /\ call'[t] = call[t] /\ run[t].board \in Board \ contested
    BY <1>1, <1>2, Slots DEF Handling
  <2> QED
    BY <1>1, <2>1, ChosenStays DEF MeterInv
<1>3. ASSUME NEW t \in Station, t = x, run'[t].board \in Board \ contested'
      PROVE  Chosen(t)'
  <2>1. x \in Station /\ run[x].board \in Board \ contested
    BY <1>1, <1>3
  <2> QED
    BY <1>3, <2>1
<1> QED
  BY <1>1, <1>2, <1>3 DEF MeterInv

\* A handler that ends, or goes on, with a registration of mac, moves none of another board.
LEMMA ElsewhereNothing ==
  ASSUME MeterInv, NEW x \in Slot, Handling(x), call[x].op = "register",
         call'[x].op = "register" => call'[x].mac = call[x].mac,
         NEW b \in Board \ contested, b # call[x].mac,
         \A i \in Ids : rows'[i] = rows[i] \/ rows'[i].mac = call[x].mac,
         \A i \in Ids : rows'[i] = rows[i] \/ rows[i] = NoRow \/ rows[i].mac = call[x].mac
  PROVE  Alone(b)' /\ BoardQuiet(b)
<1>1. Alone(b)
  BY DEF MeterInv
<1>2. \A y \in Slot : Registering(y, b)' => Registering(y, b) /\ call'[y].at = call[y].at
  BY DEF Registering, Handling
<1>3. \A i \in Ids : RowWillBeFor(i, b) => RowIsFor(i, b)
  BY DEF RowWillBeFor, RowIsFor, Known
<1>4. \A i \in Ids : RowIsFor(i, b) => rows'[i] = rows[i]
  BY DEF RowIsFor, Known
<1>5. BoardQuiet(b)
  BY <1>2, <1>4 DEF BoardQuiet
<1> QED
  BY <1>1, <1>2, <1>3, <1>5, AloneStays

\* The only registration of a board is over when its handler has answered.
LEMMA LastOne ==
  ASSUME MeterInv, NEW x \in Slot, Handling(x), NEW b \in Board \ contested, Registering(x, b),
         call'[x].op # "register" \/ call'[x].at = "answered"
  PROVE  /\ \A y \in Slot :
              ~(call'[y].op = "register" /\ call'[y].at # "answered" /\ call'[y].mac = b)
         /\ Alone(b)' /\ BoardQuiet(b)
<1>1. \A y \in Slot :
        ~(call'[y].op = "register" /\ call'[y].at # "answered" /\ call'[y].mac = b)
  BY DEF MeterInv, Alone, Registering, Handling
<1>2. Alone(b)'
  BY <1>1, AloneNone DEF Registering
<1>3. BoardQuiet(b)
  BY DEF BoardQuiet
<1> QED
  BY <1>1, <1>2, <1>3

\* What a run that was registered may rely on.
LEMMA RegisteredChoice ==
  ASSUME NEW s \in Station, run' = run, Going(s, {"register"}),
         \A y \in Slot :
           ~(call'[y].op = "register" /\ call'[y].at # "answered" /\ call'[y].mac = run[s].board),
         rows'[call'[s].id].meter = run[s].meter
  PROVE  Chosen(s)'
<1>1. ~Past(s)' /\ ~Imaged(s)' /\ ~Wrote(s)' /\ ~Going(s, {"identity"})'
  BY DEF Past, Imaged, Wrote, Done, Going
<1> QED
  BY <1>1 DEF Chosen, Registering

LEMMA RegistrationMeterKept ==
  ASSUME DataTypes, CallInv, RunInv, SequenceInv, RegistryInv, MeterInv, NEW x \in Slot,
         RegisterLooks(x) \/ RegisterUpdates(x) \/ RegisterInserts(x) \/ RegisterLooksAgain(x)
  PROVE  MeterInv'
<1>0. /\ call[x].op = "register" /\ call[x].at # "answered" /\ call[x].mac \in Board
      /\ \A b : Registering(x, b) <=> b = call[x].mac
      /\ x \in Station => Going(x, {"register"}) /\ call[x].mac = run[x].board
                          /\ call[x].meter = run[x].meter
  <2>1. call[x].op = "register" /\ call[x].at # "answered"
    BY DEF RegisterLooks, RegisterUpdates, RegisterInserts, RegisterLooksAgain
  <2> QED
    BY <2>1, CallSaysStep, RegistersFor DEF Registering, CallInv, Sound
<1>1. CASE RegisterLooks(x)
  <2>1. /\ Handling(x) /\ Asked(x) /\ rows' = rows
        /\ \/ call'[x].at = "insert" /\ \A i \in Ids : ~RowIsFor(i, call[x].mac)
           \/ call'[x].at = "update"
    BY <1>1, RegisterLooksDoes
  <2>2. ASSUME x \in Station PROVE Chosen(x)'
    <3>1. Going(x, {"register"})' /\ ~CallDone(x)'
      BY <1>0, <2>1, <2>2 DEF Handling, Going, CallDone
    <3>2. ~HasRow(x)' /\ ~Past(x)' /\ ~Imaged(x)' /\ ~Wrote(x)' /\ ~Going(x, {"identity"})'
      BY <3>1 DEF HasRow, Past, Imaged, Wrote, Done, Going
    <3> QED
      BY <3>1, <3>2 DEF Chosen
  <2>3. ASSUME NEW b \in Board \ contested, b # call[x].mac PROVE Alone(b)' /\ BoardQuiet(b)
    BY <1>0, <2>1, <2>3, ElsewhereNothing DEF Asked
  <2>4. ASSUME NEW b \in Board \ contested, b = call[x].mac PROVE Alone(b)' /\ BoardQuiet(b)
    <3>1. Alone(b) /\ Registering(x, b)
      BY <1>0, <2>4 DEF MeterInv
    <3>2. \A y \in Slot : Registering(y, b)' => y = x
      BY <2>1, <3>1 DEF Alone, Registering, Handling
    <3>3. \A i : RowIsFor(i, b)' <=> RowIsFor(i, b)
      BY <2>1 DEF RowIsFor, Known
    <3>4. Alone(b)'
      BY <2>1, <2>4, <3>2, <3>3 DEF Alone
    <3>5. BoardQuiet(b)
      BY <3>1 DEF BoardQuiet
    <3> QED
      BY <3>4, <3>5
  <2> QED
    BY <2>1, <2>2, <2>3, <2>4, HandlerChoices
<1>2. CASE RegisterUpdates(x)
  <2>1. /\ Handling(x) /\ Answered(x, call[x].id, call[x].image)
        /\ rows'[call[x].id].mac = rows[call[x].id].mac
        /\ rows'[call[x].id].meter = call[x].meter
        /\ \A i \in Ids \ {call[x].id} : rows'[i] = rows[i]
        /\ call[x].at = "update"
    BY <1>2, RegisterUpdatesDoes
  <2>2. call'[x].op # "register" \/ call'[x].at = "answered"
    BY <2>1, NoCallTyped DEF Answered
  <2>3. RowIsFor(call[x].id, call[x].mac)
    BY <1>0, <2>1 DEF CallInv, Sound
  <2>4. ASSUME NEW b \in Board \ contested, b # call[x].mac PROVE Alone(b)' /\ BoardQuiet(b)
    <3>1. call'[x].op = "register" => call'[x].mac = call[x].mac
      BY <2>1, NoCallTyped DEF Answered, Asked
    <3>2. /\ \A i \in Ids : rows'[i] = rows[i] \/ rows'[i].mac = call[x].mac
          /\ \A i \in Ids : rows'[i] = rows[i] \/ rows[i] = NoRow \/ rows[i].mac = call[x].mac
      BY <2>1, <2>3 DEF RowIsFor
    <3> QED
      BY <1>0, <2>1, <2>4, <3>1, <3>2, ElsewhereNothing
  <2>5. ASSUME call[x].mac \in Board \ contested
        PROVE  /\ \A y \in Slot : ~(call'[y].op = "register" /\ call'[y].at # "answered"
                                    /\ call'[y].mac = call[x].mac)
               /\ \A b : b = call[x].mac => Alone(b)' /\ BoardQuiet(b)
    <3>1. PICK b \in Board \ contested : b = call[x].mac
      BY <2>5
    <3>2. Registering(x, b)
      BY <1>0, <3>1
    <3> QED
      BY <2>1, <2>2, <3>1, <3>2, LastOne
  <2>6. ASSUME x \in Station, run[x].board \in Board \ contested PROVE Chosen(x)'
    <3>1. call'[x].id = call[x].id /\ run' = run
      BY <2>1, <2>6, Slots DEF Answered, Handling
    <3> QED
      BY <1>0, <2>1, <2>5, <2>6, <3>1, RegisteredChoice
  <2> QED
    BY <2>1, <2>4, <2>5, <2>6, HandlerChoices
<1>3. CASE RegisterInserts(x)
  <2>0. sequence + 1 \in Ids
    BY <1>3, NumberLeft DEF RegisterInserts
  <2>1. Handling(x) /\ call[x].at = "insert"
    BY <1>3, <2>0, RegisterInsertsDoes
  <2>2. CASE \A i \in Ids : ~RowIsFor(i, call[x].mac)
    <3>1. /\ Answered(x, sequence + 1, call[x].image)
          /\ \A i \in Ids \ {sequence + 1} : rows'[i] = rows[i]
          /\ rows'[sequence + 1] # NoRow /\ rows'[sequence + 1].mac = call[x].mac
          /\ rows'[sequence + 1].meter = call[x].meter
      BY <1>3, <2>0, <2>2, RegisterInsertsDoes
    <3>2. call'[x].op # "register" \/ call'[x].at = "answered"
      BY <3>1, NoCallTyped DEF Answered
    <3>3. rows[sequence + 1] = NoRow
      BY <2>0 DEF RegistryInv, Known, DataTypes
    <3>4. ASSUME NEW b \in Board \ contested, b # call[x].mac PROVE Alone(b)' /\ BoardQuiet(b)
      <4>1. call'[x].op = "register" => call'[x].mac = call[x].mac
        BY <3>1, NoCallTyped DEF Answered, Asked
      <4>2. /\ \A i \in Ids : rows'[i] = rows[i] \/ rows'[i].mac = call[x].mac
            /\ \A i \in Ids : rows'[i] = rows[i] \/ rows[i] = NoRow \/ rows[i].mac = call[x].mac
        BY <3>1, <3>3
      <4> QED
        BY <1>0, <2>1, <3>4, <4>1, <4>2, ElsewhereNothing
    <3>5. ASSUME call[x].mac \in Board \ contested
          PROVE  /\ \A y \in Slot : ~(call'[y].op = "register" /\ call'[y].at # "answered"
                                      /\ call'[y].mac = call[x].mac)
                 /\ \A b : b = call[x].mac => Alone(b)' /\ BoardQuiet(b)
      <4>1. PICK b \in Board \ contested : b = call[x].mac
        BY <3>5
      <4>2. Registering(x, b)
        BY <1>0, <4>1
      <4> QED
        BY <2>1, <3>2, <4>1, <4>2, LastOne
    <3>6. ASSUME x \in Station, run[x].board \in Board \ contested PROVE Chosen(x)'
      <4>1. call'[x].id = sequence + 1 /\ run' = run
        BY <2>1, <3>1, <3>6, Slots DEF Answered, Handling
      <4> QED
        BY <1>0, <3>1, <3>5, <3>6, <4>1, RegisteredChoice
    <3> QED
      BY <2>1, <3>4, <3>5, <3>6, HandlerChoices
  <2>3. CASE \E i \in Ids : RowIsFor(i, call[x].mac)
    <3>1. rows' = rows /\ Asked(x)
      BY <1>3, <2>0, <2>3, RegisterInsertsDoes
    <3>2. call[x].mac \in contested
      BY <1>0, <2>1, <2>3 DEF MeterInv, Alone
    <3>3. ASSUME NEW b \in Board \ contested PROVE Alone(b)' /\ BoardQuiet(b)
      BY <1>0, <2>1, <3>1, <3>2, ElsewhereNothing DEF Asked
    <3> QED
      BY <1>0, <2>1, <3>2, <3>3, HandlerChoices
  <2> QED
    BY <2>2, <2>3
<1>4. CASE RegisterLooksAgain(x)
  <2>1. Handling(x) /\ rows' = rows /\ call[x].at = "again"
    BY <1>4, RegisterLooksAgainDoes
  <2>2. call'[x].op = "register" => call'[x].mac = call[x].mac
    BY <1>4, RegisterLooksAgainDoes, NoCallTyped DEF Answered, Asked
  <2>3. call[x].mac \in contested
    BY <1>0, <2>1 DEF MeterInv, Alone
  <2>4. ASSUME NEW b \in Board \ contested PROVE Alone(b)' /\ BoardQuiet(b)
    BY <1>0, <2>1, <2>2, <2>3, ElsewhereNothing
  <2> QED
    BY <1>0, <2>1, <2>3, <2>4, HandlerChoices
<1> QED
  BY <1>1, <1>2, <1>3, <1>4

LEMMA ApiMeterKept ==
  ASSUME DataTypes, CallInv, RunInv, SequenceInv, RegistryInv, MeterInv,
         NEW x \in Slot, Handle(x)
  PROVE  MeterInv'
<1>1. CASE BuildsPartition(x)
  <2>1. PICK image : image = FactoryImage(call[x].id, rows[call[x].id].meter, call[x].size)
    OBVIOUS
  <2>2. /\ call[x].op = "partition" /\ Handling(x) /\ rows' = rows
        /\ Answered(x, call[x].id, image)
    BY <1>1, <2>1, BuildsPartitionDoes
  <2>3. call'[x].op # "register" /\ \A y \in Slot \ {x} : call'[y] = call[y]
    BY <2>2, NoCallTyped DEF Answered, Asked, Handling
  <2>4. Unregistering /\ contested' = contested
    BY <2>2, <2>3, OneUnregisters DEF Handling
  <2>5. (\A b \in Board \ contested : Alone(b)') /\ (\A b \in Board : BoardQuiet(b))
    BY <2>2, <2>4, UnregisteringKeeps
  <2>6. ASSUME x \in Station, run[x].board \in Board \ contested PROVE Chosen(x)'
    <3>1. /\ Going(x, {"identity"}) /\ Past(x) /\ HasRow(x) /\ Chosen(x) /\ run' = run
          /\ call[x].id = run[x].device /\ latest' = latest
      BY <2>2, <2>6, CallSaysStep, RegistersFor DEF Past, Going, HasRow, MeterInv,
        Handling
    <3>2. call'[x].image = image
      BY <2>2, <2>6, Slots DEF Answered
    <3>3. call[x].id \in Ids /\ rows[call[x].id].meter \in Meter /\ call[x].size \in Sizes
      BY <2>2, RowIsTyped DEF CallInv, Sound, Known
    <3>4. image # Refused => HasMeter(image, rows[run[x].device].meter)
      BY <2>1, <3>1, <3>3, ImageIsRead
    <3>5. Past(x)' /\ ~Imaged(x)' /\ ~Wrote(x)' /\ ~Going(x, {"register"})'
      BY <3>1 DEF Past, Imaged, Wrote, Done, Going
    <3>6. CASE latest[run[x].board] = run[x].number /\ run[x].number # 0
      <4>1. /\ \A y \in Slot : ~(call'[y].op = "register" /\ call'[y].at # "answered"
                                 /\ call'[y].mac = run[x].board)
            /\ rows[run[x].device].meter = run[x].meter
        BY <2>3, <3>1, <3>6 DEF Chosen, Registering
      <4> QED
        BY <2>2, <3>1, <3>2, <3>4, <3>5, <4>1 DEF Chosen, Registering
    <3>7. CASE ~(latest[run[x].board] = run[x].number /\ run[x].number # 0)
      BY <3>1, <3>5, <3>7 DEF Chosen
    <3> QED
      BY <3>6, <3>7
  <2> QED
    BY <2>2, <2>5, <2>6, HandlerChoices
<1>2. CASE CountsFlash(x)
  <2>1. /\ call[x].op = "flashed" /\ call[x].at = "update" /\ Handling(x)
        /\ Answered(x, call[x].id, call[x].image)
        /\ rows'[call[x].id].mac = rows[call[x].id].mac
        /\ rows'[call[x].id].meter = rows[call[x].id].meter
        /\ \A i \in Ids \ {call[x].id} : rows'[i] = rows[i]
    BY <1>2, CountsFlashDoes
  <2>2. call[x].id \in Known
    BY <2>1 DEF CallInv, Sound
  <2>3. /\ \A i \in Ids : rows'[i].meter = rows[i].meter
        /\ \A i \in Ids : \A b : RowWillBeFor(i, b) => RowIsFor(i, b)
    BY <2>1, <2>2 DEF RowWillBeFor, RowIsFor, Known
  <2>4. \A y \in Slot : \A b : Registering(y, b)' => Registering(y, b) /\ call'[y].at = call[y].at
    BY <2>1, NoCallTyped DEF Registering, Handling, Answered, Asked
  <2>5. ASSUME NEW b \in Board \ contested PROVE Alone(b)' /\ BoardQuiet(b)
    <3>1. Alone(b)
      BY DEF MeterInv
    <3>2. BoardQuiet(b)
      BY <2>3, <2>4 DEF BoardQuiet, RowIsFor, Known
    <3> QED
      BY <2>3, <2>4, <3>1, <3>2, AloneStays
  <2>6. ASSUME x \in Station, run[x].board \in Board \ contested PROVE Chosen(x)'
    <3>1. Going(x, {"record"}) /\ Past(x) /\ Chosen(x) /\ run' = run /\ latest' = latest
      BY <2>1, <2>6, CallSaysStep DEF Past, Going, MeterInv, Handling
    <3>2. /\ Past(x)' /\ Imaged(x)' /\ Imaged(x) /\ Wrote(x) /\ HasRow(x)
          /\ ~Going(x, {"register"})' /\ ~Going(x, {"identity"})'
      BY <3>1 DEF Past, Imaged, Wrote, Done, Going, HasRow
    <3>3. run[x].device \in Ids
      BY <2>6, <3>1, RegistersFor DEF RowIsFor, Known
    <3>4. CASE latest[run[x].board] = run[x].number /\ run[x].number # 0
      <4>1. \A y \in Slot : ~(call'[y].op = "register" /\ call'[y].at # "answered"
                                 /\ call'[y].mac = run[x].board)
        BY <2>4, <3>1, <3>2, <3>4 DEF Chosen, Registering
      <4> QED
        BY <2>3, <3>1, <3>2, <3>3, <4>1 DEF Chosen, Registering
    <3>5. CASE ~(latest[run[x].board] = run[x].number /\ run[x].number # 0)
      BY <3>1, <3>2, <3>5 DEF Chosen
    <3> QED
      BY <3>4, <3>5
  <2> QED
    BY <2>1, <2>5, <2>6, HandlerChoices
<1> QED
  BY <1>1, <1>2, RegistrationMeterKept DEF Handle

LEMMA MeterKept ==
  ASSUME DataTypes, CallInv, RunInv, SequenceInv, RegistryInv, MeterInv,
         [Next]_vars
  PROVE  MeterInv'
<1>1. CASE UNCHANGED vars
  <2>1. UNCHANGED <<rows, run, call, latest, contested>>
    BY <1>1 DEF vars, registry, history
  <2>2. /\ \A o \in Board \ contested' : Alone(o)'
        /\ \A o \in Board : BoardQuiet(o)
    BY <2>1, NoneUnregisters, UnregisteringKeeps
  <2>3. ASSUME NEW t \in Station, run'[t].board \in Board \ contested' PROVE Chosen(t)'
    BY <2>1, <2>2, <2>3, ChosenStays DEF MeterInv
  <2> QED
    BY <2>2, <2>3 DEF MeterInv
<1> QED
  BY <1>1, OperatorMeterKept, StationMeterKept, ApiMeterKept DEF Next

----------------------------------------------------------------------------
(* Recorded flashes                                                         *)

Counts(c, i) == c.op = "flashed" /\ c.at = "update" /\ c.id = i

LEMMA CountingIs ==
  ASSUME NEW i
  PROVE  /\ Counting(i) = {x \in Slot : Counts(call[x], i)}
         /\ Counting(i)' = {x \in Slot : Counts(call'[x], i)}
BY DEF Counting, Counts

\* Fewer, or as many, are about to be counted.
LEMMA FewerCount ==
  ASSUME DataTypes, DataTypes', RecordInv, NEW i \in Known,
         rows'[i].flashes = rows[i].flashes, rows'[i].mac = rows[i].mac,
         IsFiniteSet(Counting(i)'), Cardinality(Counting(i)') <= Cardinality(Counting(i)),
         written'[rows[i].mac] >= written[rows[i].mac]
  PROVE  IsFiniteSet(Counting(i)') /\ rows'[i].flashes + Cardinality(Counting(i)') <= written'[rows'[i].mac]
<1>1. i \in Ids /\ rows[i] # NoRow
  BY DEF Known
<1>2. rows[i].mac \in Board /\ rows[i].flashes \in Nat
  BY <1>1, RowIsTyped
<1>3. written[rows[i].mac] \in Nat /\ written'[rows[i].mac] \in Nat
  BY <1>2 DEF DataTypes
<1>4. Cardinality(Counting(i)) \in Nat /\ Cardinality(Counting(i)') \in Nat
  BY FS_CardinalityType DEF RecordInv
<1>5. rows[i].flashes + Cardinality(Counting(i)) <= written[rows[i].mac]
  BY DEF RecordInv
<1> QED
  BY <1>2, <1>3, <1>4, <1>5

LEMMA SubsetCounts ==
  ASSUME RecordInv, NEW i \in Known, \A y \in Slot : Counts(call'[y], i) => Counts(call[y], i)
  PROVE  IsFiniteSet(Counting(i)') /\ Cardinality(Counting(i)') <= Cardinality(Counting(i))
<1>1. Counting(i)' \subseteq Counting(i)
  BY CountingIs
<1> QED
  BY <1>1, FS_Subset DEF RecordInv

\* No new request counts; rows and flashes written stay.
LEMMA NothingCounts ==
  ASSUME DataTypes, DataTypes', RecordInv, rows' = rows, written' = written,
         \A i \in Known, y \in Slot : Counts(call'[y], i) => Counts(call[y], i)
  PROVE  RecordInv'
<1>1. Known' = Known
  BY DEF Known
<1>2. ASSUME NEW i \in Known
      PROVE  /\ IsFiniteSet(Counting(i)')
             /\ rows'[i].flashes + Cardinality(Counting(i)') <= written'[rows'[i].mac]
  <2>1. written'[rows[i].mac] >= written[rows[i].mac]
    BY RowIsTyped DEF Known, DataTypes
  <2> QED
    BY <2>1, SubsetCounts, FewerCount
<1> QED
  BY <1>1, <1>2 DEF RecordInv

LEMMA NoCallCounts == \A i : ~Counts(NoCall, i)
BY NoCallTyped DEF Counts

LEMMA StationRecordKept ==
  ASSUME DataTypes, DataTypes', CallInv, RunInv, RecordInv, NEW s \in Station, Provision(s)
  PROVE  RecordInv'
<1>0. s \in Slot
  BY Slots
<1>1. ASSUME rows' = rows, written' = written, \A y \in Slot \ {s} : call'[y] = call[y],
             \A i \in Known : ~Counts(call'[s], i)
      PROVE  RecordInv'
  BY <1>1, NothingCounts
<1>2. CASE Registered(s)
  BY <1>0, <1>1, <1>2, RegisteredDoes DEF Quiet, Others, Counts
<1>3. CASE GotPartition(s)
  BY <1>0, <1>1, <1>3, GotPartitionDoes, NoCallCounts DEF Quiet, Others
<1>4. CASE Erase(s) \/ WriteFirmware(s) \/ WriteBreaks(s) \/ Reset(s) \/ PortLost(s)
  <2>1. UNCHANGED <<rows, call, written>>
    BY <1>4 DEF Erase, WriteFirmware, WriteBreaks, Reset, PortLost, registry, history
  <2> QED
    BY <2>1, NothingCounts
<1>5. CASE Recorded(s)
  BY <1>0, <1>1, <1>5, RecordedDoes, NoCallCounts DEF Quiet, CallBecomes
<1>6. CASE CallFails(s)
  BY <1>0, <1>1, <1>6, CallFailsDoes, NoCallCounts DEF Quiet, CallBecomes
<1>7. CASE GiveUp(s)
  <2>1. /\ call'[s] = NoCall /\ call'[GivenUp] = call[s]
        /\ \A y \in Slot \ {s, GivenUp} : call'[y] = call[y]
        /\ UNCHANGED <<rows, written>>
    BY <1>7, GiveUpDoes DEF Quiet
  <2>2. Known' = Known
    BY <2>1 DEF Known
  <2>3. ASSUME NEW i \in Known
        PROVE  /\ IsFiniteSet(Counting(i)')
               /\ rows'[i].flashes + Cardinality(Counting(i)') <= written'[rows'[i].mac]
    <3>1. IsFiniteSet(Counting(i)') /\ Cardinality(Counting(i)') <= Cardinality(Counting(i))
      <4>1. CASE Counts(call[s], i)
        <5>1. s \in Counting(i) /\ Counting(i)' \subseteq (Counting(i) \ {s}) \union {GivenUp}
          BY <1>0, <2>1, <4>1, CountingIs, NoCallCounts
        <5> QED
          BY <5>1, Swapped DEF RecordInv
      <4>2. CASE ~Counts(call[s], i)
        BY <2>1, <4>2, SubsetCounts, NoCallCounts
      <4> QED
        BY <4>1, <4>2
    <3>2. written'[rows[i].mac] >= written[rows[i].mac]
      BY <2>1, RowIsTyped DEF Known, DataTypes
    <3> QED
      BY <2>1, <3>1, <3>2, FewerCount
  <2> QED
    BY <2>2, <2>3 DEF RecordInv
<1>8. CASE WriteIdentity(s)
  <2>1. /\ Runs(s, "partition") /\ CallBecomes(s, call'[s])
        /\ call'[s].op = "flashed" /\ call'[s].at = "update" /\ call'[s].id = run[s].device
        /\ written'[run[s].board] = written[run[s].board] + 1
        /\ \A o \in Board \ {run[s].board} : written'[o] = written[o]
        /\ rows' = rows
    BY <1>8, WriteIdentityDoes DEF Quiet
  <2>2. RowIsFor(run[s].device, run[s].board)
    BY <2>1 DEF RunInv, Sure, Past, Going, Runs
  <2>3. Known' = Known
    BY <2>1 DEF Known
  <2>4. ASSUME NEW i \in Known
        PROVE  /\ IsFiniteSet(Counting(i)')
               /\ rows'[i].flashes + Cardinality(Counting(i)') <= written'[rows'[i].mac]
    <3>1. rows[i].mac \in Board /\ rows[i].flashes \in Nat
      BY RowIsTyped DEF Known
    <3>2. written[rows[i].mac] \in Nat /\ written'[rows[i].mac] \in Nat
      BY <3>1 DEF DataTypes
    <3>3. CASE i = run[s].device
      <4>1. Counting(i)' \subseteq Counting(i) \union {s}
        BY <2>1, CountingIs DEF CallBecomes
      <4>2. /\ IsFiniteSet(Counting(i)) /\ IsFiniteSet(Counting(i) \union {s})
            /\ Cardinality(Counting(i) \union {s}) <= Cardinality(Counting(i)) + 1
            /\ Cardinality(Counting(i)) \in Nat
        BY FS_AddElement, FS_CardinalityType DEF RecordInv
      <4>3. IsFiniteSet(Counting(i)') /\ Cardinality(Counting(i)') <= Cardinality(Counting(i) \union {s})
        BY <4>1, <4>2, FS_Subset
      <4>4. Cardinality(Counting(i)') \in Nat /\ Cardinality(Counting(i) \union {s}) \in Nat
        BY <4>2, <4>3, FS_CardinalityType
      <4>5. rows[i].flashes + Cardinality(Counting(i)) <= written[rows[i].mac]
        BY DEF RecordInv
      <4>6. written'[rows[i].mac] = written[rows[i].mac] + 1
        BY <2>1, <2>2, <3>3 DEF RowIsFor
      <4> QED
        BY <2>1, <3>1, <3>2, <4>2, <4>3, <4>4, <4>5, <4>6
    <3>4. CASE i # run[s].device
      <4>1. IsFiniteSet(Counting(i)') /\ Cardinality(Counting(i)') <= Cardinality(Counting(i))
        <5>1. \A y \in Slot : Counts(call'[y], i) => Counts(call[y], i)
          BY <2>1, <3>4 DEF CallBecomes, Counts
        <5> QED
          BY <5>1, SubsetCounts
      <4>2. written'[rows[i].mac] >= written[rows[i].mac]
        BY <2>1, <3>1, <3>2
      <4> QED
        BY <2>1, <4>1, <4>2, FewerCount
    <3> QED
      BY <3>3, <3>4
  <2> QED
    BY <2>3, <2>4 DEF RecordInv
<1> QED
  BY <1>2, <1>3, <1>4, <1>5, <1>6, <1>7, <1>8 DEF Provision

LEMMA ApiRecordKept ==
  ASSUME DataTypes, DataTypes', CallInv, SequenceInv, RegistryInv, RecordInv, NEW x \in Slot, Handle(x)
  PROVE  RecordInv'
<1>1. CASE RegisterLooks(x) \/ RegisterLooksAgain(x) \/ BuildsPartition(x)
  <2>1. /\ Handling(x) /\ rows' = rows
        /\ Asked(x) \/ call'[x] = NoCall
        /\ call[x].op # "flashed"
    BY <1>1, RegisterLooksDoes, RegisterLooksAgainDoes, BuildsPartitionDoes DEF Answered
  <2>2. \A i : ~Counts(call'[x], i)
    BY <2>1, NoCallCounts DEF Asked, Counts
  <2> QED
    BY <2>1, <2>2, NothingCounts DEF Handling
<1>2. CASE RegisterUpdates(x)
  <2>1. /\ call[x].op = "register" /\ call[x].at = "update" /\ Handling(x)
        /\ Answered(x, call[x].id, call[x].image)
        /\ rows'[call[x].id].mac = rows[call[x].id].mac /\ rows'[call[x].id] # NoRow
        /\ rows'[call[x].id].flashes = rows[call[x].id].flashes
        /\ \A i \in Ids \ {call[x].id} : rows'[i] = rows[i]
    BY <1>2, RegisterUpdatesDoes
  <2>2. call[x].id \in Known
    BY <2>1 DEF CallInv, Sound, RowIsFor
  <2>3. Known' = Known
    BY <2>1, <2>2 DEF Known
  <2>4. \A i : ~Counts(call'[x], i)
    BY <2>1, NoCallCounts DEF Answered, Asked, Counts
  <2>5. ASSUME NEW i \in Known
        PROVE  /\ IsFiniteSet(Counting(i)')
               /\ rows'[i].flashes + Cardinality(Counting(i)') <= written'[rows'[i].mac]
    <3>1. IsFiniteSet(Counting(i)') /\ Cardinality(Counting(i)') <= Cardinality(Counting(i))
      BY <2>1, <2>4, SubsetCounts DEF Handling
    <3>2. written'[rows[i].mac] >= written[rows[i].mac]
      BY <2>1, RowIsTyped DEF Known, DataTypes, Handling
    <3>3. rows'[i].flashes = rows[i].flashes /\ rows'[i].mac = rows[i].mac
      BY <2>1 DEF Known
    <3> QED
      BY <3>1, <3>2, <3>3, FewerCount
  <2> QED
    BY <2>3, <2>5 DEF RecordInv
<1>3. CASE CountsFlash(x)
  <2>1. /\ call[x].op = "flashed" /\ call[x].at = "update" /\ Handling(x)
        /\ Answered(x, call[x].id, call[x].image)
        /\ rows'[call[x].id].mac = rows[call[x].id].mac /\ rows'[call[x].id] # NoRow
        /\ rows'[call[x].id].flashes = rows[call[x].id].flashes + 1
        /\ \A i \in Ids \ {call[x].id} : rows'[i] = rows[i]
    BY <1>3, CountsFlashDoes
  <2>2. call[x].id \in Known
    BY <2>1 DEF CallInv, Sound
  <2>3. Known' = Known
    BY <2>1, <2>2 DEF Known
  <2>4. \A i : ~Counts(call'[x], i)
    BY <2>1, NoCallCounts DEF Answered, Asked, Counts
  <2>5. ASSUME NEW i \in Known
        PROVE  /\ IsFiniteSet(Counting(i)')
               /\ rows'[i].flashes + Cardinality(Counting(i)') <= written'[rows'[i].mac]
    <3>1. CASE i # call[x].id
      <4>1. IsFiniteSet(Counting(i)') /\ Cardinality(Counting(i)') <= Cardinality(Counting(i))
        BY <2>1, <2>4, SubsetCounts DEF Handling
      <4>2. written'[rows[i].mac] >= written[rows[i].mac]
        BY <2>1, RowIsTyped DEF Known, DataTypes, Handling
      <4>3. rows'[i].flashes = rows[i].flashes /\ rows'[i].mac = rows[i].mac
        BY <2>1, <3>1 DEF Known
      <4> QED
        BY <4>1, <4>2, <4>3, FewerCount
    <3>2. CASE i = call[x].id
      <4>1. x \in Counting(i) /\ Counting(i)' \subseteq Counting(i) \ {x}
        BY <2>1, <2>4, <3>2, CountingIs DEF Handling, Counts
      <4>2. /\ IsFiniteSet(Counting(i)) /\ IsFiniteSet(Counting(i) \ {x})
            /\ Cardinality(Counting(i) \ {x}) = Cardinality(Counting(i)) - 1
            /\ Cardinality(Counting(i)) \in Nat
        BY <4>1, FS_RemoveElement, FS_CardinalityType DEF RecordInv
      <4>3. IsFiniteSet(Counting(i)') /\ Cardinality(Counting(i)') <= Cardinality(Counting(i) \ {x})
        BY <4>1, <4>2, FS_Subset
      <4>4. Cardinality(Counting(i)') \in Nat
        BY <4>3, FS_CardinalityType
      <4>5. rows[i].mac \in Board /\ rows[i].flashes \in Nat
        BY RowIsTyped DEF Known
      <4>6. written[rows[i].mac] \in Nat /\ written' = written
        BY <2>1, <4>5 DEF DataTypes, Handling
      <4>7. rows[i].flashes + Cardinality(Counting(i)) <= written[rows[i].mac]
        BY DEF RecordInv
      <4> QED
        BY <2>1, <3>2, <4>2, <4>3, <4>4, <4>5, <4>6, <4>7
    <3> QED
      BY <3>1, <3>2
  <2> QED
    BY <2>3, <2>5 DEF RecordInv
<1>4. CASE RegisterInserts(x)
  <2>0. sequence + 1 \in Ids
    BY <1>4, NumberLeft DEF RegisterInserts
  <2>1. call[x].op = "register" /\ call[x].at = "insert" /\ Handling(x)
    BY <1>4, <2>0, RegisterInsertsDoes
  <2>2. CASE \E i \in Ids : RowIsFor(i, call[x].mac)
    <3>1. rows' = rows /\ Asked(x)
      BY <1>4, <2>0, <2>2, RegisterInsertsDoes
    <3>2. \A i : ~Counts(call'[x], i)
      BY <2>1, <3>1 DEF Asked, Counts
    <3> QED
      BY <2>1, <3>1, <3>2, NothingCounts DEF Handling
  <2>3. CASE ~\E i \in Ids : RowIsFor(i, call[x].mac)
    <3>1. /\ Answered(x, sequence + 1, call[x].image)
          /\ \A i \in Ids \ {sequence + 1} : rows'[i] = rows[i]
          /\ rows'[sequence + 1] # NoRow /\ rows'[sequence + 1].mac = call[x].mac
          /\ rows'[sequence + 1].flashes = 0
      BY <1>4, <2>0, <2>3, RegisterInsertsDoes
    <3>2. sequence + 1 \notin Known
      BY DEF RegistryInv, DataTypes
    <3>3. Known' = Known \union {sequence + 1}
      BY <2>0, <3>1 DEF Known
    <3>4. \A i : ~Counts(call'[x], i)
      BY <2>1, <3>1, NoCallCounts DEF Answered, Asked, Counts
    <3>5. ASSUME NEW i \in Known
          PROVE  /\ IsFiniteSet(Counting(i)')
                 /\ rows'[i].flashes + Cardinality(Counting(i)') <= written'[rows'[i].mac]
      <4>1. IsFiniteSet(Counting(i)') /\ Cardinality(Counting(i)') <= Cardinality(Counting(i))
        BY <2>1, <3>4, SubsetCounts DEF Handling
      <4>2. written'[rows[i].mac] >= written[rows[i].mac]
        BY <2>1, RowIsTyped DEF Known, DataTypes, Handling
      <4>3. rows'[i] = rows[i]
        BY <3>1, <3>2 DEF Known
      <4> QED
        BY <4>1, <4>2, <4>3, FewerCount
    <3>6. ASSUME NEW i, i = sequence + 1
          PROVE  /\ IsFiniteSet(Counting(i)')
                 /\ rows'[i].flashes + Cardinality(Counting(i)') <= written'[rows'[i].mac]
      <4>1. Counting(i)' = {}
        BY <2>1, <3>2, <3>4, <3>6, CountingIs DEF Handling, Counts, CallInv, Sound
      <4>2. IsFiniteSet(Counting(i)') /\ Cardinality(Counting(i)') = 0
        BY <4>1, FS_EmptySet
      <4>3. call[x].mac \in Board
        BY <2>1 DEF CallInv, Sound
      <4>4. written'[call[x].mac] \in Nat
        BY <4>3 DEF DataTypes
      <4> QED
        BY <3>1, <3>6, <4>2, <4>4
    <3> QED
      BY <3>3, <3>5, <3>6 DEF RecordInv
  <2> QED
    BY <2>2, <2>3
<1> QED
  BY <1>1, <1>2, <1>3, <1>4 DEF Handle

LEMMA RecordKept ==
  ASSUME DataTypes, DataTypes', CallInv, RunInv, SequenceInv, RegistryInv, RecordInv, [Next]_vars
  PROVE  RecordInv'
<1>1. CASE UNCHANGED vars
  BY <1>1, NothingCounts DEF vars, registry, history
<1>2. ASSUME NEW s \in Station, NEW b \in Board, NEW m \in Meter, Started(s, b, m)
      PROVE  RecordInv'
  <2>1. /\ UNCHANGED <<rows, written>> /\ Others(s)
        /\ call' = call \/ call'[s].op = "register"
    BY <1>2 DEF Started
  <2>2. \A i \in Known, y \in Slot : Counts(call'[y], i) => Counts(call[y], i)
    BY <2>1 DEF Others, Counts
  <2> QED
    BY <2>1, <2>2, NothingCounts
<1>3. CASE Operator
  <2>1. CASE UNCHANGED <<rows, call, written>>
    BY <2>1, NothingCounts
  <2> QED
    BY <1>2, <1>3, <2>1, StartDoes, Zenon
       DEF Operator, Plug, Unplug, ConnectFails, registry, history
<1> QED
  BY <1>1, <1>3, StationRecordKept, ApiRecordKept DEF Next

----------------------------------------------------------------------------
(* The theorems                                                             *)

LEMMA IInvAtStart == Init => IInv
<1> SUFFICES ASSUME Init PROVE IInv
  OBVIOUS
<1>1. /\ MaxRuns \in Nat /\ 0 \in 0..MaxRuns /\ 0 \in 0..MaxGivenUp
  <2>1. MaxRuns \in Nat
    BY FactoryAssumption
  <2>2. MaxGivenUp \in {0, 1}
    BY FactoryAssumption
  <2> QED
    BY <2>1, <2>2
<1>2. DataTypes
  <2>1. [firmware |-> Blank, identity |-> Blank, run |-> 0] \in FlashSet
    BY DEF FlashSet
  <2>2. NoRow \in Rows
    BY DEF Rows
  <2> QED
    BY <1>1, <2>1, <2>2, NoCallTyped, IdleTyped DEF Init, DataTypes
<1>3. Known = {} /\ sequence = 0 /\ runs = 0
  BY DEF Init, Known
<1>4. RegistryInv
  BY <1>3 DEF RegistryInv
<1>5. /\ \A x \in Slot : call[x] = NoCall
      /\ \A s \in Station : run[s] = Idle
  BY DEF Init
<1>6. SequenceInv
  <2>1. Asking = {}
    BY <1>5, NoCallTyped DEF Asking
  <2> QED
    BY <1>3, <2>1, FS_EmptySet DEF SequenceInv
<1>7. CallInv
  BY <1>5, Slots, NoCallTyped DEF CallInv, Sound
<1>8. \A s \in Station : ~Past(s) /\ ~Imaged(s) /\ ~Wrote(s) /\ ~Done(s) /\ \A steps : ~Going(s, steps)
  BY <1>5, IdleTyped DEF Past, Imaged, Wrote, Done, Going
<1>9. RunInv
  BY <1>3, <1>5, <1>8, Slots, IdleTyped DEF RunInv, Waits, Sure
<1>10. FlashInv
  <2>1. \A b \in Board : flash[b].run = 0 /\ flash[b].identity = Blank
    BY DEF Init
  <2> QED
    BY <1>3, <1>8, <2>1 DEF FlashInv, OwnIdentity, Holds, Whole
<1>11. MeterInv
  <2>1. \A x \in Slot : \A b : ~Registering(x, b)
    BY <1>5, NoCallTyped DEF Registering
  <2> QED
    BY <1>5, <1>8, <2>1, IdleTyped DEF MeterInv, Alone, Chosen
<1>12. RecordInv
  BY <1>3 DEF RecordInv
<1> QED
  BY <1>2, <1>4, <1>6, <1>7, <1>9, <1>10, <1>11, <1>12 DEF IInv

\* What the theorems below follow from, whatever an image reads back as.
THEOREM InvariantHolds == Spec => []IInv
<1>1. Init => IInv
  BY IInvAtStart
<1>2. IInv /\ [Next]_vars => IInv'
  <2> SUFFICES ASSUME IInv, [Next]_vars PROVE IInv'
    OBVIOUS
  <2> USE DEF IInv
  <2>1. DataTypes'
    BY TypesKept
  <2>2. RowsGrow
    BY RowsGrowAlways
  <2>3. RegistryInv' /\ MeterInv'
    BY RegistryKept, MeterKept
  <2>4. SequenceInv' /\ CallInv' /\ RunInv' /\ FlashInv' /\ RecordInv'
    BY <2>1, <2>2, SequenceKept, CallsKept, RunsKept, FlashKept, RecordKept
  <2> QED
    BY <2>1, <2>3, <2>4
<1> QED
  BY <1>1, <1>2, PTL DEF Spec

LEMMA TypesPromised == IInv => TypeOK
<1> SUFFICES ASSUME IInv PROVE TypeOK
  OBVIOUS
<1>1. rows \in [Ids -> Row \union {NoRow}]
  BY DEF IInv, DataTypes, Rows, Row
<1>2. sequence \in 0..(2 * MaxRuns)
  <2>1. IsFiniteSet(Asking) /\ sequence + Cardinality(Asking) <= runs
    BY DEF IInv, SequenceInv
  <2>2. Cardinality(Asking) \in Nat
    BY <2>1, FS_CardinalityType
  <2>3. MaxRuns \in Nat
    BY FactoryAssumption
  <2>4. sequence \in Nat /\ runs \in 0..MaxRuns
    BY DEF IInv, DataTypes
  <2> QED
    BY <2>1, <2>2, <2>3, <2>4
<1>3. ASSUME NEW s \in Station
      PROVE  /\ run[s].state \in {"idle", "running", "done", "failed"}
             /\ run[s].device \in Ids \union {0}
             /\ run[s].linked => run[s].state = "running" /\ plugged[run[s].board] = s
  <2>1. run[s] \in RunSet
    BY RunTyped DEF IInv
  <2> QED
    BY <2>1 DEF RunSet, MaybeId, IInv, RunInv, Sure
<1>4. \A b \in Board : flash[b].run \in 0..runs
  <2>1. \A b \in Board : flash[b].run \in Nat /\ flash[b].run <= runs
    BY DEF IInv, DataTypes, FlashSet, FlashInv
  <2>2. runs \in Nat
    BY DEF IInv, DataTypes
  <2> QED
    BY <2>1, <2>2
<1> QED
  BY <1>1, <1>2, <1>3, <1>4 DEF TypeOK, IInv, CallInv, DataTypes

\* The state is always of its type, and a port that is open leads to the board of
\* its run.
THEOREM TypeCorrect == Spec => []TypeOK
BY TypesPromised, InvariantHolds, PTL

\* A board is registered once, and no flash ever holds another board's identity.
THEOREM OneIdentityPerBoard ==
  ASSUME ImagesAreReadBack
  PROVE  Spec => []IdentityIsTheBoards
<1>1. IInv => IdentityIsTheBoards
  <2> SUFFICES ASSUME IInv PROVE IdentityIsTheBoards
    OBVIOUS
  <2>1. \A b \in Board : Whole(flash[b].identity) => rows[IdentityOf(flash[b].identity)].mac = b
    BY DEF IInv, FlashInv, OwnIdentity, RowIsFor
  <2>2. \A i, j \in Known : rows[i].mac = rows[j].mac => i = j
    BY DEF IInv, RegistryInv
  <2> QED
    BY <2>1, <2>2, TypesPromised DEF IdentityIsTheBoards
<1> QED
  BY <1>1, InvariantHolds, PTL

\* The registry counts no flash that was not written and verified, and none twice.
THEOREM CountedFlashesWereMade == Spec => []RecordedWasVerified
<1>1. IInv => RecordedWasVerified
  <2> SUFFICES ASSUME IInv, NEW i \in Known
               PROVE  rows[i].flashes <= written[rows[i].mac]
    BY DEF RecordedWasVerified
  <2>1. rows[i].mac \in Board /\ rows[i].flashes \in Nat
    BY RowIsTyped DEF IInv, Known
  <2>2. written[rows[i].mac] \in Nat
    BY <2>1 DEF IInv, DataTypes
  <2>3. /\ IsFiniteSet(Counting(i))
        /\ rows[i].flashes + Cardinality(Counting(i)) <= written[rows[i].mac]
    BY DEF IInv, RecordInv
  <2>4. Cardinality(Counting(i)) \in Nat
    BY <2>3, FS_CardinalityType
  <2> QED
    BY <2>1, <2>2, <2>3, <2>4
<1> QED
  BY <1>1, InvariantHolds, PTL

\* Numbers of the sequence are burnt only by two registrations of a board at once.
THEOREM SequenceIsTight == Spec => []NumbersAreNotBurnt
<1>1. IInv => NumbersAreNotBurnt
  <2> SUFFICES ASSUME IInv, contested = {}
               PROVE  sequence = Cardinality(Known)
    BY DEF NumbersAreNotBurnt
  <2>1. Known = 1..sequence /\ sequence \in Nat
    BY DEF IInv, RegistryInv, DataTypes
  <2>2. Cardinality(1..sequence) = IF 1 > sequence THEN 0 ELSE sequence - 1 + 1
    BY <2>1, FS_Interval
  <2> QED
    BY <2>1, <2>2
<1> QED
  BY <1>1, InvariantHolds, PTL

\* A unit that is done is what its label says, until another run writes to it, and
\* the registry knows it, until another run starts on it.
THEOREM LabelledUnitsAreRight ==
  ASSUME ImagesAreReadBack
  PROVE  Spec => []DoneUnitIsRight
<1>1. IInv => DoneUnitIsRight
  <2> SUFFICES ASSUME IInv, NEW s \in Station, run[s].state = "done"
               PROVE  LET r == run[s]
                          f == flash[r.board]
                          row == rows[r.device]
                      IN  /\ latest[r.board] = r.number /\ r.board \notin contested =>
                               row.meter = MeterOf(f.identity) /\ row.flashes > 0
                          /\ f.run = r.number =>
                               /\ f.firmware = firmware[s]
                               /\ ReadsAs(f.identity, r.device)
                               /\ r.board \notin contested => MeterOf(f.identity) = r.meter
    BY DEF DoneUnitIsRight
  <2>1. Done(s) /\ Wrote(s) /\ Imaged(s) /\ Past(s)
    BY DEF Done, Wrote, Imaged, Past
  <2>2. /\ Sure(s) /\ Holds(s)
    BY DEF IInv, RunInv, FlashInv
  <2>3. run[s].board \in Board /\ run[s].number > 0
    BY <2>1, HolderIsOnBoard DEF IInv
  <2>4. run[s].number # 0
    BY <2>3, RunTyped DEF IInv
  <2>5. ReadsAs(run[s].image, run[s].device) /\ rows[run[s].device].flashes > 0
    BY <2>1, <2>2 DEF Sure, ReadBack
  <2>6. ASSUME run[s].board \notin contested
        PROVE  /\ MeterOf(run[s].image) = run[s].meter
               /\ latest[run[s].board] = run[s].number => rows[run[s].device].meter = run[s].meter
    <3>1. Chosen(s)
      BY <2>3, <2>6 DEF IInv, MeterInv
    <3> QED
      BY <2>1, <2>4, <3>1 DEF Chosen, HasMeter
  <2>7. flash[run[s].board].run = run[s].number =>
          /\ flash[run[s].board].firmware = firmware[s]
          /\ flash[run[s].board].identity = run[s].image
    BY <2>1, <2>2 DEF Holds
  <2>8. latest[run[s].board] = run[s].number => flash[run[s].board].run = run[s].number
    BY <2>1, <2>2 DEF Holds
  <2> QED
    BY <2>5, <2>6, <2>7, <2>8
<1> QED
  BY <1>1, InvariantHolds, PTL
=============================================================================
