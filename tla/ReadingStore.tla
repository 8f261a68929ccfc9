----------------------------- MODULE ReadingStore -----------------------------
(***************************************************************************)
(* What becomes of a meter reading: the telemetry service buffers rows and *)
(* inserts them in batches, and a database job rolls the stored readings   *)
(* up into closed 15-minute buckets, from a watermark on.                  *)
(*                                                                         *)
(* The service is one process: a handler runs between two awaits, so the   *)
(* buffer moves while an insertion is under way.  An insertion can fail,   *)
(* before or after the database committed it, and the process can stop or  *)
(* die with rows in memory.  The job runs at any time, on what the table   *)
(* holds by then.                                                          *)
(*                                                                         *)
(* Rows are numbered as they arrive.  The rows of all devices go through   *)
(* one writer and one watermark, so devices are not told apart.            *)
(***************************************************************************)
EXTENDS Integers, Sequences, FiniteSets, FiniteSetsExt, Functions

CONSTANTS
  MaxRows,      \* maxRows: rows waiting that trigger a flush
  MaxBuffered,  \* maxBuffered: rows kept after a failed write
  MaxArrivals,  \* bound: rows that arrive
  MaxBucket,    \* bound: the last bucket of the clock
  MaxFaults     \* bound: insertions that fail and processes that end

ASSUME ConstantsAssumption ==
  /\ MaxRows \in Nat \ {0}
  /\ MaxBuffered \in Nat
  /\ MaxArrivals \in Nat
  /\ MaxBucket \in Nat
  /\ MaxFaults \in Nat

VARIABLES
  now,         \* the open bucket, on the clock of service and database
  arrived,     \* history: kind and bucket of every row
  up,          \* whether the service runs
  exitAfter,   \* shutting down: 1 + the flushes to begin before exiting, else 0
  readings,    \* BatchWriter.readings
  events,      \* BatchWriter.events
  timer,       \* whether a flush is scheduled
  flushes,     \* flushing: flushes chained and not yet begun
  write,       \* the flush in progress: what it awaits and the rows it took
  stored,      \* the tables meter_readings and device_events, in insertion order
  buckets,     \* meter_readings_15m: the readings each bucket's row was made from
  dropped,     \* history: readings given up for lack of room
  lost,        \* history: rows that were in memory when the process ended
  faults       \* how many faults struck so far

buffer == <<readings, events, timer, flushes, write>>
history == <<arrived, dropped, lost>>
vars == <<now, up, exitAfter, buffer, stored, buckets, history, faults>>

----------------------------------------------------------------------------
Row == 1..MaxArrivals

Bucket == 0..MaxBucket

IsReading(n) == arrived[n].kind = "reading"

NoWrite == [step |-> "idle", readings |-> <<>>, events |-> <<>>]

\* The rows the insertion in progress is to insert.
Batch == IF write.step = "readings" THEN write.readings ELSE write.events

Pending == Len(readings) + Len(events)

InMemory ==
  Range(readings) \cup Range(events)
    \cup (IF write.step = "idle" THEN {} ELSE Range(write.readings) \cup Range(write.events))

Strike == faults < MaxFaults /\ faults' = faults + 1

Init ==
  /\ now = 0
  /\ arrived = <<>>
  /\ up = TRUE
  /\ exitAfter = 0
  /\ readings = <<>>
  /\ events = <<>>
  /\ timer = FALSE
  /\ flushes = 0
  /\ write = NoWrite
  /\ stored = <<>>
  /\ buckets = [b \in Bucket |-> {}]
  /\ dropped = {}
  /\ lost = {}
  /\ faults = 0

\* A bucket closes.
Tick ==
  /\ now < MaxBucket
  /\ now' = now + 1
  /\ UNCHANGED <<up, exitAfter, buffer, stored, buckets, history, faults>>

(***************************************************************************)
(* BatchWriter                                                              *)
(***************************************************************************)

Flush == timer' = FALSE /\ flushes' = flushes + 1

\* addReading, addEvent: a full batch is flushed, another waits for its timer.
Add(kind) ==
  /\ up
  /\ exitAfter = 0
  /\ Len(arrived) < MaxArrivals
  /\ arrived' = Append(arrived, [kind |-> kind, bucket |-> now])
  /\ readings' = IF kind = "reading" THEN Append(readings, Len(arrived')) ELSE readings
  /\ events' = IF kind = "event" THEN Append(events, Len(arrived')) ELSE events
  /\ IF Pending + 1 >= MaxRows THEN Flush ELSE timer' = TRUE /\ UNCHANGED flushes
  /\ UNCHANGED <<now, up, exitAfter, write, stored, buckets, dropped, lost, faults>>

TimerFires ==
  /\ timer
  /\ Flush
  /\ UNCHANGED <<now, up, exitAfter, readings, events, write, stored, buckets, history, faults>>

\* A flush takes everything that waits; with nothing to take it is done.
BeginWrite ==
  /\ flushes > 0
  /\ write = NoWrite
  /\ flushes' = flushes - 1
  /\ write' = IF Pending = 0 THEN NoWrite
              ELSE [step |-> IF readings # <<>> THEN "readings" ELSE "events",
                    readings |-> readings, events |-> events]
  /\ readings' = <<>>
  /\ events' = <<>>
  /\ exitAfter' = IF exitAfter > 1 THEN exitAfter - 1 ELSE exitAfter
  /\ UNCHANGED <<now, up, timer, stored, buckets, history, faults>>

\* One insertion, atomic in the database; the events follow the readings.
Insert ==
  /\ write.step # "idle"
  /\ stored' = stored \o Batch
  /\ write' = IF write.step = "readings" /\ write.events # <<>>
                THEN [write EXCEPT !.step = "events"] ELSE NoWrite
  /\ UNCHANGED <<now, up, exitAfter, readings, events, timer, flushes, buckets, history, faults>>

\* MUTANT of PutBack: the newest readings go.
PutBack_KeepsTheOldest ==
  LET all == write.readings \o readings
      waiting == Len(all) + Len(events) + Len(write.events)
      overflow == IF waiting > MaxBuffered THEN waiting - MaxBuffered ELSE 0
      n == IF overflow < Len(all) THEN overflow ELSE Len(all)
  IN /\ readings' = SubSeq(all, 1, Len(all) - n)
     /\ events' = write.events \o events
     /\ dropped' = dropped \cup Range(SubSeq(all, Len(all) - n + 1, Len(all)))
     /\ timer' = TRUE

\* MUTANT of PutBack: nobody schedules the next attempt.
PutBack_Unscheduled ==
  LET all == write.readings \o readings
      waiting == Len(all) + Len(events) + Len(write.events)
      overflow == IF waiting > MaxBuffered THEN waiting - MaxBuffered ELSE 0
      n == IF overflow < Len(all) THEN overflow ELSE Len(all)
  IN /\ readings' = SubSeq(all, n + 1, Len(all))
     /\ events' = write.events \o events
     /\ dropped' = dropped \cup Range(SubSeq(all, 1, n))
     /\ UNCHANGED timer

\* The whole batch goes back to the front, and the oldest readings go if it is too
\* much: even those that the insertion before the failed one has stored.
PutBack ==
  LET all == write.readings \o readings
      waiting == Len(all) + Len(events) + Len(write.events)
      overflow == IF waiting > MaxBuffered THEN waiting - MaxBuffered ELSE 0
      n == IF overflow < Len(all) THEN overflow ELSE Len(all)
  IN /\ readings' = SubSeq(all, n + 1, Len(all))
     /\ events' = write.events \o events
     /\ dropped' = dropped \cup Range(SubSeq(all, 1, n))
     /\ timer' = TRUE

\* An insertion fails, perhaps after the database has committed it.
InsertFails(committed) ==
  /\ write.step # "idle"
  /\ Strike
  /\ stored' = IF committed THEN stored \o Batch ELSE stored
  /\ PutBack
  /\ write' = NoWrite
  /\ UNCHANGED <<now, up, exitAfter, flushes, buckets, arrived, lost>>

(***************************************************************************)
(* The process                                                              *)
(***************************************************************************)

\* MUTANT of Shutdown: exits as soon as the flush in progress is done.
Shutdown_NoFlush ==
  /\ up
  /\ exitAfter = 0
  /\ exitAfter' = 1
  /\ UNCHANGED <<now, up, buffer, stored, buckets, history, faults>>

\* SIGTERM: no more messages, one more flush, exit.
Shutdown ==
  /\ up
  /\ exitAfter = 0
  /\ exitAfter' = flushes + 2
  /\ Flush
  /\ UNCHANGED <<now, up, readings, events, write, stored, buckets, history, faults>>

Ends ==
  /\ up' = FALSE
  /\ exitAfter' = 0
  /\ readings' = <<>>
  /\ events' = <<>>
  /\ timer' = FALSE
  /\ flushes' = 0
  /\ write' = NoWrite
  /\ lost' = lost \cup (InMemory \ Range(stored'))
  /\ UNCHANGED <<now, buckets, arrived, dropped>>

Exit ==
  /\ exitAfter = 1
  /\ write = NoWrite
  /\ UNCHANGED <<stored, faults>>
  /\ Ends

Crash(committed) ==
  /\ up
  /\ Strike
  /\ stored' = IF committed THEN stored \o Batch ELSE stored
  /\ Ends

Restart ==
  /\ ~up
  /\ up' = TRUE
  /\ UNCHANGED <<now, exitAfter, buffer, stored, buckets, history, faults>>

(***************************************************************************)
(* The aggregation job                                                      *)
(***************************************************************************)

Filled == {b \in Bucket : buckets[b] # {}}

StoredReadings(b) ==
  {n \in Range(stored) : IsReading(n) /\ arrived[n].bucket = b}

\* MUTANT of WindowStart: a run goes on after the newest bucket.
WindowStart_After ==
  IF Filled # {} THEN Max(Filled) + 1
  ELSE Min({b \in Bucket : StoredReadings(b) # {}} \cup {now})

\* One bucket before the newest one, or the oldest reading to begin with.
WindowStart ==
  IF Filled # {} THEN IF Max(Filled) = 0 THEN 0 ELSE Max(Filled) - 1
  ELSE Min({b \in Bucket : StoredReadings(b) # {}} \cup {now})

\* The closed buckets of the window are made again from the stored readings.
Aggregate ==
  /\ LET window == {b \in WindowStart..(now - 1) : StoredReadings(b) # {}}
     IN buckets' = [b \in Bucket |-> IF b \in window THEN StoredReadings(b) ELSE buckets[b]]
  /\ UNCHANGED <<now, up, exitAfter, buffer, stored, history, faults>>

----------------------------------------------------------------------------
Writer == TimerFires \/ BeginWrite \/ Insert \/ Exit

Process ==
  \/ Shutdown \/ Restart
  \/ \E committed \in BOOLEAN : Crash(committed)

Next ==
  \/ Tick
  \/ \E kind \in {"reading", "event"} : Add(kind)
  \/ Writer
  \/ \E committed \in BOOLEAN : InsertFails(committed)
  \/ Process
  \/ Aggregate

Spec == Init /\ [][Next]_vars

\* Timers go off, insertions are answered, and the job is run.
FairSpec == Spec /\ WF_vars(Writer) /\ WF_vars(Aggregate)

----------------------------------------------------------------------------
(* Properties                                                               *)

\* An insertion in progress has rows to insert: the database client throws otherwise.
TypeOK ==
  /\ now \in Bucket
  /\ arrived \in Seq([kind : {"reading", "event"}, bucket : Bucket])
  /\ up \in BOOLEAN
  /\ exitAfter \in Nat
  /\ readings \in Seq(Row)
  /\ events \in Seq(Row)
  /\ timer \in BOOLEAN
  /\ flushes \in Nat
  /\ write \in [step : {"idle", "readings", "events"}, readings : Seq(Row), events : Seq(Row)]
  /\ stored \in Seq(Row)
  /\ buckets \in [Bucket -> SUBSET Row]
  /\ dropped \subseteq Row
  /\ lost \subseteq Row
  /\ faults \in Nat
  /\ write.step # "idle" => Batch # <<>>

\* The rows that are kept rather than reading d.
Preferred(d) == {n \in DOMAIN arrived : n > d \/ ~IsReading(n)}

\* Rows are "written in arrival order", whatever failed and was put back: a row is
\* stored only after every earlier one of its kind that is ever going to be.  A state
\* change is lost with the process or not at all.  Readings are given up for lack of
\* room only, "oldest first": none that is kept is older than one given up, and there
\* were maxBuffered rows to keep instead of it.
WrittenInOrder ==
  /\ TypeOK
  /\ \A i \in DOMAIN stored : \A m \in 1..(stored[i] - 1) :
       arrived[m].kind = arrived[stored[i]].kind
         => m \in Range(SubSeq(stored, 1, i - 1)) \cup dropped \cup lost
  /\ \A n \in DOMAIN arrived :
       ~IsReading(n) => n \in InMemory \cup Range(stored) \cup lost
  /\ \A d \in dropped :
       /\ \A n \in InMemory : n \in Preferred(d)
       /\ MaxBuffered <= Cardinality(Preferred(d))

\* As long as no insertion fails and nobody kills the process, no row is dropped,
\* lost, or stored twice, even across an orderly restart.
ExactlyOnceWithoutFaults ==
  faults = 0 =>
    /\ DOMAIN arrived \subseteq InMemory \cup Range(stored)
    /\ IsInjective(stored)

\* "Nothing is ever left out": a bucket no later run will look at again was made
\* from every reading of its time that the service did not drop or lose, although
\* rows are stored late, by an amount nothing bounds.
FinalBucketsAreComplete ==
  Filled # {} =>
    \A n \in DOMAIN arrived :
      IsReading(n) /\ arrived[n].bucket + 1 < Max(Filled)
        => n \in buckets[arrived[n].bucket] \cup dropped \cup lost

\* Readings whose bucket is closed and was made without them.
Overdue ==
  {n \in DOMAIN arrived : IsReading(n) /\ arrived[n].bucket < now}
    \ (UNION Range(buckets) \cup dropped \cup lost)

\* Whenever rows stop arriving and buckets stop closing for long enough, nothing
\* is overdue: a failed write is tried again, and late rows are absorbed.
OverdueIsAbsorbed == []<>(Overdue = {})
==============================================================================
