------------------------- MODULE ReadingStore_proofs -------------------------
(***************************************************************************)
(* Proofs about ReadingStore, for any size of a batch and of the buffer,   *)
(* any number of rows and of faults, and any time the job may run.         *)
(***************************************************************************)
EXTENDS ReadingStore, SequenceTheorems, FiniteSetTheorems, WellFoundedInduction, TLAPS

----------------------------------------------------------------------------
(* Sets of numbers                                                          *)

Less == OpToRel(<, Nat)

LEMMA LessIsWellFounded == IsWellFoundedOn(Less, Nat)
BY NatLessThanWellFounded, Zenon DEF Less

LEMMA LessIsLess == \A x, y \in Nat : <<y, x>> \in Less <=> y < x
BY Zenon DEF OpToRel, Less

LEMMA Smallest ==
  ASSUME NEW T \in SUBSET Nat, T # {}
  PROVE  \E x \in T : \A y \in T : x <= y
<1>1. PICK x \in T : \A y \in T : ~(<<y, x>> \in Less)
  BY LessIsWellFounded, WFMin
<1>2. \A y \in T : ~(y < x)
  BY <1>1, LessIsLess
<1> QED
  BY <1>2

LEMMA Largest ==
  ASSUME NEW n \in Nat, NEW T \in SUBSET (0..n), T # {}
  PROVE  \E x \in T : \A y \in T : x >= y
<1> DEFINE U == {n - x : x \in T}
<1>1. U \in SUBSET Nat /\ U # {}
  <2>1. PICK x \in T : TRUE
    OBVIOUS
  <2>2. n - x \in U
    BY <2>1
  <2>3. \A y \in T : n - y \in Nat
    OBVIOUS
  <2> QED
    BY <2>2, <2>3
<1>2. PICK u \in U : \A v \in U : u <= v
  BY <1>1, Smallest
<1>3. PICK x \in T : u = n - x
  BY <1>2
<1>4. \A y \in T : n - x <= n - y
  BY <1>2, <1>3
<1> QED
  BY <1>4

\* A set of buckets with something in it has a first and a last one.
LEMMA MaxAndMin ==
  ASSUME NEW n \in Nat, NEW T \in SUBSET (0..n), T # {}
  PROVE  /\ Max(T) \in T /\ \A y \in T : Max(T) >= y
         /\ Min(T) \in T /\ \A y \in T : Min(T) <= y
<1>1. \E x \in T : \A y \in T : x >= y
  BY Largest
<1>2. \E x \in T : \A y \in T : x <= y
  BY Smallest
<1> QED
  BY <1>1, <1>2 DEF Max, Min

----------------------------------------------------------------------------
(* Sequences of rows                                                        *)

LEMMA SeqFacts ==
  ASSUME NEW S, NEW s \in Seq(S)
  PROVE  /\ Len(s) \in Nat /\ DOMAIN s = 1..Len(s)
         /\ \A i \in 1..Len(s) : s[i] \in S
         /\ \A x : x \in Range(s) <=> \E i \in 1..Len(s) : s[i] = x
         /\ Range(s) \subseteq S
<1>1. Len(s) \in Nat /\ DOMAIN s = 1..Len(s) /\ \A i \in 1..Len(s) : s[i] \in S
  OBVIOUS
<1> QED
  BY <1>1 DEF Range

LEMMA AppendFacts ==
  ASSUME NEW S, NEW s \in Seq(S), NEW e \in S
  PROVE  /\ Append(s, e) \in Seq(S) /\ Len(Append(s, e)) = Len(s) + 1
         /\ \A i \in 1..Len(s) : Append(s, e)[i] = s[i]
         /\ Append(s, e)[Len(s) + 1] = e
OBVIOUS

LEMMA ConcatFacts ==
  ASSUME NEW S, NEW s \in Seq(S), NEW t \in Seq(S)
  PROVE  /\ s \o t \in Seq(S) /\ Len(s) \in Nat /\ Len(t) \in Nat
         /\ Len(s \o t) = Len(s) + Len(t)
         /\ \A i \in 1..Len(s) : (s \o t)[i] = s[i]
         /\ \A i \in 1..Len(t) : (s \o t)[Len(s) + i] = t[i]
OBVIOUS

LEMMA RangeAppend ==
  ASSUME NEW S, NEW s \in Seq(S), NEW e \in S
  PROVE  Range(Append(s, e)) = Range(s) \cup {e}
<1> DEFINE u == Append(s, e)
<1>1. /\ u \in Seq(S) /\ Len(u) = Len(s) + 1 /\ Len(s) \in Nat
      /\ \A i \in 1..Len(s) : u[i] = s[i]
      /\ u[Len(s) + 1] = e
  BY AppendFacts, SeqFacts
<1> HIDE DEF u
<1>2. /\ \A x : x \in Range(s) <=> \E i \in 1..Len(s) : s[i] = x
      /\ \A x : x \in Range(u) <=> \E i \in 1..Len(u) : u[i] = x
  BY <1>1, SeqFacts
<1>3. \A i \in 1..Len(u) : i \in 1..Len(s) \/ i = Len(s) + 1
  BY <1>1
<1>4. \A i \in 1..Len(s) : i \in 1..Len(u)
  BY <1>1
<1>5. Len(s) + 1 \in 1..Len(u)
  BY <1>1
<1> QED
  BY <1>1, <1>2, <1>3, <1>4, <1>5 DEF u

LEMMA RangeConcat ==
  ASSUME NEW S, NEW s \in Seq(S), NEW t \in Seq(S)
  PROVE  Range(s \o t) = Range(s) \cup Range(t)
BY RangeConcatenation

\* A sequence, cut in two.
LEMMA Cut ==
  ASSUME NEW S, NEW s \in Seq(S), NEW n \in 0..Len(s)
  PROVE  /\ SubSeq(s, 1, n) \in Seq(S) /\ Len(SubSeq(s, 1, n)) = n
         /\ \A i \in 1..n : SubSeq(s, 1, n)[i] = s[i]
         /\ SubSeq(s, n + 1, Len(s)) \in Seq(S) /\ Len(SubSeq(s, n + 1, Len(s))) = Len(s) - n
         /\ \A i \in 1..(Len(s) - n) : SubSeq(s, n + 1, Len(s))[i] = s[n + i]
<1>1. Len(s) \in Nat /\ n \in Nat /\ n <= Len(s)
  OBVIOUS
<1>2. /\ SubSeq(s, 1, n) \in Seq(S) /\ Len(SubSeq(s, 1, n)) = n
      /\ \A i \in 1..n : SubSeq(s, 1, n)[i] = s[i]
  BY <1>1
<1>3. /\ SubSeq(s, n + 1, Len(s)) \in Seq(S) /\ Len(SubSeq(s, n + 1, Len(s))) = Len(s) - n
      /\ \A i \in 1..(Len(s) - n) : SubSeq(s, n + 1, Len(s))[i] = s[n + i]
  BY <1>1
<1> QED
  BY <1>2, <1>3

LEMMA RangeOfCut ==
  ASSUME NEW S, NEW s \in Seq(S), NEW n \in 0..Len(s)
  PROVE  Range(s) = Range(SubSeq(s, 1, n)) \cup Range(SubSeq(s, n + 1, Len(s)))
<1> DEFINE p == SubSeq(s, 1, n)
           q == SubSeq(s, n + 1, Len(s))
<1>1. /\ p \in Seq(S) /\ Len(p) = n /\ \A i \in 1..n : p[i] = s[i]
      /\ q \in Seq(S) /\ Len(q) = Len(s) - n /\ \A i \in 1..(Len(s) - n) : q[i] = s[n + i]
      /\ Len(s) \in Nat
  BY Cut, SeqFacts
<1> HIDE DEF p, q
<1>2. /\ \A x : x \in Range(s) <=> \E i \in 1..Len(s) : s[i] = x
      /\ \A x : x \in Range(p) <=> \E i \in 1..Len(p) : p[i] = x
      /\ \A x : x \in Range(q) <=> \E i \in 1..Len(q) : q[i] = x
  BY <1>1, SeqFacts
<1>3. \A i \in 1..Len(s) : i \in 1..n \/ (i - n \in 1..(Len(s) - n) /\ n + (i - n) = i)
  BY <1>1
<1>4. ASSUME NEW x \in Range(s) PROVE x \in Range(p) \cup Range(q)
  <2>1. PICK i \in 1..Len(s) : s[i] = x
    BY <1>2
  <2>2. CASE i \in 1..n
    BY <1>1, <1>2, <2>1, <2>2
  <2>3. CASE i \notin 1..n
    <3>1. i - n \in 1..Len(q) /\ q[i - n] = x
      BY <1>1, <1>3, <2>1, <2>3
    <3> QED
      BY <1>2, <3>1
  <2> QED
    BY <2>2, <2>3
<1>5. \A i \in 1..n : i \in 1..Len(s)
  BY <1>1
<1>6. \A i \in 1..(Len(s) - n) : n + i \in 1..Len(s)
  BY <1>1
<1>7. Range(p) \subseteq Range(s) /\ Range(q) \subseteq Range(s)
  BY <1>1, <1>2, <1>5, <1>6
<1> QED
  BY <1>4, <1>7 DEF p, q

\* Rows in the order they arrived in.
Ascending(s) == \A i, j \in 1..Len(s) : i < j => s[i] < s[j]

LEMMA AscendingAppend ==
  ASSUME NEW s \in Seq(Nat), NEW n \in Nat, Ascending(s), \A i \in 1..Len(s) : s[i] < n
  PROVE  Ascending(Append(s, n))
<1> DEFINE u == Append(s, n)
<1>1. /\ Len(u) = Len(s) + 1 /\ Len(s) \in Nat
      /\ \A i \in 1..Len(s) : u[i] = s[i]
      /\ u[Len(s) + 1] = n
  BY AppendFacts, SeqFacts
<1> HIDE DEF u
<1>2. \A i \in 1..Len(u) : i \in 1..Len(s) \/ i = Len(s) + 1
  BY <1>1
<1> SUFFICES ASSUME NEW i \in 1..Len(u), NEW j \in 1..Len(u), i < j PROVE u[i] < u[j]
  BY DEF Ascending, u
<1>3. i \in 1..Len(s) /\ u[i] = s[i]
  BY <1>1, <1>2
<1>4. CASE j \in 1..Len(s)
  BY <1>1, <1>3, <1>4 DEF Ascending
<1>5. CASE j = Len(s) + 1
  BY <1>1, <1>3, <1>5
<1> QED
  BY <1>2, <1>4, <1>5

LEMMA AscendingParts ==
  ASSUME NEW s \in Seq(Nat), NEW t \in Seq(Nat), Ascending(s \o t)
  PROVE  /\ Ascending(s) /\ Ascending(t)
         /\ \A i \in 1..Len(s), j \in 1..Len(t) : s[i] < t[j]
<1> DEFINE u == s \o t
<1>1. /\ Len(s) \in Nat /\ Len(t) \in Nat /\ Len(u) = Len(s) + Len(t)
      /\ \A i \in 1..Len(s) : u[i] = s[i]
      /\ \A i \in 1..Len(t) : u[Len(s) + i] = t[i]
  BY ConcatFacts
<1>0. Ascending(u)
  OBVIOUS
<1> HIDE DEF u
<1>2. \A i \in 1..Len(s) : i \in 1..Len(u)
  BY <1>1
<1>3. \A i \in 1..Len(t) : Len(s) + i \in 1..Len(u)
  BY <1>1
<1>4. Ascending(s)
  BY <1>0, <1>1, <1>2 DEF Ascending
<1>5. \A i, j \in 1..Len(t) : i < j => Len(s) + i < Len(s) + j
  BY <1>1
<1>6. Ascending(t)
  BY <1>0, <1>1, <1>3, <1>5 DEF Ascending
<1>7. \A i \in 1..Len(s), j \in 1..Len(t) : i < Len(s) + j
  BY <1>1
<1> QED
  BY <1>0, <1>1, <1>2, <1>3, <1>4, <1>6, <1>7 DEF Ascending

LEMMA AscendingCut ==
  ASSUME NEW s \in Seq(Nat), NEW n \in 0..Len(s), Ascending(s)
  PROVE  Ascending(SubSeq(s, n + 1, Len(s)))
<1> DEFINE q == SubSeq(s, n + 1, Len(s))
<1>1. /\ Len(q) = Len(s) - n /\ \A i \in 1..(Len(s) - n) : q[i] = s[n + i]
      /\ Len(s) \in Nat
  BY Cut, SeqFacts
<1> HIDE DEF q
<1>2. \A i \in 1..Len(q) : n + i \in 1..Len(s) /\ q[i] = s[n + i]
  BY <1>1
<1>3. \A i, j \in 1..Len(q) : i < j => n + i < n + j
  BY <1>1
<1> QED
  BY <1>2, <1>3 DEF Ascending, q

LEMMA NothingBehind ==
  ASSUME NEW S, NEW s \in Seq(S)
  PROVE  s \o <<>> = s /\ <<>> \o s = s /\ <<>> \in Seq(S) /\ Range(<<>>) = {} /\ Len(<<>>) = 0
<1>1. Range(<<>>) = {}
  BY DEF Range
<1> QED
  BY <1>1, ConcatEmptySeq

LEMMA AppendBehind ==
  ASSUME NEW S, NEW s \in Seq(S), NEW t \in Seq(S), NEW e \in S
  PROVE  s \o Append(t, e) = Append(s \o t, e)
<1>1. <<e>> \in Seq(S) /\ s \o t \in Seq(S)
  OBVIOUS
<1>2. Append(t, e) = t \o <<e>> /\ Append(s \o t, e) = (s \o t) \o <<e>>
  BY <1>1, AppendIsConcat
<1> QED
  BY <1>1, <1>2, ConcatAssociative

----------------------------------------------------------------------------
(* Types                                                                    *)

Switches == up \in BOOLEAN /\ timer \in BOOLEAN

Writes == [step : {"idle", "readings", "events"}, readings : Seq(Row), events : Seq(Row)]

DataTypes ==
  /\ now \in Bucket
  /\ arrived \in Seq([kind : {"reading", "event"}, bucket : Bucket])
  /\ exitAfter \in Nat
  /\ readings \in Seq(Row)
  /\ events \in Seq(Row)
  /\ flushes \in Nat
  /\ write \in Writes
  /\ stored \in Seq(Row)
  /\ buckets \in [Bucket -> SUBSET Row]
  /\ dropped \subseteq Row
  /\ lost \subseteq Row
  /\ faults \in Nat

NothingEmpty == write.step # "idle" => Batch # <<>>

LEMMA TypesSplit == TypeOK <=> DataTypes /\ Switches /\ NothingEmpty
BY Zenon DEF TypeOK, DataTypes, Switches, NothingEmpty, Writes

LEMMA RowsAreNumbers == \A s \in Seq(Row) : s \in Seq(Nat)
<1>1. Row \subseteq Nat
  BY ConstantsAssumption DEF Row
<1> QED
  BY <1>1, SeqMonotonic

LEMMA BatchTyped ==
  ASSUME DataTypes
  PROVE  /\ Batch \in Seq(Row) /\ write.readings \in Seq(Row) /\ write.events \in Seq(Row)
         /\ readings \in Seq(Row) /\ events \in Seq(Row) /\ stored \in Seq(Row)
         /\ write.readings \o readings \in Seq(Row) /\ write.events \o events \in Seq(Row)
         /\ stored \o Batch \in Seq(Row)
<1>1. /\ write.readings \in Seq(Row) /\ write.events \in Seq(Row)
      /\ readings \in Seq(Row) /\ events \in Seq(Row) /\ stored \in Seq(Row)
  BY DEF DataTypes, Writes
<1>2. Batch \in Seq(Row)
  BY <1>1 DEF Batch
<1> QED
  BY <1>1, <1>2, ConcatFacts

LEMMA NoWriteTyped == NoWrite \in Writes
<1>1. <<>> \in Seq(Row)
  OBVIOUS
<1> QED
  BY <1>1 DEF NoWrite, Writes

\* How many of a readings a failed insertion gives up, with e events waiting and w
\* being written, when there is room for k rows.
GivenUp(k, a, e, w) ==
  LET waiting == a + e + w
      overflow == IF waiting > k THEN waiting - k ELSE 0
  IN  IF overflow < a THEN overflow ELSE a

\* What a failed insertion does to the buffer: the oldest n readings go.
LEMMA PutsBack ==
  ASSUME DataTypes, PutBack
  PROVE  LET all == write.readings \o readings
         IN  \E n \in 0..Len(all) :
               /\ readings' = SubSeq(all, n + 1, Len(all))
               /\ events' = write.events \o events
               /\ dropped' = dropped \cup Range(SubSeq(all, 1, n))
               /\ timer' = TRUE
               /\ n > 0 => MaxBuffered <= Len(all) - n + Len(events) + Len(write.events)
<1> DEFINE all == write.readings \o readings
           n == GivenUp(MaxBuffered, Len(all), Len(events), Len(write.events))
<1>1. Len(all) \in Nat /\ Len(events) \in Nat /\ Len(write.events) \in Nat /\ MaxBuffered \in Nat
  BY BatchTyped, SeqFacts, ConstantsAssumption
<1>2. \A k, a, e, w \in Nat :
        /\ GivenUp(k, a, e, w) \in 0..a
        /\ GivenUp(k, a, e, w) > 0 => k <= a - GivenUp(k, a, e, w) + e + w
  BY DEF GivenUp
<1>3. /\ readings' = SubSeq(all, n + 1, Len(all))
      /\ events' = write.events \o events
      /\ dropped' = dropped \cup Range(SubSeq(all, 1, n))
      /\ timer' = TRUE
  BY Zenon DEF PutBack, GivenUp
<1> HIDE DEF all
<1>4. /\ n \in 0..Len(all)
      /\ n > 0 => MaxBuffered <= Len(all) - n + Len(events) + Len(write.events)
  BY <1>1, <1>2
<1> HIDE DEF n
<1> QED
  BY <1>3, <1>4 DEF all

LEMMA PutBackTyped ==
  ASSUME DataTypes, PutBack
  PROVE  readings' \in Seq(Row) /\ events' \in Seq(Row) /\ dropped' \subseteq Row
<1> DEFINE all == write.readings \o readings
<1>1. PICK n \in 0..Len(all) :
        /\ readings' = SubSeq(all, n + 1, Len(all))
        /\ events' = write.events \o events
        /\ dropped' = dropped \cup Range(SubSeq(all, 1, n))
  BY PutsBack
<1>2. all \in Seq(Row) /\ write.events \o events \in Seq(Row)
  BY BatchTyped
<1> HIDE DEF all
<1>3. SubSeq(all, n + 1, Len(all)) \in Seq(Row) /\ SubSeq(all, 1, n) \in Seq(Row)
  BY <1>2, Cut
<1>4. Range(SubSeq(all, 1, n)) \subseteq Row
  BY <1>3, SeqFacts
<1> QED
  BY <1>1, <1>2, <1>3, <1>4 DEF DataTypes

LEMMA MemoryTyped == DataTypes => InMemory \subseteq Row
<1> SUFFICES ASSUME DataTypes PROVE InMemory \subseteq Row
  OBVIOUS
<1>1. /\ Range(readings) \subseteq Row /\ Range(events) \subseteq Row
      /\ Range(write.readings) \subseteq Row /\ Range(write.events) \subseteq Row
  BY BatchTyped, SeqFacts
<1> QED
  BY <1>1 DEF InMemory

LEMMA EndsTyped ==
  ASSUME DataTypes, Ends
  PROVE  /\ exitAfter' = 0 /\ readings' = <<>> /\ events' = <<>> /\ flushes' = 0
         /\ write' = NoWrite /\ lost' \subseteq Row
         /\ UNCHANGED <<now, buckets, arrived, dropped>>
BY MemoryTyped DEF Ends, DataTypes

LEMMA StoredTyped == DataTypes => \A b \in Bucket : StoredReadings(b) \subseteq Row
<1>1. DataTypes => Range(stored) \subseteq Row
  BY SeqFacts DEF DataTypes
<1> QED
  BY <1>1 DEF StoredReadings

LEMMA DataTypesKept == DataTypes /\ [Next]_vars => DataTypes'
<1> SUFFICES ASSUME DataTypes, [Next]_vars PROVE DataTypes'
  OBVIOUS
<1>f. /\ Batch \in Seq(Row) /\ write.readings \in Seq(Row) /\ write.events \in Seq(Row)
      /\ readings \in Seq(Row) /\ events \in Seq(Row) /\ stored \in Seq(Row)
      /\ stored \o Batch \in Seq(Row)
  BY BatchTyped
<1>e. <<>> \in Seq(Row)
  OBVIOUS
<1>1. CASE Tick
  BY <1>1, ConstantsAssumption DEF Tick, DataTypes, Bucket, buffer, history
<1>2. ASSUME NEW kind \in {"reading", "event"}, Add(kind) PROVE DataTypes'
  <2> DEFINE row == [kind |-> kind, bucket |-> now]
  <2>1. row \in [kind : {"reading", "event"}, bucket : Bucket]
    BY <1>2 DEF DataTypes
  <2>2. arrived' = Append(arrived, row) /\ Len(arrived) < MaxArrivals
    BY <1>2 DEF Add
  <2>3. arrived' \in Seq([kind : {"reading", "event"}, bucket : Bucket]) /\ Len(arrived') = Len(arrived) + 1
        /\ Len(arrived) \in Nat
    <3> HIDE DEF row
    <3> QED
      BY <2>1, <2>2, AppendFacts, SeqFacts DEF DataTypes
  <2>4. Len(arrived') \in Row
    BY <2>2, <2>3, ConstantsAssumption DEF Row
  <2>5. Append(readings, Len(arrived')) \in Seq(Row) /\ Append(events, Len(arrived')) \in Seq(Row)
    BY <1>f, <2>4, AppendFacts
  <2>6. readings' \in Seq(Row) /\ events' \in Seq(Row)
    BY <1>2, <1>f, <2>5 DEF Add
  <2>7. flushes' \in Nat
    BY <1>2 DEF Add, Flush, DataTypes
  <2> QED
    BY <1>2, <2>3, <2>6, <2>7 DEF Add, DataTypes
<1>3. CASE TimerFires
  BY <1>3 DEF TimerFires, Flush, DataTypes, history
<1>4. CASE BeginWrite
  <2>1. write' \in Writes
    <3>1. \A step \in {"readings", "events"} :
            [step |-> step, readings |-> readings, events |-> events] \in Writes
      BY <1>f DEF Writes
    <3>2. write' = NoWrite \/ \E step \in {"readings", "events"} :
            write' = [step |-> step, readings |-> readings, events |-> events]
      BY <1>4 DEF BeginWrite
    <3> QED
      BY <3>1, <3>2, NoWriteTyped
  <2>2. exitAfter' \in Nat /\ flushes' \in Nat
    BY <1>4 DEF BeginWrite, DataTypes
  <2> QED
    BY <1>4, <1>e, <2>1, <2>2 DEF BeginWrite, DataTypes, history
<1>5. CASE Insert
  <2>1. write' \in Writes
    <3>1. [write EXCEPT !.step = "events"] \in Writes
      BY DEF DataTypes, Writes
    <3>2. write' = NoWrite \/ write' = [write EXCEPT !.step = "events"]
      BY <1>5 DEF Insert
    <3> QED
      BY <3>1, <3>2, NoWriteTyped
  <2> QED
    BY <1>5, <1>f, <2>1 DEF Insert, DataTypes, history
<1>6. ASSUME NEW committed \in BOOLEAN, InsertFails(committed) PROVE DataTypes'
  <2>1. readings' \in Seq(Row) /\ events' \in Seq(Row) /\ dropped' \subseteq Row
    BY <1>6, PutBackTyped DEF InsertFails
  <2>2. stored' \in Seq(Row) /\ write' \in Writes
    BY <1>6, <1>f, NoWriteTyped DEF InsertFails
  <2> QED
    BY <1>6, <2>1, <2>2 DEF InsertFails, Strike, DataTypes
<1>7. CASE Shutdown
  BY <1>7 DEF Shutdown, Flush, DataTypes, history
<1>8. CASE Restart
  BY <1>8 DEF Restart, DataTypes, buffer, history
<1>9. CASE Exit
  <2>1. /\ exitAfter' = 0 /\ readings' = <<>> /\ events' = <<>> /\ flushes' = 0
        /\ write' = NoWrite /\ lost' \subseteq Row
        /\ UNCHANGED <<now, buckets, arrived, dropped, stored, faults>>
    BY <1>9, EndsTyped DEF Exit
  <2> QED
    BY <1>e, <2>1, NoWriteTyped DEF DataTypes
<1>10. ASSUME NEW committed \in BOOLEAN, Crash(committed) PROVE DataTypes'
  <2>1. /\ exitAfter' = 0 /\ readings' = <<>> /\ events' = <<>> /\ flushes' = 0
        /\ write' = NoWrite /\ lost' \subseteq Row
        /\ UNCHANGED <<now, buckets, arrived, dropped>>
    BY <1>10, EndsTyped DEF Crash
  <2>2. stored' \in Seq(Row) /\ faults' = faults + 1
    BY <1>10, <1>f DEF Crash, Strike
  <2> QED
    BY <1>e, <2>1, <2>2, NoWriteTyped DEF DataTypes
<1>11. CASE Aggregate
  <2>1. buckets' \in [Bucket -> SUBSET Row]
    BY <1>11, StoredTyped DEF Aggregate, DataTypes
  <2> QED
    BY <1>11, <2>1 DEF Aggregate, DataTypes, buffer, history
<1>12. CASE UNCHANGED vars
  BY <1>12 DEF vars, DataTypes, buffer, history
<1> QED
  BY <1>1, <1>2, <1>3, <1>4, <1>5, <1>6, <1>7, <1>8, <1>9, <1>10, <1>11, <1>12
     DEF Next, Writer, Process

LEMMA SwitchesKept == DataTypes /\ Switches /\ [Next]_vars => Switches'
<1> SUFFICES ASSUME DataTypes, Switches, [Next]_vars PROVE Switches'
  OBVIOUS
<1> USE DEF Switches
<1>1. ASSUME NEW kind \in {"reading", "event"}, Add(kind) PROVE Switches'
  <2>1. up' = up /\ (timer' = TRUE \/ timer' = FALSE)
    BY <1>1 DEF Add, Flush
  <2> QED
    BY <2>1
<1>2. CASE TimerFires \/ Shutdown
  <2>1. up' = up /\ timer' = FALSE
    BY <1>2 DEF TimerFires, Shutdown, Flush
  <2> QED
    BY <2>1
<1>3. ASSUME NEW committed \in BOOLEAN, InsertFails(committed) PROVE Switches'
  <2>1. up' = up /\ timer' = TRUE
    BY <1>3 DEF InsertFails, PutBack
  <2> QED
    BY <2>1
<1>4. CASE Exit \/ \E committed \in BOOLEAN : Crash(committed)
  <2>1. up' = FALSE /\ timer' = FALSE
    BY <1>4 DEF Exit, Crash, Ends
  <2> QED
    BY <2>1
<1>5. CASE Restart
  <2>1. up' = TRUE /\ timer' = timer
    BY <1>5 DEF Restart, buffer
  <2> QED
    BY <2>1
<1>6. CASE Tick \/ BeginWrite \/ Insert \/ Aggregate \/ UNCHANGED vars
  <2>1. up' = up /\ timer' = timer
    BY <1>6 DEF Tick, BeginWrite, Insert, Aggregate, vars, buffer
  <2> QED
    BY <2>1
<1> QED
  BY <1>1, <1>2, <1>3, <1>4, <1>5, <1>6 DEF Next, Writer, Process

LEMMA NothingEmptyKept == DataTypes /\ NothingEmpty /\ [Next]_vars => NothingEmpty'
<1> SUFFICES ASSUME DataTypes, NothingEmpty, [Next]_vars, write'.step # "idle"
             PROVE  Batch' # <<>>
  BY DEF NothingEmpty
<1>1. CASE write' = write
  BY <1>1 DEF NothingEmpty, Batch
<1>2. NoWrite.step = "idle"
  BY DEF NoWrite
<1>3. CASE BeginWrite
  <2>1. write' = [step |-> IF readings # <<>> THEN "readings" ELSE "events",
                  readings |-> readings, events |-> events]
        /\ Pending # 0
    BY <1>2, <1>3 DEF BeginWrite
  <2>2. readings = <<>> => events # <<>>
    BY <2>1 DEF Pending
  <2> QED
    BY <2>1, <2>2 DEF Batch
<1>4. CASE Insert
  <2>1. write.events # <<>> /\ write' = [write EXCEPT !.step = "events"]
    BY <1>2, <1>4 DEF Insert
  <2>2. write'.step = "events" /\ write'.events = write.events
    BY <2>1 DEF DataTypes, Writes
  <2> QED
    BY <2>1, <2>2 DEF Batch
<1>5. ASSUME NEW kind \in {"reading", "event"}, Add(kind) PROVE write' = write
  BY <1>5 DEF Add
<1>6. ASSUME NEW committed \in BOOLEAN, InsertFails(committed) \/ Crash(committed) PROVE write' = NoWrite
  BY <1>6 DEF InsertFails, Crash, Ends
<1> QED
  BY <1>1, <1>2, <1>3, <1>4, <1>5, <1>6
     DEF Next, Writer, Process, Tick, TimerFires, Exit, Ends, Shutdown, Restart,
         Aggregate, vars, buffer

LEMMA TypesAtStart == Init => TypeOK
<1> SUFFICES ASSUME Init PROVE TypeOK
  OBVIOUS
<1>1. <<>> \in Seq(Row) /\ <<>> \in Seq([kind : {"reading", "event"}, bucket : Bucket])
  OBVIOUS
<1>2. 0 \in Bucket
  BY ConstantsAssumption DEF Bucket
<1>3. DataTypes
  BY <1>1, <1>2, NoWriteTyped DEF Init, DataTypes
<1>4. Switches /\ NothingEmpty
  BY DEF Init, Switches, NothingEmpty, NoWrite
<1> QED
  BY <1>3, <1>4, TypesSplit

LEMMA TypesKept == TypeOK /\ [Next]_vars => TypeOK'
<1> SUFFICES ASSUME TypeOK, [Next]_vars PROVE TypeOK'
  OBVIOUS
<1>1. DataTypes /\ Switches /\ NothingEmpty
  BY TypesSplit
<1>2. DataTypes' /\ Switches' /\ NothingEmpty'
  BY <1>1, DataTypesKept, SwitchesKept, NothingEmptyKept
<1>3. (DataTypes /\ Switches /\ NothingEmpty)' => TypeOK'
  BY TypesSplit, PTL
<1> QED
  BY <1>2, <1>3

----------------------------------------------------------------------------
(* Where rows are                                                           *)

Arrived == 1..Len(arrived)

RowsOf(kind) == {n \in Arrived : arrived[n].kind = kind}

Gone == dropped \cup lost

\* Nothing but rows that arrived is anywhere, and only readings are given up.
Placed ==
  /\ Len(arrived) <= MaxArrivals
  /\ Range(readings) \cup Range(write.readings) \subseteq RowsOf("reading")
  /\ Range(events) \cup Range(write.events) \subseteq RowsOf("event")
  /\ Range(stored) \subseteq Arrived
  /\ dropped \subseteq RowsOf("reading")
  /\ lost \subseteq Arrived

\* A flush holds nothing once it is done, and its readings are stored before its
\* events are inserted.
WriteInv ==
  /\ write.step = "idle" => write = NoWrite
  /\ write.step = "events" => Range(write.readings) \subseteq Range(stored)

\* What is being written comes before what waits, and each in the order of arrival.
QueueInv ==
  /\ Ascending(write.readings \o readings)
  /\ Ascending(write.events \o events)

\* Every row is still held, or stored, or accounted for as gone.
KeptInv ==
  /\ RowsOf("reading") \subseteq Range(write.readings) \cup Range(readings) \cup Range(stored) \cup Gone
  /\ RowsOf("event") \subseteq Range(write.events) \cup Range(events) \cup Range(stored) \cup lost

RowsInv == DataTypes /\ Placed /\ WriteInv /\ QueueInv /\ KeptInv

LEMMA NothingInIt == Range(<<>>) = {}
BY DEF Range

LEMMA RowFacts ==
  ASSUME DataTypes
  PROVE  /\ Len(arrived) \in Nat /\ DOMAIN arrived = Arrived
         /\ \A n \in Arrived : arrived[n].kind \in {"reading", "event"} /\ arrived[n].bucket \in Bucket
         /\ Arrived = RowsOf("reading") \cup RowsOf("event")
         /\ RowsOf("reading") \cap RowsOf("event") = {}
         /\ RowsOf("reading") \subseteq Arrived /\ RowsOf("event") \subseteq Arrived
<1> DEFINE S == [kind : {"reading", "event"}, bucket : Bucket]
<1>1. arrived \in Seq(S)
  BY DEF DataTypes
<1>2. Len(arrived) \in Nat /\ DOMAIN arrived = Arrived /\ \A n \in Arrived : arrived[n] \in S
  BY <1>1, SeqFacts DEF Arrived
<1>3. \A n \in Arrived : arrived[n].kind \in {"reading", "event"} /\ arrived[n].bucket \in Bucket
  BY <1>2
<1> QED
  BY <1>2, <1>3 DEF RowsOf

\* What is in memory, whatever the flush is doing.
LEMMA MemoryIs ==
  ASSUME DataTypes, WriteInv
  PROVE  InMemory = Range(readings) \cup Range(events) \cup Range(write.readings) \cup Range(write.events)
<1>1. CASE write.step = "idle"
  <2>1. write.readings = <<>> /\ write.events = <<>>
    BY <1>1 DEF WriteInv, NoWrite
  <2> QED
    BY <1>1, <2>1, NothingInIt DEF InMemory
<1>2. CASE write.step # "idle"
  BY <1>2 DEF InMemory
<1> QED
  BY <1>1, <1>2

\* A row arrives.
LEMMA AddMoves ==
  ASSUME RowsInv, NEW kind \in {"reading", "event"}, Add(kind)
  PROVE  LET n == Len(arrived) + 1
         IN  /\ n \in Row /\ Arrived' = Arrived \cup {n} /\ n \notin Arrived /\ Len(arrived') = n
             /\ \A m \in Arrived : m < n
             /\ \A m \in Arrived : arrived'[m] = arrived[m]
             /\ arrived'[n] = [kind |-> kind, bucket |-> now]
             /\ readings' = (IF kind = "reading" THEN Append(readings, n) ELSE readings)
             /\ events' = (IF kind = "event" THEN Append(events, n) ELSE events)
             /\ UNCHANGED <<write, stored, dropped, lost>>
<1> DEFINE n == Len(arrived) + 1
           S == [kind : {"reading", "event"}, bucket : Bucket]
           row == [kind |-> kind, bucket |-> now]
<1>1. arrived \in Seq(S) /\ row \in S /\ Len(arrived) \in Nat
  BY RowFacts DEF RowsInv, DataTypes
<1>2. arrived' = Append(arrived, row) /\ Len(arrived) < MaxArrivals
  BY DEF Add
<1> HIDE DEF row
<1>3. /\ Len(arrived') = n /\ arrived'[n] = row
      /\ \A m \in 1..Len(arrived) : arrived'[m] = arrived[m]
  BY <1>1, <1>2, AppendFacts
<1>4. n \in Row /\ n \notin Arrived /\ \A m \in Arrived : m < n
  BY <1>1, <1>2, ConstantsAssumption DEF Row, Arrived
<1>5. Arrived' = Arrived \cup {n}
  <2>1. Arrived' = 1..n
    BY <1>3 DEF Arrived
  <2> QED
    BY <1>1, <2>1 DEF Arrived
<1>6. /\ readings' = (IF kind = "reading" THEN Append(readings, n) ELSE readings)
      /\ events' = (IF kind = "event" THEN Append(events, n) ELSE events)
      /\ UNCHANGED <<write, stored, dropped, lost>>
  BY <1>3 DEF Add
<1> QED
  BY <1>3, <1>4, <1>5, <1>6 DEF Arrived, row

\* A flush takes all that waits.
LEMMA BeginMoves ==
  ASSUME RowsInv, BeginWrite
  PROVE  /\ write.readings = <<>> /\ write.events = <<>>
         /\ write'.readings = readings /\ write'.events = events
         /\ readings' = <<>> /\ events' = <<>>
         /\ write'.step \in {"idle", "readings"} \/ write'.readings = <<>>
         /\ write'.step = "idle" => write' = NoWrite
         /\ UNCHANGED <<arrived, stored, dropped, lost>>
<1>1. write = NoWrite /\ readings' = <<>> /\ events' = <<>> /\ UNCHANGED <<arrived, stored, dropped, lost>>
  BY DEF BeginWrite, history
<1>2. CASE Pending = 0
  <2>1. readings \in Seq(Row) /\ events \in Seq(Row)
    BY DEF RowsInv, DataTypes
  <2>2. readings = <<>> /\ events = <<>>
    <3>1. Len(readings) = 0 /\ Len(events) = 0
      BY <1>2, <2>1, SeqFacts DEF Pending
    <3> QED
      BY <2>1, <3>1, EmptySeq
  <2>3. write' = NoWrite
    BY <1>2 DEF BeginWrite
  <2> QED
    BY <1>1, <2>2, <2>3 DEF NoWrite
<1>3. CASE Pending # 0
  <2>1. write' = [step |-> IF readings # <<>> THEN "readings" ELSE "events",
                  readings |-> readings, events |-> events]
    BY <1>3 DEF BeginWrite
  <2> QED
    BY <1>1, <2>1 DEF NoWrite
<1> QED
  BY <1>2, <1>3

\* The batch is in the table.
LEMMA StoreMoves ==
  ASSUME DataTypes
  PROVE  /\ Range(stored \o Batch) = Range(stored) \cup Range(Batch)
         /\ Range(Batch) \subseteq Range(write.readings) \cup Range(write.events)
         /\ Len(stored) \in Nat /\ Len(Batch) \in Nat /\ Len(stored \o Batch) = Len(stored) + Len(Batch)
         /\ \A i \in 1..Len(stored) : (stored \o Batch)[i] = stored[i]
         /\ \A i \in 1..Len(Batch) : (stored \o Batch)[Len(stored) + i] = Batch[i]
<1>1. stored \in Seq(Row) /\ Batch \in Seq(Row)
  BY BatchTyped
<1>2. Batch = write.readings \/ Batch = write.events
  BY DEF Batch
<1> QED
  BY <1>1, <1>2, RangeConcat, ConcatFacts

\* An insertion moves on to the events or ends the flush, all of whose rows are stored.
LEMMA InsertMoves ==
  ASSUME RowsInv, Insert
  PROVE  /\ stored' = stored \o Batch
         /\ UNCHANGED <<arrived, readings, events, dropped, lost>>
         /\ \/ /\ write.step = "readings" /\ Batch = write.readings
               /\ write'.step = "events"
               /\ write'.readings = write.readings /\ write'.events = write.events
            \/ /\ write' = NoWrite
               /\ Range(write.readings) \cup Range(write.events) \subseteq Range(stored \o Batch)
<1>1. stored' = stored \o Batch /\ UNCHANGED <<arrived, readings, events, dropped,
                                               lost>>
  BY DEF Insert, history
<1>2. CASE write.step = "readings" /\ write.events # <<>>
  <2>1. write' = [write EXCEPT !.step = "events"]
    BY <1>2 DEF Insert
  <2>2. write'.step = "events" /\ write'.readings = write.readings /\ write'.events = write.events
    BY <2>1 DEF RowsInv, DataTypes, Writes
  <2>3. Batch = write.readings
    BY <1>2 DEF Batch
  <2> QED
    BY <1>1, <1>2, <2>2, <2>3
<1>3. CASE ~(write.step = "readings" /\ write.events # <<>>)
  <2>1. write' = NoWrite
    BY <1>3 DEF Insert
  <2>2. Range(stored \o Batch) = Range(stored) \cup Range(Batch)
    BY StoreMoves DEF RowsInv
  <2>3. CASE write.step = "readings"
    <3>1. Batch = write.readings /\ Range(write.events) = {}
      BY <1>3, <2>3, NothingInIt DEF Batch
    <3> QED
      BY <1>1, <2>1, <2>2, <3>1
  <2>4. CASE write.step # "readings"
    <3>1. write.step = "events"
      BY <2>4 DEF RowsInv, DataTypes, Writes, Insert
    <3>2. Batch = write.events /\ Range(write.readings) \subseteq Range(stored)
      BY <3>1 DEF Batch, RowsInv, WriteInv
    <3> QED
      BY <1>1, <2>1, <2>2, <3>2
  <2> QED
    BY <2>3, <2>4
<1> QED
  BY <1>2, <1>3

\* A failed insertion puts its rows back, in front, and gives up readings.
LEMMA FailMoves ==
  ASSUME RowsInv, NEW committed \in BOOLEAN, InsertFails(committed)
  PROVE  /\ stored' = (IF committed THEN stored \o Batch ELSE stored)
         /\ Range(stored) \subseteq Range(stored') /\ Range(stored') \subseteq Arrived
         /\ write' = NoWrite /\ UNCHANGED <<arrived, lost>>
         /\ events' = write.events \o events /\ Range(events') = Range(write.events) \cup Range(events)
         /\ Ascending(readings')
         /\ dropped \subseteq dropped'
         /\ Range(write.readings) \cup Range(readings) \cup dropped = Range(readings') \cup dropped'
         /\ dropped' \subseteq dropped \cup Range(write.readings) \cup Range(readings)
         /\ Range(readings') \subseteq Range(write.readings) \cup Range(readings)
<1> DEFINE all == write.readings \o readings
<1>1. DataTypes
  BY DEF RowsInv
<1>2. PICK n \in 0..Len(all) :
        /\ readings' = SubSeq(all, n + 1, Len(all))
        /\ events' = write.events \o events
        /\ dropped' = dropped \cup Range(SubSeq(all, 1, n))
  BY <1>1, PutsBack DEF InsertFails
<1>3. /\ all \in Seq(Row) /\ write.readings \in Seq(Row) /\ readings \in Seq(Row)
      /\ write.events \in Seq(Row) /\ events \in Seq(Row)
  BY <1>1, BatchTyped
<1>4. Range(all) = Range(write.readings) \cup Range(readings)
      /\ Range(events') = Range(write.events) \cup Range(events)
  BY <1>2, <1>3, RangeConcat
<1>5. Ascending(all)
  BY DEF RowsInv, QueueInv
<1> HIDE DEF all
<1>6. Range(all) = Range(SubSeq(all, 1, n)) \cup Range(readings')
  BY <1>2, <1>3, RangeOfCut
<1>7. all \in Seq(Nat)
  BY <1>3, RowsAreNumbers
<1>8. Ascending(readings')
  BY <1>2, <1>5, <1>7, AscendingCut
<1>9. /\ stored' = (IF committed THEN stored \o Batch ELSE stored)
      /\ write' = NoWrite /\ UNCHANGED <<arrived, lost>>
  BY DEF InsertFails
<1>10. Range(stored) \subseteq Range(stored') /\ Range(stored') \subseteq Arrived
  <2>1. /\ Range(stored \o Batch) = Range(stored) \cup Range(Batch)
        /\ Range(Batch) \subseteq Range(write.readings) \cup Range(write.events)
    BY <1>1, StoreMoves
  <2>2. Range(stored) \subseteq Arrived
        /\ Range(write.readings) \subseteq Arrived /\ Range(write.events) \subseteq Arrived
    BY <1>1, RowFacts DEF RowsInv, Placed
  <2> QED
    BY <1>9, <2>1, <2>2
<1> QED
  BY <1>2, <1>4, <1>6, <1>8, <1>9, <1>10

\* The process ends: what it held is stored or lost.
LEMMA EndMoves ==
  ASSUME RowsInv, Exit \/ \E committed \in BOOLEAN : Crash(committed)
  PROVE  /\ stored' = stored \o Batch \/ stored' = stored
         /\ Range(stored) \subseteq Range(stored') /\ Range(stored') \subseteq Arrived
         /\ write' = NoWrite /\ readings' = <<>> /\ events' = <<>>
         /\ UNCHANGED <<arrived, dropped>>
         /\ lost \subseteq lost' /\ lost' \subseteq lost \cup InMemory
         /\ Range(readings) \cup Range(events) \cup Range(write.readings) \cup Range(write.events)
              \subseteq lost' \cup Range(stored')
<1>1. DataTypes /\ WriteInv
  BY DEF RowsInv
<1>2. stored' = stored \o Batch \/ stored' = stored
  BY DEF Exit, Crash
<1>3. /\ write' = NoWrite /\ readings' = <<>> /\ events' = <<>>
      /\ UNCHANGED <<arrived, dropped>>
      /\ lost' = lost \cup (InMemory \ Range(stored'))
  BY DEF Exit, Crash, Ends
<1>4. Range(stored) \subseteq Range(stored') /\ Range(stored') \subseteq Arrived
  <2>1. /\ Range(stored \o Batch) = Range(stored) \cup Range(Batch)
        /\ Range(Batch) \subseteq Range(write.readings) \cup Range(write.events)
    BY <1>1, StoreMoves
  <2>2. Range(stored) \subseteq Arrived
        /\ Range(write.readings) \subseteq Arrived /\ Range(write.events) \subseteq Arrived
    BY <1>1, RowFacts DEF RowsInv, Placed
  <2> QED
    BY <1>2, <2>1, <2>2
<1>5. InMemory = Range(readings) \cup Range(events) \cup Range(write.readings) \cup Range(write.events)
  BY <1>1, MemoryIs
<1> QED
  BY <1>2, <1>3, <1>4, <1>5

LEMMA PlacedKept == RowsInv /\ [Next]_vars => Placed'
<1> SUFFICES ASSUME RowsInv, [Next]_vars PROVE Placed'
  OBVIOUS
<1>p. DataTypes /\ Placed
  BY DEF RowsInv
<1>f. RowsOf("reading") \subseteq Arrived /\ RowsOf("event") \subseteq Arrived
  BY <1>p, RowFacts
<1>s. Len(arrived') = Len(arrived) /\ arrived' = arrived
        => Arrived' = Arrived /\ \A kind : RowsOf(kind)' = RowsOf(kind)
  BY DEF Arrived, RowsOf
<1>1. ASSUME NEW kind \in {"reading", "event"}, Add(kind) PROVE Placed'
  <2> DEFINE n == Len(arrived) + 1
  <2>1. /\ n \in Row /\ Arrived' = Arrived \cup {n} /\ n \notin Arrived /\ Len(arrived') = n
        /\ \A m \in Arrived : arrived'[m] = arrived[m]
        /\ arrived'[n] = [kind |-> kind, bucket |-> now]
        /\ readings' = (IF kind = "reading" THEN Append(readings, n) ELSE readings)
        /\ events' = (IF kind = "event" THEN Append(events, n) ELSE events)
        /\ UNCHANGED <<write, stored, dropped, lost>>
    BY <1>1, AddMoves
  <2> HIDE DEF n
  <2>2. /\ RowsOf(kind) \cup {n} \subseteq RowsOf(kind)'
        /\ \A k : RowsOf(k) \subseteq RowsOf(k)'
    BY <2>1 DEF RowsOf
  <2>3. Range(Append(readings, n)) = Range(readings) \cup {n} /\ Range(Append(events, n)) = Range(events) \cup {n}
    BY <1>p, <2>1, RangeAppend DEF DataTypes
  <2>4. Len(arrived') <= MaxArrivals
    BY <2>1, ConstantsAssumption DEF Row
  <2>5. Range(readings)' \cup Range(write.readings)' \subseteq RowsOf("reading")'
    BY <1>p, <2>1, <2>2, <2>3 DEF Placed
  <2>6. Range(events)' \cup Range(write.events)' \subseteq RowsOf("event")'
    BY <1>p, <2>1, <2>2, <2>3 DEF Placed
  <2>7. Range(stored)' \subseteq Arrived' /\ dropped' \subseteq RowsOf("reading")' /\ lost' \subseteq Arrived'
    BY <1>p, <2>1, <2>2 DEF Placed
  <2> QED
    BY <2>4, <2>5, <2>6, <2>7 DEF Placed
<1>2. CASE BeginWrite
  <2>1. /\ write'.readings = readings /\ write'.events = events
        /\ readings' = <<>> /\ events' = <<>>
        /\ UNCHANGED <<arrived, stored, dropped, lost>>
    BY <1>2, BeginMoves
  <2> QED
    BY <1>p, <1>s, <2>1, NothingInIt DEF Placed
<1>3. CASE Insert
  <2>1. /\ stored' = stored \o Batch
        /\ UNCHANGED <<arrived, readings, events, dropped, lost>>
        /\ write'.readings \in {<<>>, write.readings} /\ write'.events \in {<<>>, write.events}
    BY <1>3, InsertMoves DEF NoWrite
  <2>2. /\ Range(stored \o Batch) = Range(stored) \cup Range(Batch)
        /\ Range(Batch) \subseteq Range(write.readings) \cup Range(write.events)
    BY <1>p, StoreMoves
  <2>3. Range(stored \o Batch) \subseteq Arrived
    BY <1>p, <1>f, <2>2 DEF Placed
  <2> QED
    BY <1>p, <1>s, <2>1, <2>3, NothingInIt DEF Placed
<1>4. ASSUME NEW committed \in BOOLEAN, InsertFails(committed) PROVE Placed'
  <2>1. /\ Range(stored') \subseteq Arrived
        /\ write' = NoWrite /\ UNCHANGED <<arrived, lost>>
        /\ Range(events') = Range(write.events) \cup Range(events)
        /\ dropped' \subseteq dropped \cup Range(write.readings) \cup Range(readings)
        /\ Range(readings') \subseteq Range(write.readings) \cup Range(readings)
    BY <1>4, FailMoves
  <2>2. write'.readings = <<>> /\ write'.events = <<>>
    BY <2>1 DEF NoWrite
  <2> QED
    BY <1>p, <1>s, <2>1, <2>2, NothingInIt DEF Placed
<1>5. CASE Exit \/ \E committed \in BOOLEAN : Crash(committed)
  <2>1. /\ Range(stored') \subseteq Arrived
        /\ write' = NoWrite /\ readings' = <<>> /\ events' = <<>>
        /\ UNCHANGED <<arrived, dropped>>
        /\ lost' \subseteq lost \cup InMemory
    BY <1>5, EndMoves
  <2>2. InMemory \subseteq Arrived
    BY <1>p, <1>f, MemoryIs DEF RowsInv, Placed
  <2>3. write'.readings = <<>> /\ write'.events = <<>>
    BY <2>1 DEF NoWrite
  <2> QED
    BY <1>p, <1>s, <2>1, <2>2, <2>3, NothingInIt DEF Placed
<1>6. ASSUME UNCHANGED <<arrived, readings, events, write, stored, dropped,
                         lost>> PROVE Placed'
  BY <1>p, <1>s, <1>6 DEF Placed
<1>7. CASE Tick \/ TimerFires \/ Shutdown \/ Restart \/ Aggregate \/ UNCHANGED vars
  <2>1. UNCHANGED <<arrived, readings, events, write, stored, dropped, lost>>
    BY <1>7 DEF Tick, TimerFires, Shutdown, Restart, Aggregate, vars, buffer, history
  <2> QED
    BY <1>6, <2>1
<1> QED
  BY <1>1, <1>2, <1>3, <1>4, <1>5, <1>7 DEF Next, Writer, Process

LEMMA WriteInvKept == RowsInv /\ [Next]_vars => WriteInv'
<1> SUFFICES ASSUME RowsInv, [Next]_vars PROVE WriteInv'
  OBVIOUS
<1>p. DataTypes /\ WriteInv
  BY DEF RowsInv
<1>0. ASSUME write' = NoWrite PROVE WriteInv'
  BY <1>0 DEF WriteInv, NoWrite
<1>1. ASSUME UNCHANGED <<write, stored>> PROVE WriteInv'
  BY <1>p, <1>1 DEF WriteInv
<1>2. CASE BeginWrite
  <2>1. /\ write'.step \in {"idle", "readings"} \/ write'.readings = <<>>
        /\ write'.step = "idle" => write' = NoWrite
    BY <1>2, BeginMoves
  <2> QED
    BY <2>1, NothingInIt DEF WriteInv
<1>3. CASE Insert
  <2>1. \/ /\ stored' = stored \o Batch
           /\ Batch = write.readings
           /\ write'.step = "events" /\ write'.readings = write.readings
        \/ write' = NoWrite
    BY <1>3, InsertMoves
  <2>2. Range(stored \o Batch) = Range(stored) \cup Range(Batch)
    BY <1>p, StoreMoves
  <2> QED
    BY <1>0, <2>1, <2>2 DEF WriteInv
<1>4. CASE \/ \E committed \in BOOLEAN : InsertFails(committed) \/ Crash(committed)
           \/ Exit
  <2>1. write' = NoWrite
    BY <1>4 DEF InsertFails, Crash, Exit, Ends
  <2> QED
    BY <1>0, <2>1
<1>5. CASE \/ \E kind \in {"reading", "event"} : Add(kind)
           \/ Tick \/ TimerFires \/ Shutdown \/ Restart \/ Aggregate \/ UNCHANGED vars
  <2>1. UNCHANGED <<write, stored>>
    BY <1>5 DEF Add, Tick, TimerFires, Shutdown, Restart, Aggregate, vars, buffer,
      history
  <2> QED
    BY <1>1, <2>1
<1> QED
  BY <1>2, <1>3, <1>4, <1>5 DEF Next, Writer, Process

LEMMA OneQueue ==
  ASSUME NEW s \in Seq(Nat), Ascending(s)
  PROVE  Ascending(s \o <<>>) /\ Ascending(<<>> \o s)
BY NothingBehind

\* A new row goes behind all that is on its way.
LEMMA Queues ==
  ASSUME NEW s \in Seq(Row), NEW t \in Seq(Row), NEW n \in Row, Ascending(s \o t),
         \A m \in Range(s) \cup Range(t) : m < n
  PROVE  Ascending(s \o Append(t, n))
<1> DEFINE u == s \o t
<1>1. u \in Seq(Row) /\ Range(u) = Range(s) \cup Range(t) /\ s \o Append(t, n) = Append(u, n)
  BY RangeConcat, ConcatFacts, AppendBehind
<1>0. Ascending(u)
  OBVIOUS
<1> HIDE DEF u
<1>2. u \in Seq(Nat) /\ n \in Nat
  BY <1>1, RowsAreNumbers, ConstantsAssumption DEF Row
<1>3. \A i \in 1..Len(u) : u[i] < n
  BY <1>1, SeqFacts
<1> QED
  BY <1>0, <1>1, <1>2, <1>3, AscendingAppend

LEMMA QueueInvKept == RowsInv /\ [Next]_vars => QueueInv'
<1> SUFFICES ASSUME RowsInv, [Next]_vars PROVE QueueInv'
  OBVIOUS
<1>p. DataTypes /\ Placed /\ QueueInv
  BY DEF RowsInv
<1>q. /\ readings \in Seq(Nat) /\ events \in Seq(Nat)
      /\ write.readings \in Seq(Nat) /\ write.events \in Seq(Nat)
      /\ readings \in Seq(Row) /\ events \in Seq(Row)
      /\ write.readings \in Seq(Row) /\ write.events \in Seq(Row)
  BY <1>p, BatchTyped, RowsAreNumbers
<1>a. /\ Ascending(readings) /\ Ascending(events)
      /\ Ascending(write.readings) /\ Ascending(write.events)
  BY <1>p, <1>q, AscendingParts DEF QueueInv
<1>e. Ascending(<<>>) /\ <<>> \in Seq(Nat)
  BY DEF Ascending
<1>1. ASSUME NEW kind \in {"reading", "event"}, Add(kind) PROVE QueueInv'
  <2> DEFINE n == Len(arrived) + 1
  <2>1. /\ n \in Row /\ \A m \in Arrived : m < n
        /\ readings' = (IF kind = "reading" THEN Append(readings, n) ELSE readings)
        /\ events' = (IF kind = "event" THEN Append(events, n) ELSE events)
        /\ write' = write
    BY <1>1, AddMoves
  <2> HIDE DEF n
  <2>2. /\ \A m \in Range(write.readings) \cup Range(readings) : m < n
        /\ \A m \in Range(write.events) \cup Range(events) : m < n
    BY <1>p, <2>1, RowFacts DEF Placed
  <2>3. /\ Ascending(write.readings \o Append(readings, n))
        /\ Ascending(write.events \o Append(events, n))
    BY <1>p, <1>q, <2>1, <2>2, Queues DEF QueueInv
  <2> QED
    BY <1>p, <2>1, <2>3 DEF QueueInv
<1>2. CASE BeginWrite
  <2>1. /\ write'.readings = readings /\ write'.events = events
        /\ readings' = <<>> /\ events' = <<>>
    BY <1>2, BeginMoves
  <2>2. Ascending(readings \o <<>>) /\ Ascending(events \o <<>>)
    BY <1>a, <1>q, OneQueue
  <2> QED
    BY <2>1, <2>2 DEF QueueInv
<1>3. CASE Insert
  <2>1. /\ UNCHANGED <<readings, events>>
        /\ \/ write'.readings = write.readings /\ write'.events = write.events
           \/ write'.readings = <<>> /\ write'.events = <<>>
    BY <1>3, InsertMoves DEF NoWrite
  <2>2. Ascending(<<>> \o readings) /\ Ascending(<<>> \o events)
    BY <1>a, <1>q, OneQueue
  <2> QED
    BY <1>p, <2>1, <2>2 DEF QueueInv
<1>4. ASSUME NEW committed \in BOOLEAN, InsertFails(committed) PROVE QueueInv'
  <2>1. /\ write' = NoWrite /\ events' = write.events \o events /\ Ascending(readings')
    BY <1>4, FailMoves
  <2>2. readings' \in Seq(Nat) /\ events' \in Seq(Nat) /\ Ascending(events')
    <3>1. readings' \in Seq(Row) /\ events' \in Seq(Row)
      BY <1>p, <1>4, PutBackTyped DEF InsertFails
    <3> QED
      BY <1>p, <2>1, <3>1, RowsAreNumbers DEF QueueInv
  <2>3. write'.readings = <<>> /\ write'.events = <<>>
    BY <2>1 DEF NoWrite
  <2>4. Ascending(<<>> \o readings') /\ Ascending(<<>> \o events')
    BY <2>1, <2>2, OneQueue
  <2> QED
    BY <2>3, <2>4 DEF QueueInv
<1>5. CASE Exit \/ \E committed \in BOOLEAN : Crash(committed)
  <2>1. write' = NoWrite /\ readings' = <<>> /\ events' = <<>>
    BY <1>5, EndMoves
  <2>2. write'.readings = <<>> /\ write'.events = <<>>
    BY <2>1 DEF NoWrite
  <2>3. Ascending(<<>> \o <<>>)
    BY <1>e, OneQueue
  <2> QED
    BY <2>1, <2>2, <2>3 DEF QueueInv
<1>7. CASE Tick \/ TimerFires \/ Shutdown \/ Restart \/ Aggregate \/ UNCHANGED vars
  <2>1. UNCHANGED <<readings, events, write>>
    BY <1>7 DEF Tick, TimerFires, Shutdown, Restart, Aggregate, vars, buffer, history
  <2> QED
    BY <1>p, <2>1 DEF QueueInv
<1> QED
  BY <1>1, <1>2, <1>3, <1>4, <1>5, <1>7 DEF Next, Writer, Process

LEMMA KeptInvKept == RowsInv /\ [Next]_vars => KeptInv'
<1> SUFFICES ASSUME RowsInv, [Next]_vars PROVE KeptInv'
  OBVIOUS
<1>p. DataTypes /\ Placed /\ KeptInv
  BY DEF RowsInv
<1>s. arrived' = arrived => \A kind : RowsOf(kind)' = RowsOf(kind)
  BY DEF Arrived, RowsOf
<1>1. ASSUME NEW kind \in {"reading", "event"}, Add(kind) PROVE KeptInv'
  <2> DEFINE n == Len(arrived) + 1
  <2>1. /\ n \in Row /\ Arrived' = Arrived \cup {n} /\ n \notin Arrived
        /\ \A m \in Arrived : arrived'[m] = arrived[m]
        /\ arrived'[n] = [kind |-> kind, bucket |-> now]
        /\ readings' = (IF kind = "reading" THEN Append(readings, n) ELSE readings)
        /\ events' = (IF kind = "event" THEN Append(events, n) ELSE events)
        /\ UNCHANGED <<write, stored, dropped, lost>>
    BY <1>1, AddMoves
  <2> HIDE DEF n
  <2>2. \A k : RowsOf(k)' \subseteq RowsOf(k) \cup (IF k = kind THEN {n} ELSE {})
    BY <2>1 DEF RowsOf
  <2>3. Range(Append(readings, n)) = Range(readings) \cup {n} /\ Range(Append(events, n)) = Range(events) \cup {n}
    BY <1>p, <2>1, RangeAppend DEF DataTypes
  <2>4. CASE kind = "reading"
    <3>1. RowsOf("reading")' \subseteq RowsOf("reading") \cup {n} /\ RowsOf("event")' \subseteq RowsOf("event")
      BY <2>2, <2>4
    <3>2. Range(readings)' = Range(readings) \cup {n} /\ events' = events
      BY <2>1, <2>3, <2>4
    <3> QED
      BY <1>p, <2>1, <3>1, <3>2 DEF KeptInv, Gone
  <2>5. CASE kind = "event"
    <3>1. RowsOf("event")' \subseteq RowsOf("event") \cup {n} /\ RowsOf("reading")' \subseteq RowsOf("reading")
      BY <2>2, <2>5
    <3>2. Range(events)' = Range(events) \cup {n} /\ readings' = readings
      BY <2>1, <2>3, <2>5
    <3> QED
      BY <1>p, <2>1, <3>1, <3>2 DEF KeptInv, Gone
  <2> QED
    BY <2>4, <2>5
<1>2. CASE BeginWrite
  <2>1. /\ write.readings = <<>> /\ write.events = <<>>
        /\ write'.readings = readings /\ write'.events = events
        /\ UNCHANGED <<arrived, stored, dropped, lost>>
    BY <1>2, BeginMoves
  <2> QED
    BY <1>p, <1>s, <2>1, NothingInIt DEF KeptInv, Gone
<1>3. CASE Insert
  <2>1. /\ stored' = stored \o Batch
        /\ UNCHANGED <<arrived, readings, events, dropped, lost>>
        /\ \/ write'.readings = write.readings /\ write'.events = write.events
           \/ Range(write.readings) \cup Range(write.events) \subseteq Range(stored \o Batch)
    BY <1>3, InsertMoves
  <2>2. Range(stored \o Batch) = Range(stored) \cup Range(Batch)
    BY <1>p, StoreMoves
  <2> QED
    BY <1>p, <1>s, <2>1, <2>2 DEF KeptInv, Gone
<1>4. ASSUME NEW committed \in BOOLEAN, InsertFails(committed) PROVE KeptInv'
  <2>1. /\ Range(stored) \subseteq Range(stored')
        /\ UNCHANGED <<arrived, lost>>
        /\ Range(events') = Range(write.events) \cup Range(events)
        /\ Range(write.readings) \cup Range(readings) \cup dropped = Range(readings') \cup dropped'
    BY <1>4, FailMoves
  <2> QED
    BY <1>p, <1>s, <2>1 DEF KeptInv, Gone
<1>5. CASE Exit \/ \E committed \in BOOLEAN : Crash(committed)
  <2>1. /\ Range(stored) \subseteq Range(stored')
        /\ UNCHANGED <<arrived, dropped>>
        /\ lost \subseteq lost'
        /\ Range(readings) \cup Range(events) \cup Range(write.readings) \cup Range(write.events)
              \subseteq lost' \cup Range(stored')
    BY <1>5, EndMoves
  <2> QED
    BY <1>p, <1>s, <2>1 DEF KeptInv, Gone
<1>7. CASE Tick \/ TimerFires \/ Shutdown \/ Restart \/ Aggregate \/ UNCHANGED vars
  <2>1. UNCHANGED <<arrived, readings, events, write, stored, dropped, lost>>
    BY <1>7 DEF Tick, TimerFires, Shutdown, Restart, Aggregate, vars, buffer, history
  <2> QED
    BY <1>p, <1>s, <2>1 DEF KeptInv, Gone
<1> QED
  BY <1>1, <1>2, <1>3, <1>4, <1>5, <1>7 DEF Next, Writer, Process

LEMMA RowsInvKept == RowsInv /\ [Next]_vars => RowsInv'
<1> SUFFICES ASSUME RowsInv, [Next]_vars PROVE RowsInv'
  OBVIOUS
<1>1. DataTypes'
  BY DataTypesKept DEF RowsInv
<1> QED
  BY <1>1, PlacedKept, WriteInvKept, QueueInvKept, KeptInvKept DEF RowsInv

LEMMA RowsInvAtStart == Init => RowsInv
<1> SUFFICES ASSUME Init PROVE RowsInv
  OBVIOUS
<1>1. DataTypes
  BY TypesAtStart, TypesSplit
<1>2. /\ readings = <<>> /\ events = <<>> /\ write.readings = <<>> /\ write.events = <<>>
      /\ stored = <<>> /\ arrived = <<>> /\ dropped = {} /\ lost = {} /\ write = NoWrite
  BY DEF Init, NoWrite
<1>3. Len(arrived) = 0 /\ Arrived = {}
  BY <1>2 DEF Arrived
<1>4. RowsOf("reading") = {} /\ RowsOf("event") = {}
  BY <1>3 DEF RowsOf
<1>5. Placed
  BY <1>2, <1>3, NothingInIt, ConstantsAssumption DEF Placed
<1>6. WriteInv
  BY <1>2 DEF WriteInv, NoWrite
<1>7. QueueInv
  <2>1. Ascending(<<>>) /\ <<>> \in Seq(Nat)
    BY DEF Ascending
  <2>2. Ascending(<<>> \o <<>>)
    BY <2>1, OneQueue
  <2> QED
    BY <1>2, <2>2 DEF QueueInv
<1>8. KeptInv
  BY <1>4 DEF KeptInv
<1> QED
  BY <1>1, <1>5, <1>6, <1>7, <1>8 DEF RowsInv

----------------------------------------------------------------------------
(* What is given up                                                         *)

\* What is kept is newer than what was given up, and there was enough of it.
DropInv ==
  \A d \in dropped :
    /\ \A n \in Range(write.readings) \cup Range(readings) : d < n
    /\ MaxBuffered <= Cardinality(Preferred(d))

LEMMA PreferredFinite ==
  ASSUME NEW S, NEW a \in Seq(S), NEW d
  PROVE  LET T == {n \in DOMAIN a : n > d \/ a[n].kind # "reading"}
         IN  IsFiniteSet(T) /\ Cardinality(T) \in Nat
<1>1. Len(a) \in Nat /\ DOMAIN a = 1..Len(a)
  BY SeqFacts
<1>2. IsFiniteSet(1..Len(a))
  BY <1>1, FS_Interval
<1> QED
  BY <1>1, <1>2, FS_Subset, FS_CardinalityType

\* More rows, more that are preferred.
LEMMA PreferredGrows ==
  ASSUME DataTypes, DataTypes', NEW d, Arrived \subseteq Arrived',
         \A m \in Arrived : arrived'[m] = arrived[m]
  PROVE  Cardinality(Preferred(d)) <= Cardinality(Preferred(d)')
<1>1. DOMAIN arrived = Arrived /\ DOMAIN arrived' = Arrived'
  BY SeqFacts DEF DataTypes, Arrived
<1>2. IsFiniteSet(Preferred(d)')
  BY PreferredFinite DEF DataTypes, Preferred, IsReading
<1>3. Preferred(d) \subseteq Preferred(d)'
  BY <1>1 DEF Preferred, IsReading
<1> QED
  BY <1>2, <1>3, FS_Subset

\* Two queues of different rows are as many rows as both are long.
LEMMA QueuesCount ==
  ASSUME NEW s \in Seq(Nat), NEW t \in Seq(Nat), Ascending(s), Ascending(t),
         NEW T, IsFiniteSet(T), Range(s) \subseteq T, Range(t) \subseteq T,
         Range(s) \cap Range(t) = {}
  PROVE  Len(s) + Len(t) <= Cardinality(T)
<1> DEFINE u == s \o t
           n == Len(s) + Len(t)
<1>1. /\ u \in Seq(Nat) /\ Len(s) \in Nat /\ Len(t) \in Nat /\ Len(u) = n
      /\ \A i \in 1..Len(s) : u[i] = s[i] /\ s[i] \in Range(s) /\ s[i] \in Nat
      /\ \A i \in 1..Len(t) : u[Len(s) + i] = t[i] /\ t[i] \in Range(t) /\ t[i] \in Nat
  BY ConcatFacts, SeqFacts
<1> HIDE DEF u
<1>2. u \in [1..n -> Nat]
  BY <1>1, LenProperties
<1>4. \A i \in 1..n : i \in 1..Len(s) \/ (i - Len(s) \in 1..Len(t) /\ Len(s) + (i - Len(s)) = i)
  BY <1>1
<1>5. ASSUME NEW i \in 1..n PROVE u[i] \in T
  <2>1. CASE i \in 1..Len(s)
    BY <1>1, <2>1
  <2>2. CASE i \notin 1..Len(s)
    <3>1. i - Len(s) \in 1..Len(t) /\ Len(s) + (i - Len(s)) = i
      BY <1>4, <2>2
    <3> QED
      BY <1>1, <3>1
  <2> QED
    BY <2>1, <2>2
<1>6. ASSUME NEW i \in 1..n, NEW j \in 1..n, i < j PROVE u[i] # u[j]
  <2>1. CASE j \in 1..Len(s)
    <3>1. i \in 1..Len(s) /\ s[i] < s[j]
      BY <1>1, <1>6, <2>1 DEF Ascending
    <3> QED
      BY <1>1, <2>1, <3>1
  <2>2. CASE i \in 1..Len(s) /\ j \notin 1..Len(s)
    <3>1. u[i] \in Range(s)
      BY <1>1, <2>2
    <3>2. u[j] \in Range(t)
      <4>1. j - Len(s) \in 1..Len(t) /\ Len(s) + (j - Len(s)) = j
        BY <1>4, <2>2
      <4> QED
        BY <1>1, <4>1
    <3> QED
      BY <3>1, <3>2
  <2>3. CASE i \notin 1..Len(s) /\ j \notin 1..Len(s)
    <3>0. /\ i - Len(s) \in 1..Len(t) /\ Len(s) + (i - Len(s)) = i
          /\ j - Len(s) \in 1..Len(t) /\ Len(s) + (j - Len(s)) = j
          /\ i - Len(s) < j - Len(s)
      BY <1>1, <1>4, <1>6, <2>3
    <3>1. /\ i - Len(s) \in 1..Len(t) /\ u[i] = t[i - Len(s)]
          /\ j - Len(s) \in 1..Len(t) /\ u[j] = t[j - Len(s)]
          /\ i - Len(s) < j - Len(s)
      BY <1>1, <3>0
    <3>2. t[i - Len(s)] < t[j - Len(s)]
      BY <3>1 DEF Ascending
    <3> QED
      BY <1>1, <3>1, <3>2
  <2>4. i \in 1..Len(s) \/ j \notin 1..Len(s)
    BY <1>1, <1>6
  <2> QED
    BY <2>1, <2>2, <2>3, <2>4
<1>7. \A i, j \in 1..n : u[i] = u[j] => i = j
  <2> SUFFICES ASSUME NEW i \in 1..n, NEW j \in 1..n, i # j PROVE u[i] # u[j]
    OBVIOUS
  <2>1. i < j \/ j < i
    BY <1>1
  <2> QED
    BY <1>6, <2>1
<1>8. u \in [1..n -> T]
  BY <1>2, <1>5
<1>9. u \in Injection(1..n, T)
  BY <1>2, <1>7, <1>8 DEF Injection, IsInjective
<1>10. Cardinality(1..n) = n
  BY <1>1, FS_Interval
<1> QED
  BY <1>9, <1>10, FS_Injection

\* The oldest readings go, and as many rows as there is room for stay.
LEMMA FailDrops ==
  ASSUME RowsInv, RowsInv', DropInv, NEW committed \in BOOLEAN, InsertFails(committed)
  PROVE  DropInv'
<1> DEFINE all == write.readings \o readings
<1>1. DataTypes /\ DataTypes'
  BY DEF RowsInv
<1>2. PICK n \in 0..Len(all) :
        /\ readings' = SubSeq(all, n + 1, Len(all))
        /\ events' = write.events \o events
        /\ dropped' = dropped \cup Range(SubSeq(all, 1, n))
        /\ n > 0 => MaxBuffered <= Len(all) - n + Len(events) + Len(write.events)
  BY <1>1, PutsBack DEF InsertFails
<1>3. /\ all \in Seq(Nat) /\ Len(all) \in Nat
      /\ write.events \in Seq(Nat) /\ events \in Seq(Nat)
      /\ Range(all) = Range(write.readings) \cup Range(readings)
  BY <1>1, BatchTyped, RowsAreNumbers, RangeConcat, SeqFacts
<1>4. write' = NoWrite /\ arrived' = arrived /\ NoWrite.readings = <<>>
      /\ Ascending(readings') /\ Ascending(events') /\ Ascending(all)
  BY FailMoves DEF RowsInv, QueueInv, NoWrite
<1> HIDE DEF all
<1> DEFINE gone == SubSeq(all, 1, n)
<1>5. /\ gone \in Seq(Nat) /\ Len(gone) = n /\ \A i \in 1..n : gone[i] = all[i]
      /\ readings' \in Seq(Nat) /\ Len(readings') = Len(all) - n
      /\ \A i \in 1..(Len(all) - n) : readings'[i] = all[n + i]
  BY <1>2, <1>3, Cut
<1> HIDE DEF gone
<1>6. /\ \A x : x \in Range(gone) <=> \E i \in 1..n : gone[i] = x
      /\ \A x : x \in Range(readings') <=> \E i \in 1..(Len(all) - n) : readings'[i] = x
  BY <1>5, SeqFacts
<1>7. Range(readings') \subseteq Range(all)
  BY <1>2, <1>3, RangeOfCut
<1>8. ASSUME NEW d \in Range(gone), NEW m \in Range(readings') PROVE d < m
  <2>1. PICK i \in 1..n : all[i] = d
    BY <1>5, <1>6
  <2>2. PICK j \in 1..(Len(all) - n) : all[n + j] = m
    <3>1. PICK j \in 1..(Len(all) - n) : readings'[j] = m
      BY <1>6
    <3> QED
      BY <1>5, <3>1
  <2>3. i \in 1..Len(all) /\ n + j \in 1..Len(all) /\ i < n + j
    BY <1>3
  <2> QED
    BY <1>4, <2>1, <2>2, <2>3 DEF Ascending
<1>9. ASSUME NEW d \in dropped', NEW m \in Range(readings') PROVE d < m
  BY <1>2, <1>3, <1>7, <1>8 DEF DropInv, gone
<1>10. ASSUME NEW d \in dropped' PROVE MaxBuffered <= Cardinality(Preferred(d)')
  <2>1. CASE d \in dropped
    BY <1>4, <2>1 DEF DropInv, Preferred, IsReading
  <2>2. CASE d \in Range(gone)
    <3> DEFINE T == Preferred(d)'
    <3>1. n > 0
      BY <1>6, <2>2
    <3>2. MaxBuffered <= Len(readings') + Len(events')
      <4>1. Len(events') = Len(write.events) + Len(events)
            /\ Len(write.events) \in Nat /\ Len(events) \in Nat
        BY <1>2, <1>3, ConcatFacts
      <4>2. MaxBuffered <= Len(all) - n + Len(events) + Len(write.events)
        BY <1>2, <3>1
      <4>3. Len(readings') = Len(all) - n
        BY <1>5
      <4>4. \A k, a, b, e, w \in Nat : k <= a - b + e + w => k <= (a - b) + (w + e)
        OBVIOUS
      <4>5. Len(all) \in Nat /\ n \in Nat
        BY <1>3
      <4>6. MaxBuffered <= (Len(all) - n) + (Len(write.events) + Len(events))
        BY <4>1, <4>2, <4>4, <4>5, ConstantsAssumption
      <4> QED
        BY <4>1, <4>3, <4>6
    <3>3. Range(readings') \subseteq RowsOf("reading")' /\ Range(events') \subseteq RowsOf("event")'
      BY DEF RowsInv, Placed
    <3>4. DOMAIN arrived' = Arrived'
      BY <1>1, SeqFacts DEF DataTypes, Arrived
    <3>5. Range(readings') \subseteq T
      BY <1>5, <1>9, <3>3, <3>4, SeqFacts DEF Preferred, RowsOf
    <3>6. Range(events') \subseteq T
      BY <3>3, <3>4 DEF Preferred, IsReading, RowsOf
    <3>7. Range(readings') \cap Range(events') = {}
      BY <3>3 DEF RowsOf
    <3>8. IsFiniteSet(T) /\ Cardinality(T) \in Nat
      BY <1>1, PreferredFinite DEF DataTypes, Preferred, IsReading
    <3>9. events' \in Seq(Nat) /\ Len(events') \in Nat /\ Len(readings') \in Nat
      BY <1>2, <1>3, <1>5, ConcatFacts, SeqFacts
    <3> HIDE DEF T
    <3>10. Len(readings') + Len(events') <= Cardinality(T)
      BY <1>4, <1>5, <3>5, <3>6, <3>7, <3>8, <3>9, QueuesCount
    <3>11. MaxBuffered <= Cardinality(T)
      BY <3>2, <3>8, <3>9, <3>10, ConstantsAssumption
    <3> QED
      BY <3>11 DEF T
  <2> QED
    BY <1>2, <2>1, <2>2 DEF gone
<1> QED
  BY <1>4, <1>9, <1>10, NothingInIt DEF DropInv

LEMMA DropInvKept == RowsInv /\ DropInv /\ [Next]_vars => DropInv'
<1> SUFFICES ASSUME RowsInv, DropInv, [Next]_vars PROVE DropInv'
  OBVIOUS
<1>p. DataTypes /\ DataTypes' /\ Placed /\ RowsInv'
  BY RowsInvKept DEF RowsInv
<1>0. ASSUME arrived' = arrived, dropped' = dropped,
             Range(write'.readings) \cup Range(readings')
               \subseteq Range(write.readings) \cup Range(readings)
      PROVE  DropInv'
  BY <1>0 DEF DropInv, Preferred, IsReading
<1>1. ASSUME NEW kind \in {"reading", "event"}, Add(kind) PROVE DropInv'
  <2> DEFINE n == Len(arrived) + 1
  <2>1. /\ n \in Row /\ Arrived' = Arrived \cup {n}
        /\ \A m \in Arrived : m < n
        /\ \A m \in Arrived : arrived'[m] = arrived[m]
        /\ readings' = (IF kind = "reading" THEN Append(readings, n) ELSE readings)
        /\ UNCHANGED <<write, dropped>>
    BY <1>1, AddMoves
  <2> HIDE DEF n
  <2>2. Range(readings') \subseteq Range(readings) \cup {n}
    BY <1>p, <2>1, RangeAppend DEF DataTypes
  <2>3. ASSUME NEW d \in dropped PROVE MaxBuffered <= Cardinality(Preferred(d)')
    <3>1. Cardinality(Preferred(d)) <= Cardinality(Preferred(d)')
      BY <1>p, <2>1, PreferredGrows
    <3>2. Cardinality(Preferred(d)) \in Nat
      BY <1>p, PreferredFinite DEF DataTypes, Preferred, IsReading
    <3>3. Cardinality(Preferred(d)') \in Nat
      BY <1>p, PreferredFinite DEF DataTypes, Preferred, IsReading
    <3> QED
      BY <3>1, <3>2, <3>3, ConstantsAssumption DEF DropInv
  <2>4. \A d \in dropped : d < n
    BY <1>p, <2>1 DEF Placed, RowsOf
  <2> QED
    BY <2>1, <2>2, <2>3, <2>4 DEF DropInv
<1>2. CASE BeginWrite
  <2>1. /\ write'.readings = readings /\ readings' = <<>>
        /\ UNCHANGED <<arrived, dropped>>
    BY <1>2, BeginMoves
  <2> QED
    BY <1>0, <2>1, NothingInIt
<1>3. CASE Insert
  <2>1. /\ UNCHANGED <<arrived, readings, dropped>>
        /\ write'.readings \in {<<>>, write.readings}
    BY <1>3, InsertMoves DEF NoWrite
  <2> QED
    BY <1>0, <2>1, NothingInIt
<1>4. ASSUME NEW committed \in BOOLEAN, InsertFails(committed) PROVE DropInv'
  BY <1>p, <1>4, FailDrops
<1>5. CASE Exit \/ \E committed \in BOOLEAN : Crash(committed)
  <2>1. /\ write' = NoWrite /\ readings' = <<>> /\ UNCHANGED <<arrived, dropped>>
        /\ NoWrite.readings = <<>>
    BY <1>5, EndMoves DEF NoWrite
  <2> QED
    BY <1>0, <2>1, NothingInIt
<1>7. CASE Tick \/ TimerFires \/ Shutdown \/ Restart \/ Aggregate \/ UNCHANGED vars
  <2>1. UNCHANGED <<arrived, readings, write, dropped>>
    BY <1>7 DEF Tick, TimerFires, Shutdown, Restart, Aggregate, vars, buffer, history
  <2> QED
    BY <1>0, <2>1
<1> QED
  BY <1>1, <1>2, <1>3, <1>4, <1>5, <1>7 DEF Next, Writer, Process

----------------------------------------------------------------------------
(* The order in the table                                                   *)

\* Row m is in the table before place i.
Before(m, i) == \E j \in 1..(i - 1) : stored[j] = m

\* A row has behind it every earlier one of its kind that will ever be stored.
OrderInv ==
  \A i \in 1..Len(stored) : \A m \in Arrived :
    m < stored[i] /\ arrived[m].kind = arrived[stored[i]].kind => m \in Gone \/ Before(m, i)

\* A batch can follow what is stored: what it leaves out is gone, stored already, or
\* comes later.
LEMMA BatchFollows ==
  ASSUME RowsInv, NEW k \in 1..Len(Batch), NEW m \in Arrived,
         m < Batch[k], arrived[m].kind = arrived[Batch[k]].kind
  PROVE  \/ m \in Gone \/ m \in Range(stored)
         \/ \E j \in 1..(k - 1) : Batch[j] = m
<1>p. DataTypes /\ Placed /\ QueueInv /\ KeptInv
  BY DEF RowsInv
<1>q. /\ readings \in Seq(Nat) /\ events \in Seq(Nat)
      /\ write.readings \in Seq(Nat) /\ write.events \in Seq(Nat)
  BY <1>p, BatchTyped, RowsAreNumbers
<1>n. m \in Nat
  BY <1>p, RowFacts DEF Arrived
<1>1. ASSUME NEW s \in Seq(Nat), NEW t \in Seq(Nat), Ascending(s \o t), Batch = s,
             m \in Range(s) \cup Range(t)
      PROVE  \E j \in 1..(k - 1) : Batch[j] = m
  <2>1. /\ Ascending(s) /\ \A i \in 1..Len(s), j \in 1..Len(t) : s[i] < t[j]
        /\ Len(s) \in Nat /\ Len(t) \in Nat
        /\ \A i \in 1..Len(s) : s[i] \in Nat
        /\ \A i \in 1..Len(t) : t[i] \in Nat
    BY <1>1, AscendingParts, SeqFacts
  <2>2. m \notin Range(t)
    <3> SUFFICES ASSUME NEW j \in 1..Len(t), t[j] = m PROVE FALSE
      BY <1>1, SeqFacts
    <3>1. s[k] < t[j] /\ s[k] \in Nat /\ t[j] < s[k]
      BY <1>1, <2>1
    <3> QED
      BY <2>1, <3>1
  <2>3. PICK j \in 1..Len(s) : s[j] = m
    BY <1>1, <2>2, SeqFacts
  <2>4. j < k
    <3>1. s[j] < s[k] /\ s[j] \in Nat /\ s[k] \in Nat
      BY <1>1, <2>1, <2>3
    <3>2. k < j => s[k] < s[j]
      BY <1>1, <2>1 DEF Ascending
    <3>3. k # j
      BY <3>1
    <3> QED
      BY <1>1, <2>1, <3>1, <3>2, <3>3
  <2>5. j \in 1..(k - 1)
    BY <1>1, <2>1, <2>4
  <2> QED
    BY <1>1, <2>3, <2>5
<1>2. Batch[k] \in Range(Batch)
  BY <1>p, BatchTyped, SeqFacts
<1>3. CASE write.step = "readings"
  <2>1. Batch = write.readings
    BY <1>3 DEF Batch
  <2>2. arrived[Batch[k]].kind = "reading"
    BY <1>p, <1>2, <2>1 DEF Placed, RowsOf
  <2>3. m \in RowsOf("reading")
    BY <2>2 DEF RowsOf
  <2>4. m \in Range(write.readings) \cup Range(readings) \cup Range(stored) \cup Gone
    BY <1>p, <2>3 DEF KeptInv
  <2> QED
    BY <1>1, <1>p, <1>q, <2>1, <2>4 DEF QueueInv
<1>4. CASE write.step # "readings"
  <2>1. Batch = write.events
    BY <1>4 DEF Batch
  <2>2. arrived[Batch[k]].kind = "event"
    BY <1>p, <1>2, <2>1 DEF Placed, RowsOf
  <2>3. m \in RowsOf("event")
    BY <2>2 DEF RowsOf
  <2>4. m \in Range(write.events) \cup Range(events) \cup Range(stored) \cup lost
    BY <1>p, <2>3 DEF KeptInv
  <2> QED
    BY <1>1, <1>p, <1>q, <2>1, <2>4 DEF QueueInv, Gone
<1> QED
  BY <1>3, <1>4

LEMMA OrderAfterBatch ==
  ASSUME RowsInv, OrderInv, stored' = stored \o Batch, arrived' = arrived, Gone \subseteq Gone'
  PROVE  OrderInv'
<1>p. DataTypes
  BY DEF RowsInv
<1>1. /\ Len(stored) \in Nat /\ Len(Batch) \in Nat /\ Len(stored') = Len(stored) + Len(Batch)
      /\ \A i \in 1..Len(stored) : stored'[i] = stored[i]
      /\ \A i \in 1..Len(Batch) : stored'[Len(stored) + i] = Batch[i]
  BY <1>p, StoreMoves
<1>2. Arrived' = Arrived
  BY DEF Arrived
<1>3. \A x : x \in Range(stored) <=> \E i \in 1..Len(stored) : stored[i] = x
  BY <1>p, SeqFacts DEF DataTypes
<1> SUFFICES ASSUME NEW i \in 1..Len(stored'), NEW m \in Arrived,
                    m < stored'[i], arrived[m].kind = arrived[stored'[i]].kind,
                    m \notin Gone'
             PROVE  \E j \in 1..(i - 1) : stored'[j] = m
  BY <1>2 DEF OrderInv, Before
<1>4. CASE i \in 1..Len(stored)
  <2>1. PICK j \in 1..(i - 1) : stored[j] = m
    BY <1>1, <1>4 DEF OrderInv, Before
  <2>2. j \in 1..Len(stored)
    BY <1>1, <1>4
  <2> QED
    BY <1>1, <2>1, <2>2
<1>5. CASE i \notin 1..Len(stored)
  <2>1. PICK k \in 1..Len(Batch) : i = Len(stored) + k
    <3>1. i - Len(stored) \in 1..Len(Batch) /\ i = Len(stored) + (i - Len(stored))
      BY <1>1, <1>5
    <3> QED
      BY <3>1
  <2>2. stored'[i] = Batch[k]
    BY <1>1, <2>1
  <2>3. m \in Range(stored) \/ \E j \in 1..(k - 1) : Batch[j] = m
    BY <2>2, BatchFollows
  <2>4. CASE m \in Range(stored)
    <3>1. PICK j \in 1..Len(stored) : stored[j] = m
      BY <1>3, <2>4
    <3>2. j \in 1..(i - 1)
      BY <1>1, <2>1
    <3> QED
      BY <1>1, <3>1, <3>2
  <2>5. CASE \E j \in 1..(k - 1) : Batch[j] = m
    <3>1. PICK j \in 1..(k - 1) : Batch[j] = m
      BY <2>5
    <3>2. j \in 1..Len(Batch) /\ Len(stored) + j \in 1..(i - 1)
      BY <1>1, <2>1
    <3>3. stored'[Len(stored) + j] = m
      BY <1>1, <3>1, <3>2
    <3> QED
      BY <3>2, <3>3
  <2> QED
    BY <2>3, <2>4, <2>5
<1> QED
  BY <1>4, <1>5

LEMMA OrderWithoutBatch ==
  ASSUME OrderInv, stored' = stored, arrived' = arrived, Gone \subseteq Gone'
  PROVE  OrderInv'
BY DEF OrderInv, Before, Arrived

LEMMA OrderKept == RowsInv /\ OrderInv /\ [Next]_vars => OrderInv'
<1> SUFFICES ASSUME RowsInv, OrderInv, [Next]_vars PROVE OrderInv'
  OBVIOUS
<1>1. ASSUME NEW kind \in {"reading", "event"}, Add(kind) PROVE OrderInv'
  <2> DEFINE n == Len(arrived) + 1
  <2>1. /\ n \in Row /\ Arrived' = Arrived \cup {n} /\ n \notin Arrived
        /\ \A m \in Arrived : m < n
        /\ \A m \in Arrived : arrived'[m] = arrived[m]
        /\ UNCHANGED <<write, stored, dropped, lost>>
    BY <1>1, AddMoves
  <2> HIDE DEF n
  <2>2. \A i \in 1..Len(stored) : stored[i] \in Arrived
    BY SeqFacts DEF RowsInv, DataTypes, Placed
  <2>3. \A i \in 1..Len(stored) : ~(n < stored[i])
    <3>1. \A m \in Arrived : m \in Nat
      BY RowFacts DEF RowsInv, Arrived
    <3>2. n \in Nat
      BY <2>1, ConstantsAssumption DEF Row
    <3> QED
      BY <2>1, <2>2, <3>1, <3>2
  <2> QED
    BY <2>1, <2>2, <2>3 DEF OrderInv, Before, Gone
<1>2. ASSUME NEW committed \in BOOLEAN, InsertFails(committed) PROVE OrderInv'
  <2>1. arrived' = arrived /\ lost' = lost /\ dropped \subseteq dropped'
        /\ (stored' = stored \o Batch \/ stored' = stored)
    BY <1>2, FailMoves
  <2> QED
    BY <2>1, OrderAfterBatch, OrderWithoutBatch DEF Gone
<1>3. CASE Exit \/ \E committed \in BOOLEAN : Crash(committed)
  <2>1. arrived' = arrived /\ dropped' = dropped /\ lost \subseteq lost'
        /\ (stored' = stored \o Batch \/ stored' = stored)
    BY <1>3, EndMoves
  <2> QED
    BY <2>1, OrderAfterBatch, OrderWithoutBatch DEF Gone
<1>4. CASE Insert
  <2>1. arrived' = arrived /\ dropped' = dropped /\ lost' = lost /\ stored' = stored \o Batch
    BY <1>4, InsertMoves
  <2> QED
    BY <2>1, OrderAfterBatch DEF Gone
<1>5. CASE Tick \/ TimerFires \/ BeginWrite \/ Shutdown \/ Restart \/ Aggregate \/ UNCHANGED vars
  <2>1. UNCHANGED <<arrived, stored, dropped, lost>>
    BY <1>5 DEF Tick, TimerFires, BeginWrite, Shutdown, Restart, Aggregate, vars,
      buffer, history
  <2> QED
    BY <2>1, OrderWithoutBatch DEF Gone
<1> QED
  BY <1>1, <1>2, <1>3, <1>4, <1>5 DEF Next, Writer, Process

\* The conjuncts of WrittenInOrder, from the invariants.
LEMMA OrderIsPromised == TypeOK /\ RowsInv /\ OrderInv /\ DropInv => WrittenInOrder
<1> SUFFICES ASSUME TypeOK, RowsInv, OrderInv, DropInv PROVE WrittenInOrder
  OBVIOUS
<1>p. DataTypes /\ Placed /\ KeptInv
  BY DEF RowsInv
<1>1. stored \in Seq(Row) /\ Len(stored) \in Nat /\ DOMAIN stored = 1..Len(stored)
      /\ \A i \in 1..Len(stored) : stored[i] \in Arrived
      /\ Len(arrived) \in Nat /\ DOMAIN arrived = Arrived
  BY <1>p, SeqFacts, RowFacts DEF DataTypes, Placed
<1>2. ASSUME NEW i \in DOMAIN stored, NEW m \in 1..(stored[i] - 1),
             arrived[m].kind = arrived[stored[i]].kind
      PROVE  m \in Range(SubSeq(stored, 1, i - 1)) \cup dropped \cup lost
  <2>1. i \in 1..Len(stored) /\ stored[i] \in 1..Len(arrived)
    BY <1>1 DEF Arrived
  <2>2. m \in Arrived /\ m < stored[i]
    BY <1>1, <2>1 DEF Arrived
  <2>3. m \in Gone \/ Before(m, i)
    BY <1>2, <2>1, <2>2 DEF OrderInv
  <2>4. CASE Before(m, i)
    <3> DEFINE s == SubSeq(stored, 1, i - 1)
    <3>1. i - 1 \in 0..Len(stored)
      BY <1>1, <2>1
    <3>2. s \in Seq(Row) /\ Len(s) = i - 1 /\ \A j \in 1..(i - 1) : s[j] = stored[j]
      BY <1>1, <3>1, Cut
    <3> HIDE DEF s
    <3>3. \A x : x \in Range(s) <=> \E j \in 1..(i - 1) : s[j] = x
      BY <3>2, SeqFacts
    <3>4. m \in Range(s)
      BY <2>4, <3>2, <3>3 DEF Before
    <3> QED
      BY <3>4 DEF s
  <2> QED
    BY <2>3, <2>4 DEF Gone
<1>3. ASSUME NEW n \in DOMAIN arrived, ~IsReading(n) PROVE n \in InMemory \cup Range(stored) \cup lost
  <2>1. n \in RowsOf("event")
    BY <1>1, <1>3, <1>p, RowFacts DEF IsReading, RowsOf
  <2>2. n \in Range(write.events) \cup Range(events) \cup Range(stored) \cup lost
    BY <1>p, <2>1 DEF KeptInv
  <2> QED
    BY <1>p, <2>2, MemoryIs DEF RowsInv
<1>4. ASSUME NEW d \in dropped, NEW n \in InMemory PROVE n \in Preferred(d)
  <2>1. n \in Range(readings) \cup Range(events) \cup Range(write.readings) \cup Range(write.events)
    BY <1>p, <1>4, MemoryIs DEF RowsInv
  <2>2. n \in Range(readings) \cup Range(write.readings) => n > d /\ n \in RowsOf("reading")
    <3>1. d \in Nat /\ \A m \in RowsOf("reading") : m \in Nat
      BY <1>1, <1>p DEF Placed, RowsOf, Arrived
    <3> QED
      BY <1>p, <3>1 DEF DropInv, Placed
  <2>3. n \in Range(events) \cup Range(write.events) => n \in RowsOf("event")
    BY <1>p DEF Placed
  <2>4. n \in RowsOf("event") => n \in DOMAIN arrived /\ ~IsReading(n)
    BY <1>1, <1>p, RowFacts DEF IsReading, RowsOf
  <2>5. n \in RowsOf("reading") => n \in DOMAIN arrived
    BY <1>1, <1>p, RowFacts
  <2> QED
    BY <2>1, <2>2, <2>3, <2>4, <2>5 DEF Preferred
<1> QED
  BY <1>2, <1>3, <1>4 DEF WrittenInOrder, DropInv

----------------------------------------------------------------------------
(* Exactly once, as long as there are no faults                             *)

\* No row is stored twice, and what is yet to be inserted is not stored.
Once ==
  /\ Gone = {}
  /\ \A i, j \in 1..Len(stored) : stored[i] = stored[j] => i = j
  /\ (Range(readings) \cup Range(events) \cup Range(write.events)) \cap Range(stored) = {}
  /\ write.step = "readings" => Range(write.readings) \cap Range(stored) = {}

\* The flushes to begin before an exit are those that are chained, and the last of
\* them has taken everything.
Leaving ==
  /\ exitAfter > 0 => ~timer /\ flushes = exitAfter - 1
  /\ exitAfter = 1 => readings = <<>> /\ events = <<>>

OnceInv == faults = 0 => Once /\ Leaving

\* Two rows of a queue are different rows.
LEMMA QueuesApart ==
  ASSUME NEW s \in Seq(Row), NEW t \in Seq(Row), Ascending(s \o t)
  PROVE  /\ Range(s) \cap Range(t) = {}
         /\ \A i, j \in 1..Len(s) : s[i] = s[j] => i = j
<1>1. s \in Seq(Nat) /\ t \in Seq(Nat)
  BY RowsAreNumbers
<1>2. /\ Ascending(s) /\ \A i \in 1..Len(s), j \in 1..Len(t) : s[i] < t[j]
      /\ Len(s) \in Nat /\ Len(t) \in Nat
      /\ \A i \in 1..Len(s) : s[i] \in Nat
      /\ \A i \in 1..Len(t) : t[i] \in Nat
  BY <1>1, AscendingParts, SeqFacts
<1>3. /\ \A x : x \in Range(s) <=> \E i \in 1..Len(s) : s[i] = x
      /\ \A x : x \in Range(t) <=> \E i \in 1..Len(t) : t[i] = x
  BY SeqFacts
<1>4. \A i \in 1..Len(s), j \in 1..Len(t) : s[i] # t[j]
  BY <1>2
<1>5. ASSUME NEW i \in 1..Len(s), NEW j \in 1..Len(s), s[i] = s[j] PROVE i = j
  <2>1. ~(s[i] < s[j]) /\ ~(s[j] < s[i])
    BY <1>2, <1>5
  <2>2. ~(i < j) /\ ~(j < i)
    BY <2>1, <1>2 DEF Ascending
  <2> QED
    BY <1>2, <2>2
<1> QED
  BY <1>3, <1>4, <1>5

\* The rows of the buffer and of the flush are all different.
LEMMA RowsApart ==
  ASSUME RowsInv
  PROVE  /\ Range(write.readings) \cap Range(readings) = {}
         /\ Range(write.events) \cap Range(events) = {}
         /\ (Range(write.readings) \cup Range(readings)) \cap (Range(write.events) \cup Range(events)) = {}
         /\ \A i, j \in 1..Len(Batch) : Batch[i] = Batch[j] => i = j
<1>1. DataTypes /\ Placed /\ QueueInv
  BY DEF RowsInv
<1>2. /\ write.readings \in Seq(Row) /\ write.events \in Seq(Row)
      /\ readings \in Seq(Row) /\ events \in Seq(Row)
  BY <1>1, BatchTyped
<1>3. /\ Range(write.readings) \cap Range(readings) = {}
      /\ \A i, j \in 1..Len(write.readings) : write.readings[i] = write.readings[j] => i = j
  BY <1>1, <1>2, QueuesApart DEF QueueInv
<1>4. /\ Range(write.events) \cap Range(events) = {}
      /\ \A i, j \in 1..Len(write.events) : write.events[i] = write.events[j] => i = j
  BY <1>1, <1>2, QueuesApart DEF QueueInv
<1>5. (Range(write.readings) \cup Range(readings)) \cap (Range(write.events) \cup Range(events)) = {}
  BY <1>1, RowFacts DEF Placed
<1>6. Batch = write.readings \/ Batch = write.events
  BY DEF Batch
<1> QED
  BY <1>3, <1>4, <1>5, <1>6

LEMMA OnceAfterInsert == RowsInv /\ Once /\ Insert => Once'
<1> SUFFICES ASSUME RowsInv, Once, Insert PROVE Once'
  OBVIOUS
<1>p. DataTypes /\ WriteInv
  BY DEF RowsInv
<1>1. /\ stored' = stored \o Batch
      /\ UNCHANGED <<readings, events, dropped, lost>>
      /\ \/ /\ write.step = "readings" /\ Batch = write.readings
            /\ write'.step = "events"
            /\ write'.readings = write.readings /\ write'.events = write.events
         \/ write' = NoWrite
  BY InsertMoves
<1>2. /\ Range(stored') = Range(stored) \cup Range(Batch)
      /\ Range(Batch) \subseteq Range(write.readings) \cup Range(write.events)
      /\ Len(stored) \in Nat /\ Len(Batch) \in Nat /\ Len(stored') = Len(stored) + Len(Batch)
      /\ \A i \in 1..Len(stored) : stored'[i] = stored[i]
      /\ \A i \in 1..Len(Batch) : stored'[Len(stored) + i] = Batch[i]
  BY <1>p, <1>1, StoreMoves
<1>3. Range(Batch) \cap Range(stored) = {}
  BY DEF Batch, Once
<1>4. \A i, j \in 1..Len(stored') : stored'[i] = stored'[j] => i = j
  <2>1. \A i \in 1..Len(stored') : \/ i \in 1..Len(stored) /\ stored'[i] = stored[i]
                                   \/ /\ i - Len(stored) \in 1..Len(Batch)
                                      /\ stored'[i] = Batch[i - Len(stored)]
                                      /\ i \in Nat
    <3> SUFFICES ASSUME NEW i \in 1..Len(stored'), i \notin 1..Len(stored)
                 PROVE  i - Len(stored) \in 1..Len(Batch) /\ stored'[i] = Batch[i - Len(stored)]
      BY <1>2
    <3>1. i - Len(stored) \in 1..Len(Batch) /\ Len(stored) + (i - Len(stored)) = i
      BY <1>2
    <3> QED
      BY <1>2, <3>1
  <2>2. \A i \in 1..Len(stored) : stored[i] \in Range(stored)
    BY <1>p, SeqFacts DEF DataTypes
  <2>3. \A i \in 1..Len(Batch) : Batch[i] \in Range(Batch)
    BY <1>p, BatchTyped, SeqFacts
  <2>4. \A i, j \in 1..Len(Batch) : Batch[i] = Batch[j] => i = j
    BY RowsApart
  <2>5. ASSUME NEW i \in 1..Len(stored'), NEW j \in 1..Len(stored'), stored'[i] = stored'[j] PROVE i = j
    <3>1. CASE i \in 1..Len(stored) /\ j \in 1..Len(stored)
      BY <2>5, <3>1, <1>2 DEF Once
    <3>2. CASE i \notin 1..Len(stored) /\ j \notin 1..Len(stored)
      <4>1. i - Len(stored) = j - Len(stored)
        BY <2>1, <2>4, <2>5, <3>2
      <4> QED
        BY <1>2, <4>1
    <3>3. CASE (i \in 1..Len(stored)) # (j \in 1..Len(stored))
      BY <1>3, <2>1, <2>2, <2>3, <2>5, <3>3
    <3> QED
      BY <3>1, <3>2, <3>3
  <2> QED
    BY <2>5
<1>5. /\ Range(write.readings) \cap Range(readings) = {}
      /\ Range(write.events) \cap Range(events) = {}
      /\ (Range(write.readings) \cup Range(readings)) \cap (Range(write.events) \cup Range(events)) = {}
  BY RowsApart
<1>6. (Range(readings) \cup Range(events)) \cap Range(stored') = {}
  BY <1>2, <1>5 DEF Once
<1>7. Range(write'.events) \cap Range(stored') = {}
  <2>1. CASE write' = NoWrite
    <3>1. write'.events = <<>>
      BY <2>1 DEF NoWrite
    <3> QED
      BY <3>1, NothingInIt
  <2>2. CASE Batch = write.readings /\ write'.events = write.events
    BY <1>2, <1>5, <2>2 DEF Once
  <2> QED
    BY <1>1, <2>1, <2>2
<1>8. write'.step # "readings"
  BY <1>1 DEF NoWrite
<1>9. Gone' = {}
  BY <1>1 DEF Gone, Once
<1> QED
  BY <1>1, <1>4, <1>6, <1>7, <1>8, <1>9 DEF Once

LEMMA OnceKept == RowsInv /\ OnceInv /\ faults' = 0 /\ [Next]_vars => Once'
<1> SUFFICES ASSUME RowsInv, OnceInv, faults' = 0, [Next]_vars PROVE Once'
  OBVIOUS
<1>p. DataTypes /\ Placed
  BY DEF RowsInv
<1>z. faults = 0
  <2>1. faults \in Nat
    BY <1>p DEF DataTypes
  <2>2. faults' = faults \/ faults' = faults + 1
    BY DEF Next, Writer, Process, Tick, Add, TimerFires, BeginWrite, Insert, Exit,
      InsertFails,
           Shutdown, Restart, Crash, Aggregate, Strike, vars
  <2> QED
    BY <2>1, <2>2
<1>o. Once /\ Leaving
  BY <1>z DEF OnceInv
<1>n. ~Strike
  BY <1>z DEF Strike
<1>1. ASSUME NEW kind \in {"reading", "event"}, Add(kind) PROVE Once'
  <2> DEFINE n == Len(arrived) + 1
  <2>1. /\ n \in Row /\ n \notin Arrived
        /\ readings' = (IF kind = "reading" THEN Append(readings, n) ELSE readings)
        /\ events' = (IF kind = "event" THEN Append(events, n) ELSE events)
        /\ UNCHANGED <<write, stored, dropped, lost>>
    BY <1>1, AddMoves
  <2> HIDE DEF n
  <2>2. Range(Append(readings, n)) = Range(readings) \cup {n} /\ Range(Append(events, n)) = Range(events) \cup {n}
    BY <1>p, <2>1, RangeAppend DEF DataTypes
  <2>3. n \notin Range(stored)
    BY <1>p, <2>1 DEF Placed
  <2>4. Range(readings') \subseteq Range(readings) \cup {n} /\ Range(events') \subseteq Range(events) \cup {n}
    BY <2>1, <2>2
  <2> QED
    BY <1>o, <2>1, <2>3, <2>4 DEF Once, Gone
<1>2. CASE BeginWrite
  <2>1. /\ write'.readings = readings /\ write'.events = events
        /\ readings' = <<>> /\ events' = <<>>
        /\ UNCHANGED <<arrived, stored, dropped, lost>>
    BY <1>2, BeginMoves
  <2> QED
    BY <1>o, <2>1, NothingInIt DEF Once, Gone
<1>3. CASE Insert
  BY <1>o, <1>3, OnceAfterInsert
<1>4. CASE Exit
  <2>1. readings = <<>> /\ events = <<>> /\ write = NoWrite
    BY <1>o, <1>4 DEF Exit, Leaving
  <2>2. InMemory = {}
    BY <2>1, NothingInIt DEF InMemory, NoWrite
  <2>3. /\ stored' = stored /\ dropped' = dropped /\ lost' = lost
        /\ write' = NoWrite /\ readings' = <<>> /\ events' = <<>>
    BY <1>4, <2>2 DEF Exit, Ends
  <2>4. write'.step = "idle" /\ write'.events = <<>>
    BY <2>3 DEF NoWrite
  <2> QED
    BY <1>o, <2>3, <2>4, NothingInIt DEF Once, Gone
<1>5. ASSUME NEW committed \in BOOLEAN, InsertFails(committed) \/ Crash(committed) PROVE FALSE
  BY <1>n, <1>5 DEF InsertFails, Crash
<1>6. CASE Tick \/ TimerFires \/ Shutdown \/ Restart \/ Aggregate \/ UNCHANGED vars
  <2>1. UNCHANGED <<readings, events, write, stored, dropped, lost>>
    BY <1>6 DEF Tick, TimerFires, Shutdown, Restart, Aggregate, vars, buffer, history
  <2> QED
    BY <1>o, <2>1 DEF Once, Gone
<1> QED
  BY <1>1, <1>2, <1>3, <1>4, <1>5, <1>6 DEF Next, Writer, Process

LEMMA LeavingKept == RowsInv /\ OnceInv /\ faults' = 0 /\ [Next]_vars => Leaving'
<1> SUFFICES ASSUME RowsInv, OnceInv, faults' = 0, [Next]_vars PROVE Leaving'
  OBVIOUS
<1>p. exitAfter \in Nat /\ flushes \in Nat /\ faults \in Nat
  BY DEF RowsInv, DataTypes
<1>z. faults = 0
  <2>1. faults' = faults \/ faults' = faults + 1
    BY DEF Next, Writer, Process, Tick, Add, TimerFires, BeginWrite, Insert, Exit,
      InsertFails,
           Shutdown, Restart, Crash, Aggregate, Strike, vars
  <2> QED
    BY <1>p, <2>1
<1>o. Leaving
  BY <1>z DEF OnceInv
<1>n. ~Strike
  BY <1>z DEF Strike
<1>1. ASSUME NEW kind \in {"reading", "event"}, Add(kind) PROVE Leaving'
  <2>1. exitAfter' = 0
    BY <1>1 DEF Add
  <2> QED
    BY <2>1 DEF Leaving
<1>2. CASE TimerFires
  <2>1. exitAfter' = 0
    BY <1>o, <1>p, <1>2 DEF TimerFires, Leaving
  <2> QED
    BY <2>1 DEF Leaving
<1>3. CASE BeginWrite
  <2>1. /\ flushes > 0 /\ flushes' = flushes - 1 /\ readings' = <<>> /\ events' = <<>>
        /\ exitAfter' = (IF exitAfter > 1 THEN exitAfter - 1 ELSE exitAfter)
        /\ timer' = timer
    BY <1>3 DEF BeginWrite
  <2>2. exitAfter # 1
    BY <1>o, <1>p, <2>1 DEF Leaving
  <2>3. exitAfter' > 0 => exitAfter > 1 /\ exitAfter' = exitAfter - 1
    BY <1>p, <2>1, <2>2
  <2>4. exitAfter' > 0 => ~timer'
    BY <1>o, <1>p, <2>1, <2>3 DEF Leaving
  <2>5. exitAfter' > 0 => flushes' = exitAfter' - 1
    <3>1. exitAfter' > 0 => flushes = exitAfter - 1
      BY <1>o, <1>p, <2>3 DEF Leaving
    <3> QED
      BY <1>p, <2>1, <2>3, <3>1
  <2> QED
    BY <2>1, <2>4, <2>5 DEF Leaving
<1>4. CASE Shutdown
  <2>1. exitAfter' = flushes + 2 /\ flushes' = flushes + 1 /\ timer' = FALSE
    BY <1>4 DEF Shutdown, Flush
  <2>2. exitAfter' # 1 /\ flushes' = exitAfter' - 1
    BY <1>p, <2>1
  <2> QED
    BY <2>1, <2>2 DEF Leaving
<1>5. CASE Exit
  <2>1. exitAfter' = 0
    BY <1>5 DEF Exit, Ends
  <2> QED
    BY <2>1 DEF Leaving
<1>6. ASSUME NEW committed \in BOOLEAN, InsertFails(committed) \/ Crash(committed) PROVE FALSE
  BY <1>n, <1>6 DEF InsertFails, Crash
<1>7. CASE Tick \/ Insert \/ Restart \/ Aggregate \/ UNCHANGED vars
  <2>1. UNCHANGED <<exitAfter, readings, events, timer, flushes>>
    BY <1>7 DEF Tick, Insert, Restart, Aggregate, vars, buffer, history
  <2> QED
    BY <1>o, <2>1 DEF Leaving
<1> QED
  BY <1>1, <1>2, <1>3, <1>4, <1>5, <1>6, <1>7 DEF Next, Writer, Process

LEMMA OnceInvKept == RowsInv /\ OnceInv /\ [Next]_vars => OnceInv'
BY OnceKept, LeavingKept DEF OnceInv

LEMMA OnceIsPromised == RowsInv /\ OnceInv => ExactlyOnceWithoutFaults
<1> SUFFICES ASSUME RowsInv, OnceInv, faults = 0
             PROVE  DOMAIN arrived \subseteq InMemory \cup Range(stored) /\ IsInjective(stored)
  BY DEF ExactlyOnceWithoutFaults
<1>1. DataTypes /\ WriteInv /\ KeptInv /\ Once
  BY DEF RowsInv, OnceInv
<1>2. DOMAIN stored = 1..Len(stored)
  BY <1>1, SeqFacts DEF DataTypes
<1>3. IsInjective(stored)
  BY <1>1, <1>2 DEF IsInjective, Once
<1>4. /\ DOMAIN arrived = RowsOf("reading") \cup RowsOf("event")
      /\ InMemory = Range(readings) \cup Range(events) \cup Range(write.readings) \cup Range(write.events)
  BY <1>1, RowFacts, MemoryIs
<1>5. DOMAIN arrived \subseteq InMemory \cup Range(stored)
  BY <1>1, <1>4 DEF KeptInv, Once, Gone
<1> QED
  BY <1>3, <1>5

----------------------------------------------------------------------------
(* Buckets                                                                  *)

\* Time goes on while rows arrive, and a bucket's row was made of stored readings,
\* once the bucket had closed.
BucketInv ==
  /\ \A i, j \in Arrived : i <= j => arrived[i].bucket <= arrived[j].bucket
  /\ \A i \in Arrived : arrived[i].bucket <= now
  /\ \A b \in Bucket : buckets[b] \subseteq StoredReadings(b)
  /\ \A b \in Bucket : b >= now => buckets[b] = {}

LEMMA FilledFacts ==
  /\ Filled \subseteq 0..MaxBucket
  /\ Filled # {} => Max(Filled) \in Filled /\ \A b \in Filled : Max(Filled) >= b
<1>1. Filled \subseteq 0..MaxBucket /\ MaxBucket \in Nat
  BY ConstantsAssumption DEF Filled, Bucket
<1> QED
  BY <1>1, MaxAndMin

\* The first run starts no later than the oldest reading stored.
LEMMA FirstWindow ==
  ASSUME DataTypes, Filled = {}, NEW b \in Bucket, StoredReadings(b) # {}
  PROVE  WindowStart <= b
<1> DEFINE T == {c \in Bucket : StoredReadings(c) # {}} \cup {now}
<1>1. T \in SUBSET (0..MaxBucket) /\ b \in T /\ MaxBucket \in Nat
  BY ConstantsAssumption DEF DataTypes, Bucket
<1>2. WindowStart = Min(T)
  BY DEF WindowStart
<1> HIDE DEF T
<1>3. Min(T) <= b
  BY <1>1, MaxAndMin
<1> QED
  BY <1>2, <1>3

LEMMA StoredGrows ==
  ASSUME \A n \in Arrived : n \in Arrived' /\ arrived'[n] = arrived[n],
         Range(stored) \subseteq Arrived, Range(stored) \subseteq Range(stored')
  PROVE  \A b : StoredReadings(b) \subseteq StoredReadings(b)'
<1> SUFFICES ASSUME NEW b, NEW n \in StoredReadings(b) PROVE n \in StoredReadings(b)'
  OBVIOUS
<1>1. n \in Range(stored) /\ arrived[n].kind = "reading" /\ arrived[n].bucket = b
  BY DEF StoredReadings, IsReading
<1>2. arrived'[n] = arrived[n] /\ n \in Range(stored')
  BY <1>1
<1> QED
  BY <1>1, <1>2 DEF StoredReadings, IsReading

\* What a step may do to the readings a bucket is made of.
LEMMA RowsStay ==
  ASSUME RowsInv, [Next]_vars
  PROVE  /\ \A n \in Arrived : n \in Arrived' /\ arrived'[n] = arrived[n]
         /\ Range(stored) \subseteq Range(stored')
         /\ Gone \subseteq Gone'
         /\ arrived' = arrived \/ \E kind \in {"reading", "event"} : Add(kind)
<1>p. DataTypes
  BY DEF RowsInv
<1>0. arrived' = arrived => \A n \in Arrived : n \in Arrived' /\ arrived'[n] = arrived[n]
  BY DEF Arrived
<1>1. ASSUME NEW kind \in {"reading", "event"}, Add(kind)
      PROVE  /\ \A n \in Arrived : n \in Arrived' /\ arrived'[n] = arrived[n]
             /\ stored' = stored /\ dropped' = dropped /\ lost' = lost
  BY <1>1, AddMoves
<1>2. ASSUME NEW committed \in BOOLEAN, InsertFails(committed)
      PROVE  /\ arrived' = arrived /\ Range(stored) \subseteq Range(stored')
             /\ dropped \subseteq dropped' /\ lost' = lost
  BY <1>2, FailMoves
<1>3. ASSUME Exit \/ \E committed \in BOOLEAN : Crash(committed)
      PROVE  /\ arrived' = arrived /\ Range(stored) \subseteq Range(stored')
             /\ dropped' = dropped /\ lost \subseteq lost'
  BY <1>3, EndMoves
<1>4. ASSUME Insert
      PROVE  /\ arrived' = arrived /\ Range(stored) \subseteq Range(stored')
             /\ dropped' = dropped /\ lost' = lost
  BY <1>p, <1>4, InsertMoves, StoreMoves
<1>5. ASSUME Tick \/ TimerFires \/ BeginWrite \/ Shutdown \/ Restart \/ Aggregate \/ UNCHANGED vars
      PROVE  UNCHANGED <<arrived, stored, dropped, lost>>
  BY <1>5 DEF Tick, TimerFires, BeginWrite, Shutdown, Restart, Aggregate, vars, buffer,
    history
<1> QED
  BY <1>0, <1>1, <1>2, <1>3, <1>4, <1>5 DEF Next, Writer, Process, Gone

LEMMA BucketKept == RowsInv /\ BucketInv /\ [Next]_vars => BucketInv'
<1> SUFFICES ASSUME RowsInv, BucketInv, [Next]_vars PROVE BucketInv'
  OBVIOUS
<1>p. DataTypes /\ Placed /\ DataTypes'
  BY DataTypesKept DEF RowsInv
<1>t. now \in Nat /\ now' \in Nat /\ \A b \in Bucket : b \in Nat
  BY <1>p, ConstantsAssumption DEF DataTypes, Bucket
<1>g. \A b : StoredReadings(b) \subseteq StoredReadings(b)'
  BY <1>p, RowsStay, StoredGrows DEF Placed
<1>1. ASSUME NEW kind \in {"reading", "event"}, Add(kind) PROVE BucketInv'
  <2> DEFINE n == Len(arrived) + 1
  <2>1. /\ n \in Row /\ Arrived' = Arrived \cup {n} /\ n \notin Arrived
        /\ \A m \in Arrived : m < n
        /\ \A m \in Arrived : arrived'[m] = arrived[m]
        /\ arrived'[n] = [kind |-> kind, bucket |-> now]
    BY <1>1, AddMoves
  <2>2. now' = now /\ buckets' = buckets
    BY <1>1 DEF Add
  <2> HIDE DEF n
  <2>3. n \in Nat /\ arrived'[n].bucket = now /\ \A m \in Arrived : m \in Nat
    BY <1>p, <2>1, ConstantsAssumption, RowFacts DEF Row, Arrived
  <2>4. \A i, j \in Arrived' : i <= j => arrived'[i].bucket <= arrived'[j].bucket
    <3> SUFFICES ASSUME NEW i \in Arrived', NEW j \in Arrived', i <= j
                 PROVE  arrived'[i].bucket <= arrived'[j].bucket
      OBVIOUS
    <3>1. CASE j = n
      BY <1>t, <2>1, <2>3, <3>1 DEF BucketInv
    <3>2. CASE j # n
      <4>1. i # n
        BY <2>1, <2>3, <3>2
      <4> QED
        BY <2>1, <3>2, <4>1 DEF BucketInv
    <3> QED
      BY <3>1, <3>2
  <2>5. \A i \in Arrived' : arrived'[i].bucket <= now'
    BY <1>t, <2>1, <2>2, <2>3 DEF BucketInv
  <2>6. \A b \in Bucket : buckets'[b] \subseteq StoredReadings(b)'
    BY <1>g, <2>2 DEF BucketInv
  <2>7. \A b \in Bucket : b >= now' => buckets'[b] = {}
    BY <2>2 DEF BucketInv
  <2> QED
    BY <2>4, <2>5, <2>6, <2>7 DEF BucketInv
<1>2. CASE Aggregate
  <2> DEFINE window == {b \in WindowStart..(now - 1) : StoredReadings(b) # {}}
  <2>1. /\ buckets' = [b \in Bucket |-> IF b \in window THEN StoredReadings(b) ELSE buckets[b]]
        /\ UNCHANGED <<now, arrived, stored>>
    BY <1>2 DEF Aggregate, history
  <2>2. \A b \in window : b < now
    BY <1>t
  <2> HIDE DEF window
  <2>3. \A b \in Bucket : buckets'[b] = IF b \in window THEN StoredReadings(b) ELSE buckets[b]
    BY <2>1
  <2>4. \A b \in Bucket : buckets'[b] \subseteq StoredReadings(b)'
    BY <1>g, <2>3 DEF BucketInv
  <2>5. \A b \in Bucket : b >= now' => buckets'[b] = {}
    BY <1>t, <2>1, <2>2, <2>3 DEF BucketInv
  <2>6. Arrived' = Arrived
    BY <2>1 DEF Arrived
  <2> QED
    BY <2>1, <2>4, <2>5, <2>6 DEF BucketInv
<1>3. ASSUME arrived' = arrived, buckets' = buckets, now' >= now PROVE BucketInv'
  <2>1. Arrived' = Arrived
    BY <1>3 DEF Arrived
  <2>2. \A i \in Arrived : arrived[i].bucket \in Nat
    BY <1>p, <1>t, RowFacts
  <2>3. \A i \in Arrived : arrived[i].bucket <= now'
    BY <1>3, <1>t, <2>2 DEF BucketInv
  <2>4. \A b \in Bucket : b >= now' => buckets'[b] = {}
    BY <1>3, <1>t DEF BucketInv
  <2>5. \A b \in Bucket : buckets'[b] \subseteq StoredReadings(b)'
    BY <1>3, <1>g DEF BucketInv
  <2> QED
    BY <1>3, <2>1, <2>3, <2>4, <2>5 DEF BucketInv
<1>4. ASSUME ~Aggregate PROVE buckets' = buckets /\ now' >= now
  BY <1>t, <1>4 DEF Next, Writer, Process, Tick, Add, TimerFires, BeginWrite, Insert,
    Exit, InsertFails,
         Shutdown, Restart, Crash, Ends, vars
<1> QED
  BY <1>1, <1>2, <1>3, <1>4, RowsStay

\* A reading older than the newest bucket that has a row is stored, or gone.
LEMMA OlderIsStored ==
  ASSUME RowsInv, OrderInv, BucketInv, Filled # {},
         NEW n \in Arrived, IsReading(n), arrived[n].bucket < Max(Filled)
  PROVE  n \in Gone \/ n \in StoredReadings(arrived[n].bucket)
<1>p. DataTypes /\ Placed
  BY DEF RowsInv
<1> DEFINE top == Max(Filled)
<1>1. top \in Bucket /\ buckets[top] # {}
  BY FilledFacts DEF Filled
<1> HIDE DEF top
<1>2. PICK r : r \in StoredReadings(top)
  BY <1>1 DEF BucketInv
<1>3. r \in Range(stored) /\ IsReading(r) /\ arrived[r].bucket = top
  BY <1>2 DEF StoredReadings
<1>4. r \in Arrived
  BY <1>p, <1>3 DEF Placed
<1>5. arrived[n].bucket < top /\ arrived[n].bucket \in Nat /\ top \in Nat
  BY <1>p, <1>1, RowFacts, ConstantsAssumption DEF top, Bucket
<1>6. n < r
  <2>1. r <= n => arrived[r].bucket <= arrived[n].bucket
    BY <1>4 DEF BucketInv
  <2>2. ~(r <= n)
    BY <1>3, <1>5, <2>1
  <2> QED
    BY <1>p, <1>4, <2>2, RowFacts DEF Arrived
<1>7. PICK i \in 1..Len(stored) : stored[i] = r
  BY <1>p, <1>3, SeqFacts DEF DataTypes
<1>8. n \in Gone \/ Before(n, i)
  BY <1>3, <1>6, <1>7 DEF OrderInv, IsReading
<1>9. Before(n, i) => n \in Range(stored)
  <2> SUFFICES ASSUME NEW j \in 1..(i - 1), stored[j] = n PROVE n \in Range(stored)
    BY DEF Before
  <2>1. stored \in Seq(Row) /\ Len(stored) \in Nat
    BY <1>p, SeqFacts DEF DataTypes
  <2>2. j \in 1..Len(stored)
    BY <2>1, <1>7
  <2> QED
    BY <2>1, <2>2, SeqFacts
<1> QED
  BY <1>8, <1>9 DEF StoredReadings

OldStored ==
  \A n \in Arrived :
    Filled # {} /\ IsReading(n) /\ arrived[n].bucket < Max(Filled)
      => n \in Gone \/ n \in StoredReadings(arrived[n].bucket)

LEMMA OldIsStored == RowsInv /\ OrderInv /\ BucketInv => OldStored
BY OlderIsStored DEF OldStored

\* FinalBucketsAreComplete, on the numbers of the rows.
Final ==
  Filled # {} =>
    \A n \in Arrived :
      IsReading(n) /\ arrived[n].bucket + 1 < Max(Filled)
        => n \in buckets[arrived[n].bucket] \cup Gone

LEMMA FinalIsPromised == DataTypes => (Final <=> FinalBucketsAreComplete)
<1> SUFFICES ASSUME DataTypes PROVE Final <=> FinalBucketsAreComplete
  OBVIOUS
<1>1. DOMAIN arrived = Arrived
  BY RowFacts
<1> QED
  BY <1>1, Zenon DEF Final, FinalBucketsAreComplete, Gone

\* A run of the job makes final only what it makes of everything there will be.
LEMMA FinalAfterAggregate ==
  ASSUME RowsInv, OrderInv, BucketInv, Final, Aggregate, RowsInv', OrderInv', BucketInv'
  PROVE  Final'
<1> DEFINE window == {b \in WindowStart..(now - 1) : StoredReadings(b) # {}}
<1>p. DataTypes
  BY DEF RowsInv
<1>1. /\ buckets' = [b \in Bucket |-> IF b \in window THEN StoredReadings(b) ELSE buckets[b]]
      /\ UNCHANGED <<now, arrived, stored, dropped, lost>>
  BY DEF Aggregate, history
<1>2. \A b \in Bucket : buckets'[b] = IF b \in window THEN StoredReadings(b) ELSE buckets[b]
  BY <1>1
<1>3. Arrived' = Arrived /\ Gone' = Gone /\ \A b : StoredReadings(b)' = StoredReadings(b)
  BY <1>1 DEF Arrived, Gone, StoredReadings, IsReading
<1> SUFFICES ASSUME Filled' # {}, NEW n \in Arrived, IsReading(n),
                    arrived[n].bucket + 1 < Max(Filled'), n \notin Gone
             PROVE  n \in buckets'[arrived[n].bucket]
  BY <1>1, <1>3 DEF Final, IsReading
<1>b. PICK b : b = arrived[n].bucket
  OBVIOUS
<1> DEFINE top == Max(Filled')
<1>4. top \in Bucket /\ buckets'[top] # {}
  <2>1. (Filled # {} => Max(Filled) \in Filled)'
    BY FilledFacts, PTL
  <2> QED
    BY <2>1 DEF Filled
<1>5. b \in Bucket /\ now \in Nat /\ \A c \in Bucket : c \in Nat
  BY <1>b, <1>p, RowFacts, ConstantsAssumption DEF DataTypes, Bucket
<1>6. b < top /\ b + 1 < top
  BY <1>b, <1>4, <1>5
<1>7. top < now
  BY <1>1, <1>4, <1>5 DEF BucketInv
<1>8. n \in StoredReadings(b)
  <2>1. OldStored'
    BY OldIsStored, PTL
  <2>2. n \in Arrived' /\ IsReading(n)' /\ arrived'[n].bucket = b
    BY <1>b, <1>1, <1>3 DEF IsReading
  <2>3. n \in Gone' \/ n \in StoredReadings(b)'
    BY <1>6, <2>1, <2>2 DEF OldStored
  <2> QED
    BY <1>3, <2>3
<1> HIDE DEF top
<1>9. CASE b \in window
  BY <1>b, <1>2, <1>5, <1>8, <1>9
<1>10. CASE b \notin window
  <2>1. CASE Filled = {}
    <3>1. WindowStart <= b
      BY <1>p, <1>5, <1>8, <2>1, FirstWindow
    <3>2. WindowStart \in Int
      <4> DEFINE T == {c \in Bucket : StoredReadings(c) # {}} \cup {now}
      <4>1. T \in SUBSET (0..MaxBucket) /\ T # {} /\ MaxBucket \in Nat
        BY <1>p, ConstantsAssumption DEF DataTypes, Bucket
      <4>2. WindowStart = Min(T)
        BY <2>1 DEF WindowStart
      <4> HIDE DEF T
      <4>3. \E x \in 0..MaxBucket : x = Min(T)
        BY <4>1, MaxAndMin
      <4> QED
        BY <4>2, <4>3
    <3>3. b \in WindowStart..(now - 1)
      BY <1>4, <1>5, <1>6, <1>7, <3>1, <3>2
    <3> QED
      BY <1>8, <1>10, <3>3
  <2>2. CASE Filled # {}
    <3> DEFINE old == Max(Filled)
    <3>1. old \in Bucket
      BY <2>2, FilledFacts DEF Filled
    <3>2. WindowStart = IF old = 0 THEN 0 ELSE old - 1
      BY <2>2 DEF WindowStart
    <3> HIDE DEF old
    <3>3. WindowStart \in Int
      BY <1>5, <3>1, <3>2
    <3>4. ~(b \in WindowStart..(now - 1))
      BY <1>8, <1>10
    <3>5. b < WindowStart
      BY <1>4, <1>5, <1>6, <1>7, <3>3, <3>4
    <3>6. b + 1 < old
      BY <1>5, <3>1, <3>2, <3>5
    <3>7. n \in buckets[b]
      BY <1>b, <2>2, <3>6 DEF Final, old
    <3> QED
      BY <1>b, <1>2, <1>5, <1>10, <3>7
  <2> QED
    BY <2>1, <2>2
<1> QED
  BY <1>9, <1>10

LEMMA FinalOtherwise ==
  ASSUME RowsInv, BucketInv, Final, [Next]_vars, buckets' = buckets
  PROVE  Final'
<1>p. DataTypes
  BY DEF RowsInv
<1>0. Filled' = Filled
  BY DEF Filled
<1>1. /\ \A n \in Arrived : arrived'[n] = arrived[n]
      /\ Gone \subseteq Gone'
      /\ arrived' = arrived \/ \E kind \in {"reading", "event"} : Add(kind)
  BY RowsStay
<1> SUFFICES ASSUME Filled # {}, NEW n \in Arrived', IsReading(n)',
                    arrived'[n].bucket + 1 < Max(Filled)
             PROVE  n \in buckets[arrived'[n].bucket] \cup Gone'
  BY <1>0 DEF Final
<1>2. n \in Arrived
  <2>1. CASE arrived' = arrived
    BY <2>1 DEF Arrived
  <2>2. ASSUME NEW kind \in {"reading", "event"}, Add(kind), n \notin Arrived PROVE FALSE
    <3>1. arrived'[n] = [kind |-> kind, bucket |-> now]
      BY <2>2, AddMoves
    <3> DEFINE top == Max(Filled)
    <3>2. top \in Bucket /\ buckets[top] # {}
      BY FilledFacts DEF Filled
    <3>3. now + 1 < top
      BY <3>1
    <3> HIDE DEF top
    <3>4. now \in Nat /\ top \in Nat
      BY <1>p, <3>2, ConstantsAssumption DEF DataTypes, Bucket
    <3> QED
      BY <3>2, <3>3, <3>4 DEF BucketInv
  <2> QED
    BY <1>1, <2>1, <2>2
<1>3. arrived'[n] = arrived[n] /\ IsReading(n)
  BY <1>1, <1>2 DEF IsReading
<1>4. n \in buckets[arrived[n].bucket] \cup Gone
  BY <1>2, <1>3 DEF Final
<1> QED
  BY <1>1, <1>3, <1>4

----------------------------------------------------------------------------
(* The theorems                                                             *)

IInv == TypeOK /\ RowsInv /\ OrderInv /\ DropInv /\ OnceInv /\ BucketInv /\ Final

LEMMA IInvAtStart == Init => IInv
<1> SUFFICES ASSUME Init PROVE IInv
  OBVIOUS
<1>1. TypeOK /\ RowsInv /\ DataTypes
  BY TypesAtStart, RowsInvAtStart DEF RowsInv
<1>2. /\ arrived = <<>> /\ stored = <<>> /\ readings = <<>> /\ events = <<>>
      /\ write = NoWrite /\ dropped = {} /\ lost = {} /\ exitAfter = 0
      /\ buckets = [b \in Bucket |-> {}]
  BY DEF Init
<1>3. Arrived = {} /\ Gone = {} /\ Len(stored) = 0 /\ 1..Len(stored) = {}
  BY <1>2 DEF Arrived, Gone
<1>4. OrderInv
  BY <1>3 DEF OrderInv
<1>8. DropInv
  BY <1>2 DEF DropInv
<1>5. OnceInv
  <2>1. Range(write.events) = {} /\ write.step = "idle" /\ Range(readings) = {} /\ Range(events) = {}
    BY <1>2, NothingInIt DEF NoWrite
  <2> QED
    BY <1>2, <1>3, <2>1 DEF OnceInv, Once, Leaving
<1>6. BucketInv
  BY <1>2, <1>3 DEF BucketInv
<1>7. Filled = {}
  BY <1>2 DEF Filled
<1> QED
  BY <1>1, <1>4, <1>5, <1>6, <1>7, <1>8 DEF IInv, Final

LEMMA IInvKept == IInv /\ [Next]_vars => IInv'
<1> SUFFICES ASSUME IInv, [Next]_vars PROVE IInv'
  OBVIOUS
<1>1. TypeOK' /\ RowsInv' /\ OrderInv' /\ DropInv' /\ OnceInv' /\ BucketInv'
  BY TypesKept, RowsInvKept, OrderKept, DropInvKept, OnceInvKept, BucketKept DEF IInv
<1>2. ASSUME Aggregate PROVE Final'
  BY <1>1, <1>2, FinalAfterAggregate DEF IInv
<1>3. ASSUME ~Aggregate PROVE Final'
  <2>1. buckets' = buckets
    BY <1>3 DEF Next, Writer, Process, Tick, Add, TimerFires, BeginWrite, Insert, Exit,
      InsertFails,
           Shutdown, Restart, Crash, Ends, vars
  <2> QED
    BY <2>1, FinalOtherwise DEF IInv
<1> QED
  BY <1>1, <1>2, <1>3 DEF IInv

\* What the theorems below follow from: where rows are, in which order, how often, and
\* which buckets are final.
THEOREM InvariantHolds == Spec => []IInv
<1>1. Init => IInv
  BY IInvAtStart
<1>2. IInv /\ [Next]_vars => IInv'
  BY IInvKept
<1> QED
  BY <1>1, <1>2, PTL DEF Spec

\* The state is always of its type: above all, an insertion under way has rows to
\* insert.
THEOREM TypeCorrect == Spec => []TypeOK
<1>1. IInv => TypeOK
  BY DEF IInv
<1> QED
  BY <1>1, InvariantHolds, PTL

\* BatchWriter writes rows in the order they arrived in, whatever fails and is put
\* back, and loses nothing but what it held when the process ended and readings it
\* has no room for, the oldest of those it holds.
THEOREM RowsAreInOrder == Spec => []WrittenInOrder
<1>1. IInv => WrittenInOrder
  BY OrderIsPromised DEF IInv
<1> QED
  BY <1>1, InvariantHolds, PTL

\* As long as no insertion fails and no process is killed, BatchWriter stores every
\* row once: a shutdown waits for all that is in memory.
THEOREM FaultsApartOnce == Spec => []ExactlyOnceWithoutFaults
<1>1. IInv => ExactlyOnceWithoutFaults
  BY OnceIsPromised DEF IInv
<1> QED
  BY <1>1, InvariantHolds, PTL

\* The job's watermark is safe: a bucket that no later run makes again has every
\* reading of its time, though readings are stored late.
THEOREM WatermarkIsSafe == Spec => []FinalBucketsAreComplete
<1>1. IInv => FinalBucketsAreComplete
  BY FinalIsPromised DEF IInv, RowsInv
<1> QED
  BY <1>1, InvariantHolds, PTL
==============================================================================
