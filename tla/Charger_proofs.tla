----------------------------- MODULE Charger_proofs -----------------------------
(***************************************************************************)
(* Proofs about the charger: ChargingSession, for every set of transaction *)
(* ids, every meter and every bound; and Provisioning, for any credentials *)
(* and any number of events that wait.                                     *)
(***************************************************************************)
EXTENDS ChargingSession, Provisioning, SequenceTheorems, TLAPS

(***************************************************************************)
(* Values and messages                                                      *)
(***************************************************************************)

LEMMA NoSessionType == NoSession \in Session
BY DEF NoSession, Session, MaybeKwh

LEMMA MessageType ==
  ASSUME NEW s \in Session, NEW on \in BOOLEAN, NEW stop \in MaybeKwh,
         NEW why \in Reasons, NEW n \in Nat
  PROVE  /\ TxState(s) \in Message
         /\ TxEnd(s, stop, why) \in Message
         /\ TxEnd(s, stop, why) \in EndMessage
         /\ RelayState(on) \in Message
         /\ MeterValue(s, n) \in Message
BY DEF Message, EndMessage, TxState, TxEnd, RelayState, MeterValue

LEMMA MessageKinds ==
  ASSUME NEW m \in Message
  PROVE  /\ IsEnd(m) => m \in EndMessage
         /\ m.kind = "tx" => m.session \in Session
         /\ m.kind = "relay" => m.on \in BOOLEAN
BY DEF Message, EndMessage, IsEnd

LEMMA ShortSeq ==
  ASSUME NEW S, NEW a \in S, NEW b \in S
  PROVE  <<a>> \in Seq(S) /\ <<a, b>> \in Seq(S)
OBVIOUS

LEMMA LongerOutbox ==
  ASSUME TypeOK, NEW q \in Seq(Message)
  PROVE  outbox \o q \in Seq(Message) /\ inflight \in 0..Len(outbox \o q)
BY ConcatProperties, LenProperties DEF TypeOK

LEMMA CurrentKwhType == TypeOK => CurrentKwh \in MaybeKwh
BY DEF TypeOK, CurrentKwh, MaybeKwh

LEMMA AfterEndType ==
  ASSUME NEW why \in Reasons
  PROVE  AfterEnd(why) \in Seq(Message)
<1>1. CASE why = "remote"
  <2>1. TxState(NoSession) \in Message
    BY NoSessionType DEF Message, TxState
  <2>2. AfterEnd(why) = <<TxState(NoSession)>>
    BY <1>1 DEF AfterEnd
  <2>3. QED BY <2>1, <2>2, ShortSeq
<1>2. CASE why = "admin"
  <2>1. RelayState(FALSE) \in Message
    BY DEF Message, RelayState
  <2>2. AfterEnd(why) = <<RelayState(FALSE)>>
    BY <1>2 DEF AfterEnd
  <2>3. QED BY <2>1, <2>2, ShortSeq
<1>3. CASE why = "superseded"
  BY <1>3, EmptySeq DEF AfterEnd
<1>4. QED BY <1>1, <1>2, <1>3 DEF Reasons

LEMMA EndMessagesType == TypeOK => EndMessages \in Seq(Message)
<1> SUFFICES ASSUME TypeOK PROVE EndMessages \in Seq(Message)
  OBVIOUS
<1>1. job.reason \in Reasons
  BY DEF TypeOK, Jobs
<1>2. TxEnd(session, CurrentKwh, job.reason) \in Message
  BY <1>1, CurrentKwhType, MessageType DEF TypeOK
<1>3. RelayState(contactor) \in Message
  BY DEF TypeOK, Message, RelayState
<1>4. <<TxEnd(session, CurrentKwh, job.reason), RelayState(contactor)>> \in Seq(Message)
  BY <1>2, <1>3, ShortSeq
<1>5. AfterEnd(job.reason) \in Seq(Message)
  BY <1>1, AfterEndType
<1>6. QED
  BY <1>4, <1>5, ConcatProperties DEF EndMessages

LEMMA FlashTypes ==
  ASSUME NEW s \in Session, NEW f \in Session
  PROVE  /\ WithId(f, s) \in Session
         /\ WithBase(f, s) \in Session
         /\ \A x \in Written(s, f) : x \in Session
BY DEF WithId, WithBase, Written, Session

LEMMA SetContactorType ==
  ASSUME TypeOK, NEW on \in BOOLEAN, SetContactor(on)
  PROVE  contactor' \in BOOLEAN /\ nvsRelay' \in BOOLEAN
BY DEF TypeOK, SetContactor, Written

(***************************************************************************)
(* Type correctness                                                         *)
(***************************************************************************)

LEMMA NoJobType == NoJob \in Jobs
BY DEF NoJob, Jobs, Reasons

LEMMA TypeInit == Init => TypeOK
<1> SUFFICES ASSUME Init PROVE TypeOK
  OBVIOUS
<1>1. outbox \in Seq(Message) /\ inflight \in 0..Len(outbox)
  BY EmptySeq DEF Init
<1>2. ends \in SUBSET EndMessage
  BY DEF Init
<1>3. QED
  BY <1>1, <1>2, NoSessionType, NoJobType DEF Init, TypeOK, Pcs

LEMMA TypeBoot == TypeOK /\ (Boot \/ PowerLoss) => TypeOK'
<1> SUFFICES ASSUME TypeOK, Boot \/ PowerLoss PROVE TypeOK'
  OBVIOUS
<1>1. CASE BootRelay \/ NetworkFound
  BY <1>1 DEF TypeOK, BootRelay, NetworkFound, flash, client, broker
<1>2. CASE SessionInit
  <2>1. contactor' \in BOOLEAN /\ nvsRelay' \in BOOLEAN
    BY <1>2, SetContactorType DEF SessionInit, TypeOK
  <2>2. QED
    BY <1>2, <2>1, NoSessionType DEF TypeOK, SessionInit, Restored, client, broker
<1>3. CASE PowerLoss
  <2>1. outbox' \in Seq(Message) /\ inflight' \in 0..Len(outbox')
    BY <1>3, EmptySeq DEF PowerLoss
  <2>2. QED
    BY <1>3, <2>1, NoSessionType, NoJobType
       DEF TypeOK, PowerLoss, flash, broker, Pcs
<1>4. QED
  BY <1>1, <1>2, <1>3 DEF Boot

LEMMA TypeNetwork == TypeOK /\ Network => TypeOK'
<1> SUFFICES ASSUME TypeOK, Network PROVE TypeOK'
  OBVIOUS
<1>1. CASE Connect
  <2>1. RelayState(contactor) \in Message /\ TxState(session) \in Message
    BY DEF TypeOK, Message, RelayState, TxState
  <2>2. outbox' \in Seq(Message) /\ inflight' \in 0..Len(outbox')
    BY <1>1, <2>1, ShortSeq, LongerOutbox DEF Connect
  <2>3. QED
    BY <1>1, <2>2 DEF TypeOK, Connect, device, flash, broker
<1>2. CASE Disconnect
  <2>1. Len(outbox) \in Nat
    BY LenProperties DEF TypeOK
  <2>2. outbox' = outbox /\ inflight' = 0 /\ connected' = FALSE
    BY <1>2 DEF Disconnect
  <2>3. inflight' \in 0..Len(outbox')
    BY <2>1, <2>2
  <2>4. QED
    BY <1>2, <2>2, <2>3 DEF TypeOK, Disconnect, device, flash, broker
<1>3. CASE Transmit
  <2> DEFINE m == outbox[inflight + 1]
  <2>1. m \in Message
    BY <1>3, ElementOfSeq DEF Transmit, TypeOK
  <2>2. /\ retainedTx' = IF m.kind = "tx" THEN m.session ELSE retainedTx
        /\ retainedRelay' = IF m.kind = "relay" THEN m.on ELSE retainedRelay
        /\ shown' = IF m.kind = "tx" /\ m.session.base # Unreadable
                       THEN shown \cup {m.session} ELSE shown
        /\ ends' = IF IsEnd(m) THEN ends \cup {m} ELSE ends
    BY <1>3 DEF Transmit
  <2>3. /\ retainedTx' \in Session
        /\ retainedRelay' \in BOOLEAN
        /\ shown' \in SUBSET Session
        /\ ends' \in SUBSET EndMessage
    BY <2>1, <2>2, MessageKinds DEF TypeOK
  <2>4. QED
    BY <1>3, <2>3 DEF TypeOK, Transmit, device, flash
<1>4. CASE Acknowledge
  <2>1. outbox # <<>>
    BY <1>4, EmptySeq DEF Acknowledge, TypeOK
  <2>2. outbox' \in Seq(Message) /\ Len(outbox') = Len(outbox) - 1
    BY <1>4, <2>1, HeadTailProperties DEF Acknowledge, TypeOK
  <2>3. inflight' \in 0..Len(outbox')
    BY <1>4, <2>2, LenProperties DEF Acknowledge, TypeOK
  <2>4. QED
    BY <1>4, <2>2, <2>3 DEF TypeOK, Acknowledge, device, flash, broker
<1>5. QED
  BY <1>1, <1>2, <1>3, <1>4 DEF Network

LEMMA TypeHandler == TypeOK /\ Handler => TypeOK'
<1> SUFFICES ASSUME TypeOK, Handler PROVE TypeOK'
  OBVIOUS
<1>1. CASE EndContactor
  <2>1. contactor' \in BOOLEAN /\ nvsRelay' \in BOOLEAN
    BY <1>1, SetContactorType DEF EndContactor
  <2>2. QED
    BY <1>1, <2>1 DEF TypeOK, EndContactor, client, broker, Pcs
<1>2. CASE EndSession
  <2>1. nvsSession' \in Session
    BY <1>2, NoSessionType, FlashTypes DEF EndSession, TypeOK
  <2>2. outbox' \in Seq(Message) /\ inflight' \in 0..Len(outbox')
    BY <1>2, EndMessagesType, LongerOutbox DEF EndSession
  <2>3. pc' \in Pcs
    BY <1>2 DEF EndSession, AfterEndPc, Pcs
  <2>4. QED
    BY <1>2, <2>1, <2>2, <2>3, NoSessionType DEF TypeOK, EndSession, broker
<1>3. CASE StartId
  <2>1. session' \in Session
    BY <1>3, CurrentKwhType DEF StartId, TypeOK, Session, Jobs
  <2>2. WithId(nvsSession, session') \in Session
    BY <2>1, FlashTypes DEF TypeOK
  <2>3. nvsSession' \in Session
    BY <1>3, <2>2 DEF StartId, TypeOK, Written
  <2>4. lastRun' \in Nat /\ seq' \in Nat /\ pc' \in Pcs
    BY <1>3 DEF StartId, TypeOK, Pcs
  <2>5. QED
    BY <1>3, <2>1, <2>3, <2>4 DEF TypeOK, StartId, client, broker
<1>4. CASE StartBase
  <2>1. nvsSession' \in Session
    BY <1>4, FlashTypes DEF StartBase, TypeOK, Written
  <2>2. QED
    BY <1>4, <2>1 DEF TypeOK, StartBase, client, broker, Pcs
<1>5. CASE StartPower
  <2>1. contactor' \in BOOLEAN /\ nvsRelay' \in BOOLEAN
    BY <1>5, SetContactorType DEF StartPower
  <2>2. TxState(session) \in Message /\ RelayState(TRUE) \in Message
    BY DEF TypeOK, Message, RelayState, TxState
  <2>3. <<TxState(session), RelayState(TRUE)>> \in Seq(Message)
    BY <2>2, ShortSeq
  <2>4. outbox' \in Seq(Message) /\ inflight' \in 0..Len(outbox')
    BY <1>5, <2>3, LongerOutbox DEF StartPower
  <2>5. QED
    BY <1>5, <2>1, <2>4 DEF TypeOK, StartPower, broker, Pcs
<1>6. QED
  BY <1>1, <1>2, <1>3, <1>4, <1>5 DEF Handler

LEMMA TypeReport == TypeOK /\ ReportTx => TypeOK'
<1> SUFFICES ASSUME TypeOK, ReportTx PROVE TypeOK'
  OBVIOUS
<1>1. TxState(session) \in Message
  BY DEF TypeOK, Message, TxState
<1>2. outbox' \in Seq(Message) /\ inflight' \in 0..Len(outbox')
  BY <1>1, AppendProperties DEF ReportTx, TypeOK
<1>3. QED
  BY <1>2 DEF TypeOK, ReportTx, device, flash, broker

LEMMA TypeCommand == TypeOK /\ Command => TypeOK'
<1> SUFFICES ASSUME TypeOK, Command PROVE TypeOK'
  OBVIOUS
<1>1. ASSUME NEW t \in Tx, StartCommand(t) PROVE TypeOK'
  <2>1. CASE Runs(t)
    BY <1>1, <2>1, TypeReport DEF StartCommand
  <2>2. CASE ~Runs(t)
    BY <1>1, <2>2
       DEF StartCommand, TypeOK, Pcs, Jobs, Reasons, flash, client, broker
  <2>3. QED BY <2>1, <2>2
<1>2. ASSUME NEW t \in Tx, StopCommand(t) PROVE TypeOK'
  <2>1. CASE ~Runs(t)
    BY <1>2, <2>1, TypeReport DEF StopCommand
  <2>2. CASE Runs(t)
    BY <1>2, <2>2
       DEF StopCommand, TypeOK, Pcs, Jobs, Reasons, flash, client, broker
  <2>3. QED BY <2>1, <2>2
<1>3. ASSUME NEW on \in BOOLEAN, NEW force \in BOOLEAN, RelayCommand(on, force)
      PROVE  TypeOK'
  <2>1. CASE Guarded(on) /\ force
    BY <1>3, <2>1 DEF RelayCommand, TypeOK, Pcs, Jobs, Reasons, broker
  <2>2. CASE ~(Guarded(on) /\ force)
    <3>1. contactor' \in BOOLEAN /\ nvsRelay' \in BOOLEAN
      BY <1>3, <2>2, SetContactorType DEF RelayCommand, TypeOK
    <3>2. RelayState(contactor') \in Message
      BY <3>1 DEF Message, RelayState
    <3>3. outbox' \in Seq(Message) /\ inflight' \in 0..Len(outbox')
      BY <1>3, <2>2, <3>2, AppendProperties DEF RelayCommand, TypeOK
    <3>4. QED
      BY <1>3, <2>2, <3>1, <3>3 DEF RelayCommand, TypeOK, broker
  <2>3. QED BY <2>1, <2>2
<1>4. QED
  BY <1>1, <1>2, <1>3 DEF Command

LEMMA TypeMeter == TypeOK /\ Meter => TypeOK'
<1> SUFFICES ASSUME TypeOK, Meter PROVE TypeOK'
  OBVIOUS
<1>1. ASSUME NEW k \in MaybeKwh, NoteReading(k) PROVE TypeOK'
  <2>1. session' \in Session
    BY <1>1 DEF NoteReading, TypeOK, Session
  <2>2. nvsSession' \in Session
    BY <1>1, <2>1, FlashTypes DEF NoteReading, TypeOK, Written
  <2>3. QED
    BY <1>1, <2>1, <2>2 DEF TypeOK, NoteReading, client, broker
<1>2. CASE PublishMeterValue
  <2>1. seq' \in Nat
    BY <1>2 DEF PublishMeterValue, TypeOK
  <2>2. MeterValue(session, seq') \in Message
    BY <2>1 DEF TypeOK, Message, MeterValue
  <2>3. outbox' \in Seq(Message) /\ inflight' \in 0..Len(outbox')
    BY <1>2, <2>2, AppendProperties DEF PublishMeterValue, TypeOK
  <2>4. QED
    BY <1>2, <2>1, <2>3 DEF TypeOK, PublishMeterValue, flash, broker
<1>3. QED
  BY <1>1, <1>2 DEF Meter

LEMMA TypeStutter == TypeOK /\ UNCHANGED vars => TypeOK'
BY DEF TypeOK, vars, device, flash, client, broker

LEMMA TypeNext == TypeOK /\ [Next]_vars => TypeOK'
BY TypeBoot, TypeNetwork, TypeHandler, TypeCommand, TypeMeter, TypeStutter DEF Next

\* Every variable keeps its type, and the client never counts more messages
\* sent than it holds.
THEOREM TypeCorrect == Spec => []TypeOK
<1>1. Init => TypeOK
  BY TypeInit
<1>2. TypeOK /\ [Next]_vars => TypeOK'
  BY TypeNext
<1>3. QED
  BY <1>1, <1>2, PTL DEF Spec

(***************************************************************************)
(* Which tx/end messages there are, step by step                            *)
(***************************************************************************)

LEMMA RangeOfOne ==
  ASSUME NEW S, NEW a \in S
  PROVE  Range(<<a>>) = {a}
BY DEF Range

LEMMA RangeOfTwo ==
  ASSUME NEW S, NEW a \in S, NEW b \in S
  PROVE  Range(<<a, b>>) = {a, b}
BY DEF Range

LEMMA RangeOfAppend ==
  ASSUME NEW S, NEW q \in Seq(S), NEW a \in S
  PROVE  Range(Append(q, a)) = Range(q) \cup {a}
<1>1. Append(q, a) = q \o <<a>>
  BY AppendIsConcat
<1>2. <<a>> \in Seq(S) /\ Range(<<a>>) = {a}
  BY ShortSeq, RangeOfOne
<1>3. Range(q \o <<a>>) = Range(q) \cup Range(<<a>>)
  BY <1>2, RangeConcatenation
<1>4. QED
  BY <1>1, <1>2, <1>3

LEMMA RangeOfTail ==
  ASSUME NEW S, NEW q \in Seq(S), q # <<>>
  PROVE  Range(Tail(q)) \subseteq Range(q)
<1>1. /\ Tail(q) \in Seq(S)
      /\ Len(Tail(q)) = Len(q) - 1
      /\ \A i \in 1..Len(Tail(q)) : Tail(q)[i] = q[i + 1]
  BY HeadTailProperties
<1>2. Len(q) \in Nat
  BY LenProperties
<1>3. \A i \in 1..Len(Tail(q)) : i + 1 \in 1..Len(q)
  BY <1>1, <1>2
<1>4. Range(Tail(q)) = {Tail(q)[i] : i \in 1..Len(Tail(q))}
  BY <1>1, RangeEquality
<1>5. Range(q) = {q[i] : i \in 1..Len(q)}
  BY RangeEquality
<1>6. QED
  BY <1>1, <1>3, <1>4, <1>5

\* Enqueueing anything but a tx/end adds no end.
LEMMA SameEnds ==
  ASSUME TypeOK, NEW q \in Seq(Message), \A m \in Range(q) : ~IsEnd(m),
         outbox' = outbox \o q, ends' = ends
  PROVE  AllEnds' = AllEnds
<1>1. Range(outbox') = Range(outbox) \cup Range(q)
  BY RangeConcatenation DEF TypeOK
<1>2. QED
  BY <1>1 DEF AllEnds

LEMMA SameEndsOne ==
  ASSUME TypeOK, NEW m \in Message, ~IsEnd(m),
         outbox' = Append(outbox, m), ends' = ends
  PROVE  AllEnds' = AllEnds
<1>1. Range(outbox') = Range(outbox) \cup {m}
  BY RangeOfAppend DEF TypeOK
<1>2. QED
  BY <1>1 DEF AllEnds

\* The end of a session is put in the outbox by EndSession.
LEMMA EndSessionEnds ==
  ASSUME TypeOK, EndSession
  PROVE  AllEnds' = AllEnds \cup {TxEnd(session, CurrentKwh, job.reason)}
<1> DEFINE e == TxEnd(session, CurrentKwh, job.reason)
           first == <<e, RelayState(contactor)>>
<1>1. job.reason \in Reasons
  BY DEF TypeOK, Jobs
<1>2. e \in Message /\ RelayState(contactor) \in Message
  BY <1>1, CurrentKwhType, MessageType DEF TypeOK
<1>3. first \in Seq(Message) /\ Range(first) = {e, RelayState(contactor)}
  BY <1>2, ShortSeq, RangeOfTwo
<1>4. AfterEnd(job.reason) \in Seq(Message)
  BY <1>1, AfterEndType
<1>5. \A m \in Range(AfterEnd(job.reason)) : ~IsEnd(m)
  <2>1. CASE job.reason = "remote"
    <3>1. Range(<<TxState(NoSession)>>) = {TxState(NoSession)}
      BY RangeOfOne
    <3>2. QED
      BY <2>1, <3>1 DEF AfterEnd, IsEnd, TxState
  <2>2. CASE job.reason = "admin"
    <3>1. Range(<<RelayState(FALSE)>>) = {RelayState(FALSE)}
      BY RangeOfOne
    <3>2. QED
      BY <2>2, <3>1 DEF AfterEnd, IsEnd, RelayState
  <2>3. CASE job.reason = "superseded"
    BY <2>3 DEF AfterEnd, Range
  <2>4. QED
    BY <1>1, <2>1, <2>2, <2>3 DEF Reasons
<1>6. EndMessages \in Seq(Message)
  BY EndMessagesType
<1>7. Range(EndMessages) = Range(first) \cup Range(AfterEnd(job.reason))
  <2>1. EndMessages = first \o AfterEnd(job.reason)
    BY DEF EndMessages
  <2> HIDE DEF first
  <2>2. QED
    BY <1>3, <1>4, <2>1, RangeConcatenation
<1>8. Range(outbox') = Range(outbox) \cup Range(EndMessages)
  <2>1. outbox \in Seq(Message)
    BY DEF TypeOK
  <2>2. Range(outbox \o EndMessages) = Range(outbox) \cup Range(EndMessages)
    BY <1>6, <2>1, RangeConcatenation
  <2>3. QED
    BY <2>2 DEF EndSession
<1>9. IsEnd(e) /\ ~IsEnd(RelayState(contactor))
  BY DEF IsEnd, TxEnd, RelayState
<1>10. ends' = ends
  BY DEF EndSession, broker
<1>11. QED
  BY <1>3, <1>5, <1>7, <1>8, <1>9, <1>10 DEF AllEnds

LEMMA OtherEnds == TypeOK /\ [Next]_vars /\ ~EndSession => AllEnds' \subseteq AllEnds
<1> SUFFICES ASSUME TypeOK, [Next]_vars, ~EndSession PROVE AllEnds' \subseteq AllEnds
  OBVIOUS
<1> DEFINE Still == outbox' = outbox /\ ends' = ends
<1>1. CASE Still
  BY <1>1 DEF AllEnds
<1>2. CASE PowerLoss
  <2>1. Range(outbox') = {}
    BY <1>2 DEF PowerLoss, Range
  <2>2. QED
    BY <1>2, <2>1 DEF PowerLoss, broker, AllEnds
<1>3. CASE StartPower
  <2>1. TxState(session) \in Message /\ RelayState(TRUE) \in Message
    BY DEF TypeOK, Message, RelayState, TxState
  <2> DEFINE q == <<TxState(session), RelayState(TRUE)>>
  <2>2. q \in Seq(Message) /\ Range(q) = {TxState(session), RelayState(TRUE)}
    BY <2>1, ShortSeq, RangeOfTwo
  <2>3. \A m \in Range(q) : ~IsEnd(m)
    BY <2>2 DEF IsEnd, TxState, RelayState
  <2>4. outbox' = outbox \o q /\ ends' = ends
    BY <1>3 DEF StartPower, broker
  <2> HIDE DEF q
  <2>5. QED
    BY <2>2, <2>3, <2>4, SameEnds
<1>4. CASE ReportTx
  <2>1. TxState(session) \in Message /\ ~IsEnd(TxState(session))
    BY DEF TypeOK, Message, TxState, IsEnd
  <2>2. QED
    BY <1>4, <2>1, SameEndsOne DEF ReportTx, broker
<1>5. CASE Command
  <2>1. ASSUME NEW t \in Tx, StartCommand(t) \/ StopCommand(t) PROVE Still \/ ReportTx
    BY <2>1 DEF StartCommand, StopCommand, client, broker
  <2>2. ASSUME NEW on \in BOOLEAN, NEW force \in BOOLEAN, RelayCommand(on, force)
        PROVE  AllEnds' \subseteq AllEnds
    <3>1. CASE Guarded(on) /\ force
      BY <1>1, <2>2, <3>1 DEF RelayCommand, broker
    <3>2. CASE ~(Guarded(on) /\ force)
      <4>1. contactor' \in BOOLEAN
        BY <2>2, <3>2 DEF RelayCommand, SetContactor, TypeOK
      <4>2. RelayState(contactor') \in Message /\ ~IsEnd(RelayState(contactor'))
        BY <4>1 DEF Message, RelayState, IsEnd
      <4>3. outbox' = Append(outbox, RelayState(contactor')) /\ ends' = ends
        BY <2>2, <3>2 DEF RelayCommand, broker
      <4>4. QED
        BY <4>2, <4>3, SameEndsOne
    <3>3. QED BY <3>1, <3>2
  <2>3. QED
    BY <1>1, <1>4, <1>5, <2>1, <2>2 DEF Command
<1>6. CASE Meter
  <2>1. CASE PublishMeterValue
    <3>1. seq' \in Nat
      BY <2>1 DEF PublishMeterValue, TypeOK
    <3>2. MeterValue(session, seq') \in Message /\ ~IsEnd(MeterValue(session, seq'))
      BY <3>1 DEF TypeOK, Message, MeterValue, IsEnd
    <3>3. QED
      BY <2>1, <3>2, SameEndsOne DEF PublishMeterValue, broker
  <2>2. ASSUME NEW k \in MaybeKwh, NoteReading(k) PROVE Still
    BY <2>2 DEF NoteReading, client, broker
  <2>3. QED
    BY <1>1, <1>6, <2>1, <2>2 DEF Meter
<1>7. CASE Network
  <2>1. CASE Connect
    <3>1. RelayState(contactor) \in Message /\ TxState(session) \in Message
      BY DEF TypeOK, Message, RelayState, TxState
    <3> DEFINE q == <<RelayState(contactor), TxState(session)>>
    <3>2. q \in Seq(Message) /\ Range(q) = {RelayState(contactor), TxState(session)}
      BY <3>1, ShortSeq, RangeOfTwo
    <3>3. \A m \in Range(q) : ~IsEnd(m)
      BY <3>2 DEF IsEnd, TxState, RelayState
    <3>4. outbox' = outbox \o q /\ ends' = ends
      BY <2>1 DEF Connect, broker
    <3> HIDE DEF q
    <3>5. QED
      BY <3>2, <3>3, <3>4, SameEnds
  <2>2. CASE Disconnect
    BY <1>1, <2>2 DEF Disconnect, broker
  <2>3. CASE Transmit
    <3> DEFINE m == outbox[inflight + 1]
    <3>1. m \in Range(outbox)
      BY <2>3, LenProperties DEF Transmit, TypeOK, Range
    <3>2. outbox' = outbox /\ ends' = IF IsEnd(m) THEN ends \cup {m} ELSE ends
      BY <2>3 DEF Transmit
    <3>3. QED
      BY <3>1, <3>2 DEF AllEnds
  <2>4. CASE Acknowledge
    <3>1. outbox # <<>>
      BY <2>4, EmptySeq DEF Acknowledge, TypeOK
    <3>2. Range(outbox') \subseteq Range(outbox)
      BY <2>4, <3>1, RangeOfTail DEF Acknowledge, TypeOK
    <3>3. QED
      BY <2>4, <3>2 DEF Acknowledge, broker, AllEnds
  <2>5. QED
    BY <1>7, <2>1, <2>2, <2>3, <2>4 DEF Network
<1>8. CASE Boot \/ EndContactor \/ StartId \/ StartBase \/ UNCHANGED vars
  BY <1>1, <1>8
     DEF Boot, BootRelay, NetworkFound, SessionInit, EndContactor, StartId, StartBase, vars, client,
         broker
<1>9. QED
  BY <1>2, <1>3, <1>5, <1>6, <1>7, <1>8 DEF Next, Handler

(***************************************************************************)
(* The inductive invariant, part by part                                    *)
(***************************************************************************)

LEMMA PcInductive == TypeOK /\ PcInv /\ RunInv /\ [Next]_vars => PcInv'
<1> SUFFICES ASSUME TypeOK, PcInv, RunInv, [Next]_vars PROVE PcInv'
  OBVIOUS
<1> USE DEF PcInv, Active
<1>1. CASE Boot \/ PowerLoss
  BY <1>1 DEF Boot, BootRelay, NetworkFound, SessionInit, PowerLoss
<1>2. CASE EndContactor \/ StartBase \/ StartPower
  BY <1>2 DEF EndContactor, StartBase, StartPower
<1>3. CASE EndSession
  BY <1>3 DEF EndSession, AfterEndPc, NoSession
<1>4. CASE StartId
  BY <1>4 DEF StartId
<1>5. CASE Command
  <2>1. ASSUME NEW t \in Tx, StartCommand(t) PROVE PcInv'
    <3>1. CASE Runs(t)
      BY <2>1, <3>1 DEF StartCommand, Commandable, Ready, ReportTx, device
    <3>2. CASE ~Runs(t)
      <4>1. /\ pc' = IF Active(session) THEN "end" ELSE "start"
            /\ job'.tx = t /\ phase' = "run" /\ session' = session
        BY <2>1, <3>2 DEF StartCommand, Commandable, Ready
      <4>2. t # NoTx
        BY ConstantsAssumption
      <4>3. QED
        BY <4>1, <4>2
    <3>3. QED BY <3>1, <3>2
  <2>2. ASSUME NEW t \in Tx, StopCommand(t) PROVE PcInv'
    <3>1. CASE ~Runs(t)
      BY <2>2, <3>1 DEF StopCommand, Commandable, Ready, ReportTx, device
    <3>2. CASE Runs(t)
      <4>1. pc' = "end" /\ job'.reason = "remote" /\ phase' = "run" /\ session' = session
        BY <2>2, <3>2 DEF StopCommand, Commandable, Ready
      <4>2. QED
        BY <3>2, <4>1 DEF Runs
    <3>3. QED BY <3>1, <3>2
  <2>3. ASSUME NEW on \in BOOLEAN, NEW force \in BOOLEAN, RelayCommand(on, force)
        PROVE  PcInv'
    <3>1. CASE Guarded(on) /\ force
      <4>1. pc' = "end" /\ job'.reason = "admin" /\ phase' = "run" /\ session' = session
        BY <2>3, <3>1 DEF RelayCommand, Commandable, Ready
      <4>2. QED
        BY <3>1, <4>1 DEF Guarded
    <3>2. CASE ~(Guarded(on) /\ force)
      BY <2>3, <3>2 DEF RelayCommand, Commandable, Ready
    <3>3. QED BY <3>1, <3>2
  <2>4. QED
    BY <1>5, <2>1, <2>2, <2>3 DEF Command
<1>6. CASE Meter
  <2>1. ASSUME NEW k \in MaybeKwh, NoteReading(k) PROVE PcInv'
    BY <2>1 DEF NoteReading, Ready
  <2>2. CASE PublishMeterValue
    BY <2>2 DEF PublishMeterValue
  <2>3. QED
    BY <1>6, <2>1, <2>2 DEF Meter
<1>7. CASE Network \/ UNCHANGED vars
  BY <1>7 DEF Network, Connect, Disconnect, Transmit, Acknowledge, vars, device
<1>8. QED
  BY <1>1, <1>2, <1>3, <1>4, <1>5, <1>6, <1>7 DEF Next, Handler

LEMMA RunInductive == TypeOK /\ PcInv /\ RunInv /\ [Next]_vars => RunInv'
<1> SUFFICES ASSUME TypeOK, PcInv, RunInv, [Next]_vars PROVE RunInv'
  OBVIOUS
<1> DEFINE Holders ==
      /\ ~Active(session) => session = NoSession
      /\ Active(session) => session.run \in 1..lastRun
      /\ Active(nvsSession) => nvsSession.run \in 1..lastRun
<1>1. lastRun \in Nat /\ lastRun' \in Nat /\ lastRun <= lastRun'
  <2>1. CASE StartId
    BY <2>1 DEF StartId, TypeOK
  <2>2. CASE ~StartId
    <3>1. lastRun' = lastRun
      BY <2>2 DEF Next, Boot, BootRelay, NetworkFound, SessionInit, PowerLoss, Handler, EndContactor,
         EndSession, StartBase, StartPower, Command, StartCommand, StopCommand, ReportTx,
         RelayCommand, Meter, NoteReading, PublishMeterValue, Network, Connect,
         Disconnect, Transmit, Acknowledge, vars
    <3>2. QED
      BY <3>1 DEF TypeOK
  <2>3. QED BY <2>1, <2>2
<1>2. Holders'
  <2> USE DEF RunInv, Active
  <2>1. CASE UNCHANGED <<session, nvsSession, lastRun>>
    BY <2>1
  <2>2. CASE SessionInit \/ PowerLoss
    <3>1. session' = NoSession \/ (session' = nvsSession /\ Active(nvsSession))
      BY <2>2 DEF SessionInit, PowerLoss, Restored
    <3>2. nvsSession' = nvsSession /\ lastRun' = lastRun
      BY <2>2 DEF SessionInit, PowerLoss, flash
    <3>3. QED
      BY <3>1, <3>2 DEF NoSession
  <2>3. CASE EndSession
    BY <2>3, <1>1 DEF EndSession, Written, NoSession
  <2>4. CASE StartId
    <3>1. session'.run = lastRun' /\ session'.tx = job.tx /\ lastRun' = lastRun + 1
      BY <2>4 DEF StartId
    <3>2. nvsSession'.run = lastRun' \/ nvsSession' = nvsSession
      BY <2>4, <3>1 DEF StartId, Written, WithId, TypeOK, Session
    <3>3. job.tx # NoTx
      BY <2>4 DEF StartId, PcInv
    <3>4. QED
      BY <1>1, <3>1, <3>2, <3>3
  <2>5. CASE StartBase
    BY <2>5 DEF StartBase, Written, WithBase, TypeOK, Session
  <2>6. ASSUME NEW k \in MaybeKwh, NoteReading(k) PROVE Holders'
    <3>1. lastRun' = lastRun
      BY <2>6 DEF NoteReading
    <3>2. CASE session' = session /\ nvsSession' = nvsSession
      BY <3>1, <3>2
    <3>3. CASE session' # session \/ nvsSession' # nvsSession
      <4>1. /\ Active(session)
            /\ session' = [session EXCEPT !.base = k]
            /\ \E stored \in Written(WithId(nvsSession, session), nvsSession) :
                 nvsSession' \in Written(WithBase(stored, session'), stored)
        BY <2>6, <3>3 DEF NoteReading
      <4>2. session'.run = session.run /\ session'.tx = session.tx
        BY <4>1 DEF TypeOK, Session
      <4>3. \/ nvsSession'.run = session.run
            \/ nvsSession'.run = nvsSession.run /\ nvsSession'.tx = nvsSession.tx
        BY <4>1 DEF TypeOK, Session, Written, WithId, WithBase
      <4>4. QED
        BY <3>1, <4>1, <4>2, <4>3
    <3>4. QED BY <3>2, <3>3
  <2>7. QED
    BY <2>1, <2>2, <2>3, <2>4, <2>5, <2>6
       DEF Next, Boot, BootRelay, NetworkFound, Handler, EndContactor, StartPower, Command,
           StartCommand, StopCommand, ReportTx, RelayCommand, Meter, PublishMeterValue,
           Network, Connect, Disconnect, Transmit, Acknowledge, vars, device, flash
<1>3. (\A e \in AllEnds : e.session.run \in 1..lastRun)'
  <2>1. \A e \in AllEnds : e.session.run \in 1..lastRun'
    BY <1>1 DEF RunInv
  <2>2. CASE EndSession
    <3>1. AllEnds' = AllEnds \cup {TxEnd(session, CurrentKwh, job.reason)}
      BY <2>2, EndSessionEnds
    <3>2. Active(session) /\ lastRun' = lastRun
      BY <2>2 DEF EndSession, PcInv
    <3>3. session.run \in 1..lastRun'
      BY <3>2 DEF RunInv
    <3>4. QED
      BY <2>1, <3>1, <3>3 DEF TxEnd
  <2>3. CASE ~EndSession
    <3>1. AllEnds' \subseteq AllEnds
      BY <2>3, OtherEnds
    <3>2. QED
      BY <2>1, <3>1
  <2>4. QED BY <2>2, <2>3
<1>4. QED
  BY <1>2, <1>3 DEF RunInv

\* A step that touches neither the session nor its copy in flash, nor moves pc.
SessionStill == UNCHANGED <<phase, pc, session, nvsSession>>

LEMMA FlashInductive ==
  TypeOK /\ PcInv /\ RunInv /\ ~NvsMayFail /\ FlashInv /\ [Next]_vars => FlashInv'
<1> SUFFICES ASSUME TypeOK, PcInv, RunInv, ~NvsMayFail, FlashInv, [Next]_vars
             PROVE  FlashInv'
  OBVIOUS
<1>a. \A new, old : Written(new, old) = {new}
  BY DEF Written
<1> USE DEF FlashInv, Active
<1>1. CASE SessionStill
  BY <1>1 DEF SessionStill
<1>2. CASE Boot \/ PowerLoss
  <2>1. CASE SessionInit
    BY <2>1 DEF SessionInit, Restored, PcInv, NoSession
  <2>2. CASE BootRelay \/ NetworkFound \/ PowerLoss
    BY <2>2 DEF BootRelay, NetworkFound, PowerLoss
  <2>3. QED BY <1>2, <2>1, <2>2 DEF Boot
<1>3. CASE EndContactor
  BY <1>3 DEF EndContactor
<1>4. CASE EndSession
  BY <1>4, <1>a DEF EndSession, AfterEndPc, NoSession
<1>5. CASE StartId
  <2>1. nvsSession' = WithId(nvsSession, session')
    BY <1>5, <1>a DEF StartId
  <2>2. nvsSession'.run = session'.run /\ nvsSession'.tx = session'.tx
    BY <2>1 DEF WithId, TypeOK, Session
  <2>3. QED
    BY <1>5, <2>2 DEF StartId
<1>6. CASE StartBase
  <2>1. nvsSession' = [nvsSession EXCEPT !.base = session.base] /\ session' = session
    BY <1>6, <1>a DEF StartBase, WithBase
  <2>2. nvsSession.run = session.run /\ nvsSession.tx = session.tx
    BY <1>6 DEF StartBase, PcInv
  <2>3. nvsSession' = session'
    BY <2>1, <2>2 DEF TypeOK, Session
  <2>4. QED
    BY <1>6, <2>3 DEF StartBase
<1>7. CASE StartPower
  BY <1>7 DEF StartPower
<1>8. CASE Command
  <2>1. ASSUME NEW t \in Tx, StartCommand(t) \/ StopCommand(t) PROVE FlashInv'
    <3>1. CASE ReportTx
      BY <1>1, <3>1 DEF ReportTx, device, flash, SessionStill
    <3>2. CASE ~ReportTx
      <4>1. /\ UNCHANGED <<phase, session, nvsSession>>
            /\ pc = "idle"
            /\ pc' = "end" \/ (pc' = "start" /\ ~Active(session))
        BY <2>1, <3>2 DEF StartCommand, StopCommand, Commandable, Ready, flash
      <4>2. QED
        BY <4>1
    <3>3. QED BY <3>1, <3>2
  <2>2. ASSUME NEW on \in BOOLEAN, NEW force \in BOOLEAN, RelayCommand(on, force)
        PROVE  FlashInv'
    <3>1. /\ UNCHANGED <<phase, session, nvsSession>>
          /\ pc = "idle"
          /\ pc' \in {"idle", "end"}
      BY <2>2 DEF RelayCommand, Commandable, Ready
    <3>2. QED
      BY <3>1
  <2>3. QED
    BY <1>8, <2>1, <2>2 DEF Command
<1>9. ASSUME NEW k \in MaybeKwh, NoteReading(k) PROVE FlashInv'
  <2>1. phase = "run" /\ pc = "idle" /\ phase' = phase /\ pc' = pc
    BY <1>9 DEF NoteReading, Ready
  <2>2. CASE session' = session /\ nvsSession' = nvsSession
    BY <2>1, <2>2
  <2>3. CASE ~(session' = session /\ nvsSession' = nvsSession)
    <3>1. /\ Active(session)
          /\ session' = [session EXCEPT !.base = k]
          /\ nvsSession' = WithBase(WithId(nvsSession, session), session')
      BY <1>9, <1>a, <2>3 DEF NoteReading
    <3>2. nvsSession = session
      BY <2>1, <3>1
    <3>3. nvsSession' = session'
      BY <3>1, <3>2 DEF WithBase, WithId, TypeOK, Session
    <3>4. QED
      BY <2>1, <3>1, <3>2, <3>3 DEF TypeOK, Session
  <2>4. QED BY <2>2, <2>3
<1>10. CASE PublishMeterValue \/ Network \/ UNCHANGED vars
  BY <1>1, <1>10
     DEF PublishMeterValue, Network, Connect, Disconnect, Transmit, Acknowledge, vars,
         device, flash, SessionStill
<1>11. QED
  BY <1>2, <1>3, <1>4, <1>5, <1>6, <1>7, <1>8, <1>9, <1>10 DEF Next, Handler, Meter

LEMMA EndsInductive ==
  TypeOK /\ PcInv /\ RunInv /\ ~NvsMayFail /\ FlashInv /\ EndsInv /\ [Next]_vars
    => EndsInv'
<1> SUFFICES ASSUME TypeOK, PcInv, RunInv, ~NvsMayFail, FlashInv, EndsInv, [Next]_vars
             PROVE  EndsInv'
  OBVIOUS
<1>a. \A new, old : Written(new, old) = {new}
  BY DEF Written
<1>1. CASE EndSession
  <2> DEFINE e == TxEnd(session, CurrentKwh, job.reason)
  <2>1. AllEnds' = AllEnds \cup {e}
    BY <1>1, EndSessionEnds
  <2>2. e.session = session
    BY DEF TxEnd
  <2>3. Active(session)
    BY <1>1 DEF EndSession, PcInv
  <2>4. \A f \in AllEnds : f.session.run # session.run
    BY <2>3 DEF EndsInv
  <2>5. ~Active(session') /\ ~Active(nvsSession')
    BY <1>1, <1>a DEF EndSession, Active, NoSession
  <2>6. QED
    BY <2>1, <2>2, <2>4, <2>5 DEF EndsInv
<1>2. CASE ~EndSession
  <2>1. AllEnds' \subseteq AllEnds
    BY <1>2, OtherEnds
  <2> DEFINE Known(s) == \A e \in AllEnds : s.run # e.session.run
  <2>2. /\ Active(session') => Known(session')
        /\ Active(nvsSession') => Known(nvsSession')
    <3>0. (Active(session) => Known(session)) /\ (Active(nvsSession) => Known(nvsSession))
      BY DEF EndsInv
    <3>1. CASE session' = session /\ nvsSession' = nvsSession
      BY <3>0, <3>1
    <3>2. CASE SessionInit \/ PowerLoss
      <4>1. session' = NoSession \/ (session' = nvsSession /\ Active(nvsSession))
        BY <3>2 DEF SessionInit, PowerLoss, Restored
      <4>2. nvsSession' = nvsSession /\ ~Active(NoSession)
        BY <3>2 DEF SessionInit, PowerLoss, flash, Active, NoSession
      <4>3. CASE session' = NoSession
        BY <3>0, <4>2, <4>3
      <4>4. CASE session' = nvsSession /\ Active(nvsSession)
        BY <3>0, <4>2, <4>4
      <4>5. QED BY <4>1, <4>3, <4>4
    <3>3. CASE StartId
      <4>1. session'.run = lastRun + 1 /\ nvsSession' = WithId(nvsSession, session')
        BY <1>a, <3>3 DEF StartId
      <4>2. nvsSession'.run = lastRun + 1
        BY <4>1 DEF WithId, TypeOK, Session
      <4>3. \A e \in AllEnds : e.session.run # lastRun + 1
        BY DEF RunInv, TypeOK
      <4>4. QED
        BY <4>1, <4>2, <4>3
    <3>4. CASE StartBase
      <4>1. session' = session /\ nvsSession' = WithBase(nvsSession, session)
        BY <1>a, <3>4 DEF StartBase
      <4>2. nvsSession'.run = nvsSession.run /\ nvsSession'.tx = nvsSession.tx
        BY <4>1 DEF WithBase, TypeOK, Session
      <4>3. QED
        BY <3>0, <4>1, <4>2 DEF Active
    <3>5. ASSUME NEW k \in MaybeKwh, NoteReading(k), ~(session' = session /\ nvsSession' = nvsSession)
          PROVE  /\ Active(session') => Known(session')
                 /\ Active(nvsSession') => Known(nvsSession')
      <4>1. /\ Active(session)
            /\ session' = [session EXCEPT !.base = k]
            /\ nvsSession' = WithBase(WithId(nvsSession, session), session')
        BY <1>a, <3>5 DEF NoteReading
      <4>2. session'.run = session.run /\ nvsSession'.run = session.run
        BY <4>1 DEF WithBase, WithId, TypeOK, Session
      <4>3. QED
        BY <3>0, <4>1, <4>2
    <3>6. QED
      BY <1>2, <3>1, <3>2, <3>3, <3>4, <3>5
         DEF Next, Boot, BootRelay, NetworkFound, Handler, EndContactor, StartPower, Command,
             StartCommand, StopCommand, ReportTx, RelayCommand, Meter,
             PublishMeterValue, Network, Connect, Disconnect, Transmit, Acknowledge,
             vars, device, flash
  <2>3. QED
    BY <2>1, <2>2 DEF EndsInv
<1>3. QED BY <1>1, <1>2

----------------------------------------------------------------------------
(* The invariant holds, and with it the properties it was made for          *)

LEMMA IInvInit == Init => IInv
<1> SUFFICES ASSUME Init PROVE IInv
  OBVIOUS
<1>1. AllEnds = {}
  BY DEF Init, AllEnds, Range
<1>2. ~Active(NoSession)
  BY DEF Active, NoSession
<1>3. PcInv /\ RunInv /\ FlashInv /\ EndsInv
  BY <1>1, <1>2 DEF Init, PcInv, RunInv, FlashInv, EndsInv
<1>4. QED
  BY <1>3, TypeInit DEF IInv

LEMMA IInvNext == IInv /\ [Next]_vars => IInv'
BY TypeNext, PcInductive, RunInductive, FlashInductive, EndsInductive DEF IInv

\* The inductive invariant of the charger: what holds between any two steps of
\* its handlers, power cuts and broken connections included.
THEOREM InvariantHolds == Spec => []IInv
<1>1. Init => IInv
  BY IInvInit
<1>2. IInv /\ [Next]_vars => IInv'
  BY IInvNext
<1>3. QED
  BY <1>1, <1>2, PTL DEF Spec

\* As long as flash writes take effect, flash and memory agree whenever no
\* handler is at work: persist() is complete on every path through the firmware.
THEOREM FlashAgrees == Spec => []FlashHoldsTheSession
<1>1. IInv => FlashHoldsTheSession
  BY DEF IInv, FlashInv, FlashHoldsTheSession, Ready
<1>2. QED
  BY <1>1, InvariantHolds, PTL

\* As long as flash writes take effect, a session whose end reached the broker
\* neither runs nor would be resumed, and has no second end.
THEOREM EndsAreFinal == Spec => []EndIsFinal
<1>1. IInv => EndIsFinal
  <2>1. ends \subseteq AllEnds
    BY DEF AllEnds
  <2>2. QED
    BY <2>1 DEF IInv, EndsInv, EndIsFinal
<1>2. QED
  BY <1>1, InvariantHolds, PTL

LEMMA PoweredNext ==
  TypeOK /\ PcInv /\ ActiveIsPowered /\ [Next]_vars => ActiveIsPowered'
<1> SUFFICES ASSUME TypeOK, PcInv, ActiveIsPowered, [Next]_vars, Ready', Active(session')
             PROVE  contactor'
  BY DEF ActiveIsPowered
<1>0. phase' = "run" /\ pc' = "idle"
  BY DEF Ready
<1>1. CASE /\ UNCHANGED <<phase, pc, contactor>>
           /\ session' = session \/ Active(session)
  BY <1>1 DEF ActiveIsPowered, Ready
<1>2. CASE Boot \/ PowerLoss
  <2>1. SessionInit
    BY <1>0, <1>2 DEF Boot, BootRelay, NetworkFound, PowerLoss
  <2>2. Active(Restored)
    BY <2>1 DEF SessionInit
  <2>3. QED
    BY <2>1, <2>2 DEF SessionInit, SetContactor
<1>3. CASE Handler
  <2>1. ~EndSession
    BY DEF EndSession, Active, NoSession
  <2>2. StartPower
    BY <1>0, <1>3, <2>1 DEF Handler, EndContactor, StartId, StartBase
  <2>3. QED
    BY <2>2 DEF StartPower, SetContactor
<1>4. CASE Command
  <2>1. ASSUME NEW t \in Tx, StartCommand(t) \/ StopCommand(t) PROVE contactor'
    <3>1. ReportTx \/ pc' # "idle"
      BY <2>1 DEF StartCommand, StopCommand
    <3>2. QED
      BY <1>0, <1>1, <3>1 DEF ReportTx, device
  <2>2. ASSUME NEW on \in BOOLEAN, NEW force \in BOOLEAN, RelayCommand(on, force)
        PROVE  contactor'
    <3>1. Ready /\ session' = session
      BY <2>2 DEF RelayCommand, Commandable
    <3>2. contactor
      BY <3>1 DEF ActiveIsPowered
    <3>3. contactor' = contactor \/ contactor' = on
      BY <1>0, <2>2 DEF RelayCommand, SetContactor
    <3>4. CASE ~on
      <4>1. Guarded(on)
        BY <3>1, <3>4 DEF Guarded
      <4>2. ~force
        BY <1>0, <2>2, <4>1 DEF RelayCommand
      <4>3. QED
        BY <2>2, <3>2, <4>1, <4>2 DEF RelayCommand
    <3>5. QED
      BY <3>2, <3>3, <3>4
  <2>3. QED
    BY <1>4, <2>1, <2>2 DEF Command
<1>5. CASE Meter \/ Network \/ UNCHANGED vars
  BY <1>1, <1>5
     DEF Meter, NoteReading, PublishMeterValue, Network, Connect, Disconnect,
         Transmit, Acknowledge, vars, device
<1>6. QED
  BY <1>2, <1>3, <1>4, <1>5 DEF Next

\* Even if flash writes get lost: no mix of commands, forced and refused offs
\* and power cuts leaves an active session without power once its handler is done.
THEOREM SessionsArePowered == Spec => []ActiveIsPowered
<1>1. Init => ActiveIsPowered
  BY DEF Init, ActiveIsPowered, Ready
<1>2. IInv /\ ActiveIsPowered /\ [Next]_vars => ActiveIsPowered'
  BY PoweredNext DEF IInv
<1>3. QED
  BY <1>1, <1>2, InvariantHolds, PTL DEF Spec

----------------------------------------------------------------------------
(* The charger implements the contract, as long as flash writes take effect *)

Announced == {e.session.run : e \in ends}

Open == IF Active(nvsSession) THEN nvsSession.run ELSE 0

\* A step that changes neither the id that flash holds nor what was announced.
ContractStill ==
  /\ nvsSession'.run = nvsSession.run /\ nvsSession'.tx = nvsSession.tx
  /\ UNCHANGED <<ends, lastRun>>

LEMMA StillStutters == ContractStill => UNCHANGED Contract!vars
<1> SUFFICES ASSUME ContractStill PROVE UNCHANGED Contract!vars
  OBVIOUS
<1>1. Open' = Open
  BY DEF ContractStill, Open, Active
<1>2. Announced' = Announced /\ lastRun' = lastRun
  BY DEF ContractStill, Announced
<1>3. QED
  BY <1>1, <1>2 DEF Open, Announced, Contract!vars

LEMMA StartOpens == IInv /\ ~NvsMayFail /\ StartId => Contract!Open
<1> SUFFICES ASSUME IInv, ~NvsMayFail, StartId PROVE Contract!Open
  OBVIOUS
<1> USE DEF IInv
<1>1. phase = "run" /\ pc = "start"
  BY DEF StartId, PcInv
<1>2. ~Active(nvsSession) /\ Active(job)
  BY <1>1 DEF FlashInv, PcInv
<1>3. nvsSession' = WithId(nvsSession, session')
  BY DEF StartId, Written
<1>4. session'.run = lastRun + 1 /\ session'.tx = job.tx /\ lastRun' = lastRun + 1
  BY DEF StartId
<1>5. nvsSession'.run = lastRun + 1 /\ nvsSession'.tx = job.tx
  BY <1>3, <1>4 DEF WithId, TypeOK, Session
<1>6. Open = 0 /\ Open' = lastRun'
  BY <1>2, <1>4, <1>5 DEF Open, Active
<1>7. Announced' = Announced
  BY DEF StartId, broker, Announced
<1>8. QED
  BY <1>4, <1>6, <1>7 DEF Contract!Open, Open, Announced

LEMMA EndCloses == IInv /\ ~NvsMayFail /\ EndSession => Contract!Close
<1> SUFFICES ASSUME IInv, ~NvsMayFail, EndSession PROVE Contract!Close
  OBVIOUS
<1> USE DEF IInv
<1>1. phase = "run" /\ pc = "ended" /\ Active(session)
  BY DEF EndSession, PcInv
<1>2. Active(nvsSession)
  BY <1>1 DEF FlashInv
<1>3. nvsSession.run # 0
  BY <1>2 DEF RunInv, TypeOK
<1>4. nvsSession' = NoSession /\ UNCHANGED <<ends, lastRun>>
  BY DEF EndSession, Written, broker
<1>5. Open # 0 /\ Open' = 0
  BY <1>2, <1>3, <1>4 DEF Open, Active, NoSession
<1>6. Announced' = Announced /\ lastRun' = lastRun
  BY <1>4 DEF Announced
<1>7. QED
  BY <1>5, <1>6 DEF Contract!Close, Open, Announced

LEMMA TransmitAnnounces ==
  IInv /\ ~NvsMayFail /\ Transmit
    => (\E r \in 1..lastRun : Contract!Announce(r)) \/ UNCHANGED Contract!vars
<1> SUFFICES ASSUME IInv, ~NvsMayFail, Transmit
             PROVE  (\E r \in 1..lastRun : Contract!Announce(r)) \/ UNCHANGED Contract!vars
  OBVIOUS
<1> USE DEF IInv
<1>0. nvsSession' = nvsSession /\ lastRun' = lastRun
  BY DEF Transmit, flash
<1>1. CASE ends' = ends
  BY <1>0, <1>1, StillStutters DEF ContractStill
<1>2. CASE ends' # ends
  <2>1. PICK m \in Range(outbox) : IsEnd(m) /\ m \notin ends /\ ends' = ends \cup {m}
    <3>1. inflight + 1 \in 1..Len(outbox) /\ outbox \in Seq(Message)
      BY LenProperties DEF Transmit, TypeOK
    <3>2. outbox[inflight + 1] \in Range(outbox)
      BY <3>1 DEF Range
    <3>3. QED
      BY <1>2, <3>2 DEF Transmit
  <2>2. m \in AllEnds /\ ends \subseteq AllEnds
    BY <2>1 DEF AllEnds
  <2> DEFINE r == m.session.run
  <2>3. r \in 1..lastRun
    BY <2>2 DEF RunInv
  <2>4. r \notin Announced
    BY <2>1, <2>2 DEF Announced, EndsInv
  <2>5. r # Open
    BY <2>2, <2>3 DEF Open, EndsInv, TypeOK
  <2>6. Announced' = Announced \cup {r} /\ Open' = Open
    BY <1>0, <2>1 DEF Announced, Open
  <2>7. Contract!Announce(r)
    BY <1>0, <2>4, <2>5, <2>6 DEF Contract!Announce, Open, Announced
  <2>8. QED
    BY <2>3, <2>7
<1>3. QED BY <1>1, <1>2

LEMMA OthersStutter ==
  ASSUME IInv, ~NvsMayFail, [Next]_vars, ~StartId, ~EndSession, ~Transmit
  PROVE  ContractStill
<1>a. \A new, old : Written(new, old) = {new}
  BY DEF Written
<1> USE DEF IInv
<1>1. ends' = ends /\ lastRun' = lastRun
  BY DEF Next, Boot, BootRelay, NetworkFound, SessionInit, PowerLoss, Handler, EndContactor,
         StartBase, StartPower, Command, StartCommand, StopCommand, ReportTx,
         RelayCommand, Meter, NoteReading, PublishMeterValue, Network, Connect,
         Disconnect, Acknowledge, vars, broker
<1>2. CASE nvsSession' = nvsSession
  BY <1>1, <1>2 DEF ContractStill
<1>3. CASE StartBase
  <2>1. nvsSession' = [nvsSession EXCEPT !.base = session.base]
    BY <1>3, <1>a DEF StartBase, WithBase
  <2>2. QED
    BY <1>1, <2>1 DEF ContractStill, TypeOK, Session
<1>4. ASSUME NEW k \in MaybeKwh, NoteReading(k), nvsSession' # nvsSession
      PROVE  ContractStill
  <2>1. /\ phase = "run" /\ pc = "idle" /\ Active(session)
        /\ nvsSession' = WithBase(WithId(nvsSession, session), session')
    BY <1>4, <1>a DEF NoteReading, Ready
  <2>2. nvsSession = session
    BY <2>1 DEF FlashInv
  <2>3. QED
    BY <1>1, <2>1, <2>2 DEF ContractStill, WithId, WithBase, TypeOK, Session
<1>5. QED
  BY <1>2, <1>3, <1>4
     DEF Next, Boot, BootRelay, NetworkFound, SessionInit, PowerLoss, Handler, EndContactor,
         StartPower, Command, StartCommand, StopCommand, ReportTx, RelayCommand,
         Meter, PublishMeterValue, Network, Connect, Disconnect, Acknowledge,
         vars, flash

LEMMA ContractInit == Init => Contract!Init
<1> SUFFICES ASSUME Init PROVE Contract!Init
  OBVIOUS
<1>1. Open = 0 /\ Announced = {} /\ lastRun = 0
  BY DEF Init, Open, Announced, Active, NoSession
<1>2. QED
  BY <1>1 DEF Contract!Init, Open, Announced

LEMMA ContractNext ==
  IInv /\ ~NvsMayFail /\ [Next]_vars => [Contract!Next]_Contract!vars
<1> SUFFICES ASSUME IInv, ~NvsMayFail, [Next]_vars
             PROVE  [Contract!Next]_Contract!vars
  OBVIOUS
<1>1. CASE StartId
  BY <1>1, StartOpens DEF Contract!Next
<1>2. CASE EndSession
  BY <1>2, EndCloses DEF Contract!Next
<1>3. CASE Transmit
  BY <1>3, TransmitAnnounces DEF Contract!Next
<1>4. CASE ~StartId /\ ~EndSession /\ ~Transmit
  BY <1>4, OthersStutter, StillStutters
<1>5. QED
  BY <1>1, <1>2, <1>3, <1>4

\* Through flash and broker the charger is the contract of SessionContract: one
\* session at a time, ended for good, its end announced once and only afterwards.
THEOREM ChargerKeepsContract ==
  ASSUME ~NvsMayFail
  PROVE  Spec => ImplementsContract
<1>1. Init => Contract!Init
  BY ContractInit
<1>2. IInv /\ [Next]_vars => [Contract!Next]_Contract!vars
  BY ContractNext
<1>3. QED
  BY <1>1, <1>2, InvariantHolds, PTL DEF Spec, ImplementsContract, Contract!Spec

(***************************************************************************)
(* What the broker is told: what it retains, in which order it hears of    *)
(* sessions, and what it heard of their bases.                             *)
(***************************************************************************)

----------------------------------------------------------------------------
(* Sequences of messages                                                    *)

LEMMA AppendFacts ==
  ASSUME NEW S, NEW s \in Seq(S), NEW e \in S
  PROVE  /\ Append(s, e) \in Seq(S) /\ Len(Append(s, e)) = Len(s) + 1 /\ Len(s) \in Nat
         /\ \A i \in 1..Len(s) : Append(s, e)[i] = s[i]
         /\ Append(s, e)[Len(s) + 1] = e
OBVIOUS

LEMMA TailFacts ==
  ASSUME NEW S, NEW s \in Seq(S), s # <<>>
  PROVE  /\ Tail(s) \in Seq(S) /\ s[1] \in S
         /\ Len(s) \in Nat /\ Len(s) > 0 /\ Len(Tail(s)) = Len(s) - 1
         /\ \A i \in 1..(Len(s) - 1) : Tail(s)[i] = s[i + 1]
OBVIOUS

LEMMA OneByOne ==
  ASSUME NEW s \in Seq(Message), NEW a \in Message, NEW b \in Message, NEW c \in Message
  PROVE  /\ s \o <<a, b>> = Append(Append(s, a), b)
         /\ s \o (<<a, b>> \o <<>>) = Append(Append(s, a), b)
         /\ s \o (<<a, b>> \o <<c>>) = Append(Append(Append(s, a), b), c)
<1>1. /\ Append(s, a) \in Seq(Message)
      /\ Append(Append(s, a), b) \in Seq(Message)
      /\ Append(Append(Append(s, a), b), c) \in Seq(Message)
  OBVIOUS
<1>2. /\ <<a>> \in Seq(Message) /\ <<b>> \in Seq(Message) /\ <<c>> \in Seq(Message)
      /\ <<a, b>> \in Seq(Message) /\ <<>> \in Seq(Message)
  OBVIOUS
<1>3. <<a, b>> = <<a>> \o <<b>>
  <2> DEFINE u == <<a>> \o <<b>>
             v == <<a, b>>
  <2>1. Len(<<a>>) = 1 /\ Len(<<b>>) = 1 /\ v \in Seq(Message) /\ Len(v) = 2
    OBVIOUS
  <2>2. u \in Seq(Message) /\ Len(u) = 2
    BY <1>2, <2>1, ConcatProperties
  <2>3. u[1] = a /\ u[2] = b /\ v[1] = a /\ v[2] = b
    OBVIOUS
  <2> HIDE DEF u, v
  <2>4. \A i \in 1..Len(u) : u[i] = v[i]
    BY <2>1, <2>2, <2>3
  <2> QED
    BY <2>1, <2>2, <2>4, SeqEqual DEF u, v
<1>4. /\ s \o (<<a>> \o <<b>>) = (s \o <<a>>) \o <<b>>
      /\ s \o (<<a, b>> \o <<c>>) = (s \o <<a, b>>) \o <<c>>
  BY <1>2, ConcatAssociative
<1>5. s \o <<a, b>> = Append(Append(s, a), b)
  <2>1. s \o <<a>> = Append(s, a)
    BY AppendIsConcat
  <2>2. Append(s, a) \o <<b>> = Append(Append(s, a), b)
    BY <1>1, AppendIsConcat
  <2> QED
    BY <1>3, <1>4, <2>1, <2>2
<1>6. Append(Append(s, a), b) \o <<c>> = Append(Append(Append(s, a), b), c)
  BY <1>1, AppendIsConcat
<1>7. <<a, b>> \o <<>> = <<a, b>>
  BY <1>2, ConcatEmptySeq
<1> QED
  BY <1>4, <1>5, <1>6, <1>7

----------------------------------------------------------------------------
(* What the last message of a kind says                                     *)

Silent(s, k) == \A i \in 1..Len(s) : s[i].kind # k

\* A message of the kind is under way, the last one is in S, and if that one
\* was sent, so is what the broker holds.
LastIsIn(s, n, k, S, held) ==
  \E i \in 1..Len(s) :
    /\ s[i].kind = k /\ s[i] \in S
    /\ \A j \in 1..Len(s) : j > i => s[j].kind # k
    /\ i <= n => held \in S

\* What the broker holds once everything in s has arrived is in S; n of it were sent.
Told(s, n, k, S, held) ==
  LastIsIn(s, n, k, S, held) \/ (Silent(s, k) /\ held \in S)

LEMMA ToldMore ==
  ASSUME NEW s, NEW n, NEW k, NEW S, NEW T, NEW held, S \subseteq T, Told(s, n, k, S, held)
  PROVE  Told(s, n, k, T, held)
<1>1. LastIsIn(s, n, k, S, held) => LastIsIn(s, n, k, T, held)
  BY DEF LastIsIn
<1>2. QED
  BY <1>1 DEF Told

LEMMA ToldAppend ==
  ASSUME NEW s \in Seq(Message), NEW m \in Message, NEW n \in 0..Len(s), NEW k, NEW S, NEW held
  PROVE  /\ m.kind # k /\ Told(s, n, k, S, held) => Told(Append(s, m), n, k, S, held)
         /\ m.kind = k /\ m \in S => Told(Append(s, m), n, k, S, held)
<1> DEFINE u == Append(s, m)
<1>1. /\ Len(u) = Len(s) + 1 /\ Len(s) \in Nat
      /\ \A i \in 1..Len(s) : u[i] = s[i]
      /\ u[Len(s) + 1] = m
  BY AppendFacts
<1> HIDE DEF u
<1>2. ASSUME m.kind # k, LastIsIn(s, n, k, S, held) PROVE LastIsIn(u, n, k, S, held)
  <2>1. PICK i \in 1..Len(s) :
          /\ s[i].kind = k /\ s[i] \in S
          /\ \A j \in 1..Len(s) : j > i => s[j].kind # k
          /\ i <= n => held \in S
    BY <1>2 DEF LastIsIn
  <2>2. i \in 1..Len(u) /\ u[i] = s[i]
    BY <1>1
  <2>3. \A j \in 1..Len(u) : j > i => u[j].kind # k
    BY <1>1, <1>2, <2>1
  <2> QED
    BY <2>1, <2>2, <2>3 DEF LastIsIn
<1>3. ASSUME m.kind # k, Silent(s, k) PROVE Silent(u, k)
  BY <1>1, <1>3 DEF Silent
<1>4. ASSUME m.kind = k, m \in S PROVE LastIsIn(u, n, k, S, held)
  <2>1. Len(s) + 1 \in 1..Len(u) /\ ~(Len(s) + 1 <= n)
    BY <1>1
  <2>2. \A j \in 1..Len(u) : ~(j > Len(s) + 1)
    BY <1>1
  <2> QED
    BY <1>1, <1>4, <2>1, <2>2 DEF LastIsIn
<1> QED
  BY <1>2, <1>3, <1>4 DEF Told, u

LEMMA ToldSent ==
  ASSUME NEW s \in Seq(Message), NEW n \in 0..Len(s), n < Len(s), NEW k, NEW S, NEW held,
         Told(s, n, k, S, held)
  PROVE  /\ s[n + 1].kind = k => Told(s, n + 1, k, S, s[n + 1])
         /\ s[n + 1].kind # k => Told(s, n + 1, k, S, held)
<1>1. Len(s) \in Nat /\ n + 1 \in 1..Len(s)
  BY LenProperties
<1>2. CASE Silent(s, k) /\ held \in S
  BY <1>1, <1>2 DEF Silent, Told
<1>3. CASE LastIsIn(s, n, k, S, held)
  <2>1. PICK i \in 1..Len(s) :
          /\ s[i].kind = k /\ s[i] \in S
          /\ \A j \in 1..Len(s) : j > i => s[j].kind # k
          /\ i <= n => held \in S
    BY <1>3 DEF LastIsIn
  <2>2. ASSUME s[n + 1].kind = k PROVE LastIsIn(s, n + 1, k, S, s[n + 1])
    <3>1. ~(n + 1 > i)
      BY <1>1, <2>1, <2>2
    <3>2. i <= n + 1 => i = n + 1
      BY <1>1, <3>1
    <3> QED
      BY <2>1, <3>2 DEF LastIsIn
  <2>3. ASSUME s[n + 1].kind # k PROVE LastIsIn(s, n + 1, k, S, held)
    <3>1. i <= n + 1 => i <= n
      BY <1>1, <2>1, <2>3
    <3> QED
      BY <2>1, <3>1 DEF LastIsIn
  <2> QED
    BY <2>2, <2>3 DEF Told
<1> QED
  BY <1>2, <1>3 DEF Told

LEMMA ToldTail ==
  ASSUME NEW s \in Seq(Message), NEW n \in 1..Len(s), NEW k, NEW S, NEW held,
         Told(s, n, k, S, held)
  PROVE  Told(Tail(s), n - 1, k, S, held)
<1> DEFINE u == Tail(s)
<1>0. s # <<>>
  BY EmptySeq
<1>1. /\ Len(s) \in Nat /\ Len(s) > 0 /\ Len(u) = Len(s) - 1
      /\ \A i \in 1..(Len(s) - 1) : u[i] = s[i + 1]
  BY <1>0, TailFacts
<1> HIDE DEF u
<1>2. CASE Silent(s, k) /\ held \in S
  <2>1. \A i \in 1..Len(u) : i + 1 \in 1..Len(s)
    BY <1>1
  <2>2. Silent(u, k)
    BY <1>1, <1>2, <2>1 DEF Silent
  <2> QED
    BY <1>2, <2>2 DEF Told, u
<1>3. CASE LastIsIn(s, n, k, S, held)
  <2>1. PICK i \in 1..Len(s) :
          /\ s[i].kind = k /\ s[i] \in S
          /\ \A j \in 1..Len(s) : j > i => s[j].kind # k
          /\ i <= n => held \in S
    BY <1>3 DEF LastIsIn
  <2>2. ASSUME NEW j \in 1..Len(u), j > i - 1 PROVE u[j].kind # k
    <3>1. j + 1 \in 1..Len(s) /\ j + 1 > i /\ u[j] = s[j + 1]
      BY <1>1, <2>2
    <3> QED
      BY <2>1, <3>1
  <2>3. CASE i = 1
    <3>1. held \in S
      BY <2>1, <2>3
    <3>2. Silent(u, k)
      BY <2>2, <2>3 DEF Silent
    <3> QED
      BY <3>1, <3>2 DEF Told, u
  <2>4. CASE i # 1
    <3>1. i - 1 \in 1..Len(u) /\ (i - 1) + 1 = i
      BY <1>1, <2>4
    <3>2. u[i - 1] = s[i]
      BY <1>1, <3>1
    <3>3. i - 1 <= n - 1 => i <= n
      OBVIOUS
    <3>4. LastIsIn(u, n - 1, k, S, held)
      BY <2>1, <2>2, <3>1, <3>2, <3>3 DEF LastIsIn
    <3> QED
      BY <3>4 DEF Told, u
  <2> QED
    BY <2>3, <2>4
<1> QED
  BY <1>2, <1>3 DEF Told

----------------------------------------------------------------------------
(* What the steps do to the outbox                                          *)

OutboxStill == UNCHANGED <<connected, outbox, inflight, broker>>

\* One message is enqueued, in the middle of nothing else.
Enqueues(m) ==
  /\ Ready
  /\ outbox' = Append(outbox, m)
  /\ UNCHANGED <<phase, pc, session, nvsSession, lastRun, connected, inflight, broker>>

RelayReport ==
  \E on \in BOOLEAN : contactor' = on /\ Enqueues(RelayState(on))

MeterReport ==
  /\ Enqueues(MeterValue(session, seq'))
  /\ seq' \in Nat
  /\ UNCHANGED contactor

TxReport ==
  /\ Enqueues(TxState(session))
  /\ UNCHANGED contactor

\* A step that leaves the outbox alone, and what else it may do.
QuietStep ==
  /\ OutboxStill
  /\ \/ SessionInit \/ BootRelay \/ NetworkFound \/ EndContactor \/ StartId \/ StartBase
     \/ \E k \in MaybeKwh : NoteReading(k)
     \/ /\ Ready /\ phase' = "run" /\ pc' \in {"end", "start"}
        /\ UNCHANGED <<session, nvsSession, contactor, lastRun>>
        /\ pc' = "end" => Active(session)
     \/ UNCHANGED vars

LEMMA Steps ==
  ASSUME TypeOK, [Next]_vars
  PROVE  \/ QuietStep \/ RelayReport \/ MeterReport \/ TxReport
         \/ EndSession \/ StartPower \/ PowerLoss \/ Network
<1>1. CASE UNCHANGED vars
  BY <1>1 DEF vars, QuietStep, OutboxStill, client, broker
<1>2. CASE Boot \/ EndContactor \/ StartId \/ StartBase
  BY <1>2 DEF Boot, BootRelay, NetworkFound, SessionInit, EndContactor, StartId, StartBase,
              QuietStep, OutboxStill, client, broker
<1>3. ASSUME ReportTx, Commandable PROVE TxReport
  BY <1>3 DEF ReportTx, Commandable, TxReport, Enqueues, device, flash, broker
<1>4. ASSUME NEW t \in Tx, StartCommand(t) PROVE QuietStep \/ TxReport
  <2>1. CASE Runs(t)
    BY <1>3, <1>4, <2>1 DEF StartCommand
  <2>2. CASE ~Runs(t)
    BY <1>4, <2>2 DEF StartCommand, Commandable, Ready, QuietStep, OutboxStill, client,
      broker, flash
  <2> QED
    BY <2>1, <2>2
<1>5. ASSUME NEW t \in Tx, StopCommand(t) PROVE QuietStep \/ TxReport
  <2>1. CASE ~Runs(t)
    BY <1>3, <1>5, <2>1 DEF StopCommand
  <2>2. CASE Runs(t)
    BY <1>5, <2>2
       DEF StopCommand, Runs, Commandable, Ready, QuietStep, OutboxStill, client,
           broker, flash
  <2> QED
    BY <2>1, <2>2
<1>6. ASSUME NEW on \in BOOLEAN, NEW force \in BOOLEAN, RelayCommand(on, force)
      PROVE  QuietStep \/ RelayReport
  <2>1. CASE Guarded(on) /\ force
    BY <1>6, <2>1
       DEF RelayCommand, Guarded, Commandable, Ready, QuietStep, OutboxStill, broker
  <2>2. CASE ~(Guarded(on) /\ force)
    <3>1. contactor' \in BOOLEAN
      BY <1>6, <2>2, SetContactorType DEF RelayCommand, TypeOK
    <3>2. Enqueues(RelayState(contactor'))
      BY <1>6, <2>2 DEF RelayCommand, Commandable, Enqueues, broker
    <3> QED
      BY <3>1, <3>2 DEF RelayReport
  <2> QED
    BY <2>1, <2>2
<1>7. CASE PublishMeterValue
  <2>1. seq' \in Nat
    BY <1>7 DEF PublishMeterValue, TypeOK
  <2> QED
    BY <1>7, <2>1 DEF PublishMeterValue, Commandable, MeterReport, Enqueues, flash,
      broker
<1>8. ASSUME NEW k \in MaybeKwh, NoteReading(k) PROVE QuietStep
  BY <1>8 DEF NoteReading, QuietStep, OutboxStill, client
<1> QED
  BY <1>1, <1>2, <1>4, <1>5, <1>6, <1>7, <1>8 DEF Next, Handler, Command, Meter

\* The outbox after each of the longer steps, message by message.
LEMMA Enqueued ==
  ASSUME TypeOK
  PROVE  /\ Connect =>
              outbox' = Append(Append(outbox, RelayState(contactor)), TxState(session))
         /\ StartPower =>
              outbox' = Append(Append(outbox, TxState(session)), RelayState(TRUE))
         /\ EndSession =>
              LET end == TxEnd(session, CurrentKwh, job.reason)
                  both == Append(Append(outbox, end), RelayState(contactor))
              IN  /\ job.reason = "superseded" => outbox' = both
                  /\ job.reason = "remote" => outbox' = Append(both, TxState(NoSession))
                  /\ job.reason = "admin" => outbox' = Append(both, RelayState(FALSE))
<1> DEFINE end == TxEnd(session, CurrentKwh, job.reason)
<1>1. /\ outbox \in Seq(Message) /\ job.reason \in Reasons
      /\ TxState(session) \in Message /\ TxState(NoSession) \in Message
      /\ RelayState(TRUE) \in Message /\ RelayState(FALSE) \in Message
      /\ RelayState(contactor) \in Message /\ end \in Message
  <2>1. outbox \in Seq(Message) /\ job.reason \in Reasons
    BY DEF TypeOK, Jobs
  <2>2. session \in Session /\ NoSession \in Session /\ contactor \in BOOLEAN
    BY NoSessionType DEF TypeOK
  <2>3. TxState(session) \in Message /\ TxState(NoSession) \in Message
    BY <2>2 DEF Message, TxState
  <2>4. \A on \in BOOLEAN : RelayState(on) \in Message
    BY DEF Message, RelayState
  <2>5. end \in Message
    BY <2>1, <2>2, CurrentKwhType, MessageType
  <2> QED
    BY <2>1, <2>2, <2>3, <2>4, <2>5
<1>2. ASSUME Connect
      PROVE  outbox' = Append(Append(outbox, RelayState(contactor)), TxState(session))
  BY <1>1, <1>2, OneByOne DEF Connect
<1>3. ASSUME StartPower
      PROVE  outbox' = Append(Append(outbox, TxState(session)), RelayState(TRUE))
  <2> DEFINE a == TxState(session)
             b == RelayState(TRUE)
  <2>1. outbox' = outbox \o <<a, b>> /\ a \in Message /\ b \in Message
    BY <1>1, <1>3 DEF StartPower
  <2> HIDE DEF a, b
  <2>2. outbox' = Append(Append(outbox, a), b)
    BY <1>1, <2>1, OneByOne
  <2> QED
    BY <2>2 DEF a, b
<1>4. ASSUME EndSession
      PROVE  LET both == Append(Append(outbox, end), RelayState(contactor))
              IN  /\ job.reason = "superseded" => outbox' = both
                  /\ job.reason = "remote" => outbox' = Append(both, TxState(NoSession))
                  /\ job.reason = "admin" => outbox' = Append(both, RelayState(FALSE))
  <2>1. outbox' = outbox \o (<<end, RelayState(contactor)>> \o AfterEnd(job.reason))
    BY <1>4 DEF EndSession, EndMessages
  <2>2. /\ job.reason = "superseded" => AfterEnd(job.reason) = <<>>
        /\ job.reason = "remote" => AfterEnd(job.reason) = <<TxState(NoSession)>>
        /\ job.reason = "admin" => AfterEnd(job.reason) = <<RelayState(FALSE)>>
    BY DEF AfterEnd
  <2> DEFINE a == RelayState(contactor)
             b == TxState(NoSession)
             c == RelayState(FALSE)
  <2>3. a \in Message /\ b \in Message /\ c \in Message /\ end \in Message
    BY <1>1
  <2> HIDE DEF end, a, b, c
  <2>4. ASSUME job.reason = "superseded" PROVE outbox' = Append(Append(outbox, end), a)
    <3>1. outbox' = outbox \o (<<end, a>> \o <<>>)
      BY <2>1, <2>2, <2>4 DEF a
    <3> QED
      BY <1>1, <2>3, <3>1, OneByOne
  <2>5. ASSUME job.reason = "remote" PROVE outbox' = Append(Append(Append(outbox, end), a), b)
    <3>1. outbox' = outbox \o (<<end, a>> \o <<b>>)
      BY <2>1, <2>2, <2>5 DEF a, b
    <3> QED
      BY <1>1, <2>3, <3>1, OneByOne
  <2>6. ASSUME job.reason = "admin" PROVE outbox' = Append(Append(Append(outbox, end), a), c)
    <3>1. outbox' = outbox \o (<<end, a>> \o <<c>>)
      BY <2>1, <2>2, <2>6 DEF a, c
    <3> QED
      BY <1>1, <2>3, <3>1, OneByOne
  <2> QED
    BY <2>4, <2>5, <2>6 DEF a, b, c
<1> QED
  BY <1>2, <1>3, <1>4

----------------------------------------------------------------------------
(* The retained relay message                                               *)

\* A session is being ended with the contactor open, and the client is only
\* started on a device that runs.
LinkInv ==
  /\ connected => phase = "run"
  /\ pc = "ended" => ~contactor

LEMMA LinkStep ==
  ASSUME TypeOK, PcInv, LinkInv, [Next]_vars
  PROVE  LinkInv'
<1> USE DEF LinkInv, PcInv
<1>1. CASE QuietStep
  <2>1. CASE SessionInit \/ BootRelay \/ NetworkFound
    BY <1>1, <2>1 DEF QuietStep, OutboxStill, SessionInit, BootRelay, NetworkFound
  <2>2. CASE EndContactor
    BY <1>1, <2>2 DEF QuietStep, OutboxStill, EndContactor, SetContactor
  <2>3. CASE StartId \/ StartBase
    BY <1>1, <2>3 DEF QuietStep, OutboxStill, StartId, StartBase
  <2>4. ASSUME NEW k \in MaybeKwh, NoteReading(k) PROVE LinkInv'
    BY <1>1, <2>4 DEF QuietStep, OutboxStill, NoteReading
  <2>5. CASE UNCHANGED vars
    BY <2>5 DEF vars, device, client
  <2> QED
    BY <1>1, <2>1, <2>2, <2>3, <2>4, <2>5 DEF QuietStep, OutboxStill
<1>2. CASE RelayReport \/ MeterReport \/ TxReport
  BY <1>2 DEF RelayReport, MeterReport, TxReport, Enqueues, Ready
<1>3. CASE EndSession
  BY <1>3 DEF EndSession, AfterEndPc
<1>4. CASE StartPower
  BY <1>4 DEF StartPower
<1>5. CASE PowerLoss
  BY <1>5 DEF PowerLoss
<1>6. CASE Network
  BY <1>6 DEF Network, Connect, Disconnect, Transmit, Acknowledge, device, Ready
<1> QED
  BY <1>1, <1>2, <1>3, <1>4, <1>5, <1>6, Steps

Position == {RelayState(contactor)}

\* Once everything enqueued has arrived, the broker holds the contactor's position.
RelayTold ==
  Ready /\ connected =>
    Told(outbox, inflight, "relay", Position, RelayState(retainedRelay))

LEMMA Kinds ==
  /\ \A s : TxState(s).kind = "tx" /\ TxState(s).session = s
  /\ \A s, stop, why : /\ TxEnd(s, stop, why).kind = "end"
                       /\ TxEnd(s, stop, why).session = s
                       /\ TxEnd(s, stop, why).reason = why
  /\ \A on : RelayState(on).kind = "relay" /\ RelayState(on).on = on
  /\ \A s, n : MeterValue(s, n).kind = "meter"
BY DEF TxState, TxEnd, RelayState, MeterValue

LEMMA Enqueueable ==
  ASSUME TypeOK
  PROVE  /\ outbox \in Seq(Message) /\ inflight \in 0..Len(outbox) /\ job.reason \in Reasons
         /\ TxState(session) \in Message /\ TxState(NoSession) \in Message
         /\ \A on \in BOOLEAN : RelayState(on) \in Message
         /\ RelayState(contactor) \in Message
         /\ TxEnd(session, CurrentKwh, job.reason) \in Message
         /\ \A n \in Nat : MeterValue(session, n) \in Message
<1>1. outbox \in Seq(Message) /\ inflight \in 0..Len(outbox) /\ job.reason \in Reasons
  BY DEF TypeOK, Jobs
<1>2. session \in Session /\ NoSession \in Session /\ contactor \in BOOLEAN
  BY NoSessionType DEF TypeOK
<1>3. TxState(session) \in Message /\ TxState(NoSession) \in Message
  BY <1>2 DEF Message, TxState
<1>4. \A on \in BOOLEAN : RelayState(on) \in Message
  BY DEF Message, RelayState
<1>5. TxEnd(session, CurrentKwh, job.reason) \in Message
  BY <1>1, <1>2, CurrentKwhType, MessageType
<1>6. \A n \in Nat : MeterValue(session, n) \in Message
  BY <1>2 DEF MeterValue, Message
<1> QED
  BY <1>1, <1>2, <1>3, <1>4, <1>5, <1>6

LEMMA TransmitTells ==
  ASSUME TypeOK, Transmit, NEW S,
         NEW k, NEW held, Told(outbox, inflight, k, S, held)
  PROVE  LET m == outbox[inflight + 1]
         IN  /\ m \in Message
             /\ m.kind = k => Told(outbox', inflight', k, S, m)
             /\ m.kind # k => Told(outbox', inflight', k, S, held)
<1> DEFINE m == outbox[inflight + 1]
<1>1. outbox' = outbox /\ inflight' = inflight + 1 /\ inflight < Len(outbox)
  BY DEF Transmit
<1>2. outbox \in Seq(Message) /\ inflight \in 0..Len(outbox)
  BY DEF TypeOK
<1>3. m \in Message
  BY <1>1, <1>2, ElementOfSeq
<1>4. /\ m.kind = k => Told(outbox, inflight + 1, k, S, m)
      /\ m.kind # k => Told(outbox, inflight + 1, k, S, held)
  BY <1>1, <1>2, ToldSent
<1> QED
  BY <1>1, <1>3, <1>4

LEMMA RelayToldStep ==
  ASSUME TypeOK, PcInv, LinkInv, RelayTold, [Next]_vars
  PROVE  RelayTold'
<1> SUFFICES ASSUME Ready', connected'
             PROVE  Told(outbox', inflight', "relay", Position', RelayState(retainedRelay'))
  BY DEF RelayTold, Position
<1>0. phase' = "run" /\ pc' = "idle"
  BY DEF Ready
<1>f. /\ outbox \in Seq(Message) /\ inflight \in 0..Len(outbox)
      /\ TxState(session) \in Message /\ TxState(NoSession) \in Message
      /\ \A on \in BOOLEAN : RelayState(on) \in Message
      /\ RelayState(contactor) \in Message
      /\ TxEnd(session, CurrentKwh, job.reason) \in Message
  BY Enqueueable
<1>1. CASE /\ Ready /\ connected
           /\ UNCHANGED <<contactor, outbox, inflight, retainedRelay>>
  BY <1>1 DEF RelayTold, Position
<1>2. CASE QuietStep
  <2>1. connected /\ phase = "run"
    BY <1>2 DEF QuietStep, OutboxStill, LinkInv
  <2>2. ~SessionInit /\ ~BootRelay /\ ~NetworkFound
    BY <2>1 DEF SessionInit, BootRelay, NetworkFound
  <2>3. ~EndContactor /\ ~StartId /\ ~StartBase
    BY <1>0 DEF EndContactor, StartId, StartBase
  <2>4. (\E k \in MaybeKwh : NoteReading(k)) \/ UNCHANGED vars
    BY <1>0, <1>2, <2>2, <2>3 DEF QuietStep
  <2>5. Ready /\ UNCHANGED <<contactor, outbox, inflight, retainedRelay>>
    BY <1>0, <2>4 DEF NoteReading, vars, device, client, broker, Ready
  <2> QED
    BY <1>1, <2>1, <2>5
<1>3. CASE RelayReport
  <2>1. PICK on \in BOOLEAN : contactor' = on /\ Enqueues(RelayState(on))
    BY <1>3 DEF RelayReport
  <2>2. outbox' = Append(outbox, RelayState(on)) /\ inflight' = inflight
    BY <2>1 DEF Enqueues
  <2>3. RelayState(on) \in Position' /\ RelayState(on).kind = "relay"
    BY <2>1, Kinds DEF Position
  <2> DEFINE held == RelayState(retainedRelay')
             m == RelayState(on)
             P == Position'
  <2>4. m \in Message /\ m.kind = "relay" /\ m \in P /\ outbox' = Append(outbox, m)
    BY <1>f, <2>2, <2>3
  <2> HIDE DEF held, m, P
  <2>5. Told(Append(outbox, m), inflight, "relay", P, held)
    BY <1>f, <2>4, ToldAppend
  <2> QED
    BY <2>2, <2>4, <2>5 DEF held, P
<1>4. CASE MeterReport \/ TxReport
  <2>1. PICK m \in Message : Enqueues(m) /\ m.kind # "relay" /\ contactor' = contactor
    BY <1>4, <1>f, Kinds, Enqueueable DEF MeterReport, TxReport
  <2>2. /\ outbox' = Append(outbox, m) /\ inflight' = inflight /\ Ready /\ connected
        /\ retainedRelay' = retainedRelay
    BY <2>1 DEF Enqueues, broker
  <2>3. Told(outbox, inflight, "relay", Position, RelayState(retainedRelay))
    BY <2>2 DEF RelayTold
  <2> DEFINE held == RelayState(retainedRelay)
             P == Position
  <2> HIDE DEF held, P
  <2>4. Told(Append(outbox, m), inflight, "relay", P, held)
    BY <1>f, <2>1, <2>3, ToldAppend DEF held, P
  <2> QED
    BY <2>1, <2>2, <2>4 DEF held, P, Position
<1>5. CASE EndSession
  <2> DEFINE held == RelayState(retainedRelay')
             P == Position'
             a == TxEnd(session, CurrentKwh, job.reason)
             b == RelayState(contactor)
             c == TxState(NoSession)
             d == RelayState(FALSE)
  <2>1. /\ inflight' = inflight /\ contactor' = contactor
        /\ job.reason \in {"remote", "admin"}
    BY <1>0, <1>5, <1>f, Enqueueable DEF EndSession, AfterEndPc, Reasons
  <2>2. ~contactor /\ contactor \in BOOLEAN
    BY <1>5 DEF EndSession, LinkInv, TypeOK
  <2>3. b \in P /\ d \in P
    BY <2>1, <2>2 DEF Position
  <2>4. /\ a \in Message /\ b \in Message /\ c \in Message /\ d \in Message
        /\ b.kind = "relay" /\ c.kind = "tx" /\ d.kind = "relay"
    BY <1>f, Kinds
  <2>5. \/ outbox' = Append(Append(Append(outbox, a), b), c)
        \/ outbox' = Append(Append(Append(outbox, a), b), d)
    BY <1>5, <2>1, Enqueued
  <2> HIDE DEF held, P, a, b, c, d
  <2>6. Append(outbox, a) \in Seq(Message) /\ inflight \in 0..Len(Append(outbox, a))
    BY <1>f, <2>4, AppendFacts
  <2> DEFINE q == Append(Append(outbox, a), b)
  <2>7. q \in Seq(Message) /\ inflight \in 0..Len(q)
    BY <2>4, <2>6, AppendFacts
  <2>8. Told(q, inflight, "relay", P, held)
    BY <2>3, <2>4, <2>6, ToldAppend
  <2> HIDE DEF q
  <2>9. Told(Append(q, c), inflight, "relay", P, held) /\ Told(Append(q, d), inflight, "relay", P, held)
    BY <2>3, <2>4, <2>7, <2>8, ToldAppend
  <2> QED
    BY <2>1, <2>5, <2>9 DEF q, P, held
<1>6. CASE StartPower
  <2> DEFINE held == RelayState(retainedRelay')
             P == Position'
             a == TxState(session)
             b == RelayState(TRUE)
  <2>1. inflight' = inflight /\ contactor' = TRUE /\ outbox' = Append(Append(outbox, a), b)
    BY <1>6, Enqueued DEF StartPower, SetContactor
  <2>2. b \in P /\ b.kind = "relay" /\ a \in Message /\ b \in Message
    BY <1>f, <2>1, Kinds DEF Position
  <2> HIDE DEF held, P, a, b
  <2>3. Append(outbox, a) \in Seq(Message) /\ inflight \in 0..Len(Append(outbox, a))
    BY <1>f, <2>2, AppendFacts
  <2>4. Told(Append(Append(outbox, a), b), inflight, "relay", P, held)
    BY <2>2, <2>3, ToldAppend
  <2> QED
    BY <2>1, <2>4 DEF P, held
<1>7. CASE PowerLoss \/ Disconnect
  BY <1>0, <1>7 DEF PowerLoss, Disconnect
<1>8. CASE Connect
  <2> DEFINE held == RelayState(retainedRelay')
             P == Position'
             a == RelayState(contactor)
             b == TxState(session)
  <2>1. inflight' = inflight /\ contactor' = contactor /\ outbox' = Append(Append(outbox, a), b)
    BY <1>8, Enqueued DEF Connect, device
  <2>2. /\ a \in P /\ a.kind = "relay" /\ b.kind = "tx" /\ a \in Message /\ b \in Message
    BY <1>f, <2>1, Kinds DEF Position
  <2> HIDE DEF held, P, a, b
  <2> DEFINE q == Append(outbox, a)
  <2>3. q \in Seq(Message) /\ inflight \in 0..Len(q)
    BY <1>f, <2>2, AppendFacts
  <2>4. Told(q, inflight, "relay", P, held)
    BY <1>f, <2>2, ToldAppend
  <2> HIDE DEF q
  <2>5. Told(Append(q, b), inflight, "relay", P, held)
    BY <2>2, <2>3, <2>4, ToldAppend
  <2> QED
    BY <2>1, <2>5 DEF q, P, held
<1>9. CASE Transmit
  <2>1. Ready /\ connected /\ contactor' = contactor
    BY <1>9 DEF Transmit, device
  <2> DEFINE m == outbox[inflight + 1]
             held == RelayState(retainedRelay)
             P == Position
  <2>2. Told(outbox, inflight, "relay", P, held)
    BY <2>1 DEF RelayTold
  <2>3. retainedRelay' = IF m.kind = "relay" THEN m.on ELSE retainedRelay
    BY <1>9 DEF Transmit
  <2>4. m \in Message => (m.kind = "relay" => m = RelayState(m.on))
    BY DEF Message, EndMessage, RelayState
  <2>5. P = Position'
    BY <2>1 DEF Position
  <2> HIDE DEF held, P, m
  <2>6. /\ m \in Message
        /\ m.kind = "relay" => Told(outbox', inflight', "relay", P, m)
        /\ m.kind # "relay" => Told(outbox', inflight', "relay", P, held)
    BY <1>9, <2>2, TransmitTells DEF m
  <2>7. CASE m.kind = "relay"
    <3>1. m = RelayState(retainedRelay')
      BY <2>3, <2>4, <2>6, <2>7
    <3> QED
      BY <2>5, <2>6, <2>7, <3>1
  <2>8. CASE m.kind # "relay"
    <3>1. held = RelayState(retainedRelay')
      BY <2>3, <2>8 DEF held
    <3> QED
      BY <2>5, <2>6, <2>8, <3>1
  <2> QED
    BY <2>7, <2>8
<1>10. CASE Acknowledge
  <2> DEFINE held == RelayState(retainedRelay)
             P == Position
  <2>1. /\ Ready /\ connected /\ contactor' = contactor /\ retainedRelay' = retainedRelay
        /\ outbox' = Tail(outbox) /\ inflight' = inflight - 1 /\ inflight > 0
    BY <1>10 DEF Acknowledge, device, broker
  <2>2. inflight \in 1..Len(outbox)
    BY <1>f, <2>1
  <2>3. Told(outbox, inflight, "relay", P, held)
    BY <2>1 DEF RelayTold
  <2>4. P = Position' /\ held = RelayState(retainedRelay')
    BY <2>1 DEF Position
  <2> HIDE DEF held, P
  <2>5. Told(Tail(outbox), inflight - 1, "relay", P, held)
    BY <1>f, <2>2, <2>3, ToldTail
  <2> QED
    BY <2>1, <2>4, <2>5
<1> QED
  BY <1>2, <1>3, <1>4, <1>5, <1>6, <1>7, <1>8, <1>9, <1>10, Steps DEF Network

----------------------------------------------------------------------------
(* Ends, sent or waiting                                                    *)

\* Nothing that was in the outbox left it or moved.
Grown ==
  /\ Len(outbox) <= Len(outbox')
  /\ \A i \in 1..Len(outbox) : outbox'[i] = outbox[i]

LEMMA GrownByOne ==
  ASSUME NEW s \in Seq(Message), NEW m \in Message, outbox \in Seq(Message),
         Len(outbox) <= Len(s), \A i \in 1..Len(outbox) : s[i] = outbox[i]
  PROVE  /\ Append(s, m) \in Seq(Message) /\ Len(outbox) <= Len(Append(s, m))
         /\ \A i \in 1..Len(outbox) : Append(s, m)[i] = outbox[i]
<1>1. /\ Append(s, m) \in Seq(Message) /\ Len(Append(s, m)) = Len(s) + 1 /\ Len(s) \in Nat
      /\ \A i \in 1..Len(s) : Append(s, m)[i] = s[i]
  BY AppendFacts
<1>2. Len(outbox) \in Nat
  BY LenProperties
<1> QED
  BY <1>1, <1>2

LEMMA GrownStep ==
  ASSUME TypeOK, [Next]_vars, ~PowerLoss, ~Acknowledge
  PROVE  /\ Grown
         /\ ~Transmit /\ ~Disconnect => inflight' = inflight /\ UNCHANGED broker
<1>f. /\ outbox \in Seq(Message)
      /\ TxState(session) \in Message /\ TxState(NoSession) \in Message
      /\ \A on \in BOOLEAN : RelayState(on) \in Message
      /\ RelayState(contactor) \in Message /\ RelayState(TRUE) \in Message /\ RelayState(FALSE) \in Message
      /\ TxEnd(session, CurrentKwh, job.reason) \in Message
      /\ \A n \in Nat : MeterValue(session, n) \in Message
      /\ job.reason \in Reasons
  BY Enqueueable
<1>0. Len(outbox) \in Nat
  BY <1>f, LenProperties
<1>1. ASSUME outbox' = outbox PROVE Grown
  <2>1. Len(outbox') = Len(outbox) /\ Len(outbox) <= Len(outbox)
    BY <1>0, <1>1
  <2> QED
    BY <1>1, <2>1 DEF Grown
<1>2. CASE QuietStep
  BY <1>1, <1>2 DEF QuietStep, OutboxStill
<1>3. CASE RelayReport \/ MeterReport \/ TxReport
  <2>1. PICK m \in Message : Enqueues(m)
    BY <1>3, <1>f DEF RelayReport, MeterReport, TxReport
  <2>2. outbox' = Append(outbox, m) /\ inflight' = inflight /\ UNCHANGED broker
    BY <2>1 DEF Enqueues
  <2> QED
    BY <1>f, <1>0, <2>2, GrownByOne DEF Grown
<1>4. ASSUME NEW a \in Message, NEW b \in Message, outbox' = Append(Append(outbox, a), b)
      PROVE  Grown
  <2> DEFINE q == Append(outbox, a)
  <2>1. q \in Seq(Message) /\ Len(outbox) <= Len(q) /\ \A i \in 1..Len(outbox) : q[i] = outbox[i]
    BY <1>f, <1>0, GrownByOne
  <2> HIDE DEF q
  <2>2. /\ Len(outbox) <= Len(Append(q, b))
        /\ \A i \in 1..Len(outbox) : Append(q, b)[i] = outbox[i]
    BY <1>f, <2>1, GrownByOne
  <2> QED
    BY <1>4, <2>2 DEF Grown, q
<1>5. ASSUME NEW a \in Message, NEW b \in Message, NEW c \in Message,
             outbox' = Append(Append(Append(outbox, a), b), c)
      PROVE  Grown
  <2> DEFINE p == Append(outbox, a)
             q == Append(p, b)
  <2>1. p \in Seq(Message) /\ Len(outbox) <= Len(p) /\ \A i \in 1..Len(outbox) : p[i] = outbox[i]
    BY <1>f, <1>0, GrownByOne
  <2> HIDE DEF p
  <2>2. q \in Seq(Message) /\ Len(outbox) <= Len(q) /\ \A i \in 1..Len(outbox) : q[i] = outbox[i]
    BY <1>f, <2>1, GrownByOne
  <2> HIDE DEF q
  <2>3. /\ Len(outbox) <= Len(Append(q, c))
        /\ \A i \in 1..Len(outbox) : Append(q, c)[i] = outbox[i]
    BY <1>f, <2>2, GrownByOne
  <2> QED
    BY <1>5, <2>3 DEF Grown, p, q
<1>6. CASE Connect
  <2>1. outbox' = Append(Append(outbox, RelayState(contactor)), TxState(session))
    BY <1>6, Enqueued
  <2> QED
    BY <1>4, <1>6, <1>f, <2>1 DEF Connect
<1>7. CASE StartPower
  <2> DEFINE a == TxState(session)
             b == RelayState(TRUE)
  <2>1. a \in Message /\ b \in Message /\ outbox' = Append(Append(outbox, a), b)
    BY <1>7, <1>f, Enqueued
  <2>2. inflight' = inflight /\ UNCHANGED broker
    BY <1>7 DEF StartPower
  <2> HIDE DEF a, b
  <2> QED
    BY <1>4, <2>1, <2>2
<1>8. CASE EndSession
  <2> DEFINE a == TxEnd(session, CurrentKwh, job.reason)
             b == RelayState(contactor)
             c == TxState(NoSession)
             d == RelayState(FALSE)
  <2>1. a \in Message /\ b \in Message /\ c \in Message /\ d \in Message
    BY <1>f
  <2>2. \/ outbox' = Append(Append(outbox, a), b)
        \/ outbox' = Append(Append(Append(outbox, a), b), c)
        \/ outbox' = Append(Append(Append(outbox, a), b), d)
    BY <1>8, <1>f, Enqueued DEF Reasons
  <2>3. inflight' = inflight /\ UNCHANGED broker
    BY <1>8 DEF EndSession
  <2> HIDE DEF a, b, c, d
  <2> QED
    BY <1>4, <1>5, <2>1, <2>2, <2>3
<1>9. CASE Transmit \/ Disconnect
  BY <1>1, <1>9 DEF Transmit, Disconnect
<1> QED
  BY <1>2, <1>3, <1>6, <1>7, <1>8, <1>9, Steps DEF Network, QuietStep, OutboxStill

\* The ends that were sent are the broker's.
SentEnds == \A i \in 1..inflight : IsEnd(outbox[i]) => outbox[i] \in ends

LEMMA SentEndsStep ==
  ASSUME TypeOK, SentEnds, [Next]_vars
  PROVE  SentEnds'
<1>0. /\ outbox \in Seq(Message) /\ inflight \in 0..Len(outbox) /\ Len(outbox) \in Nat
  BY LenProperties DEF TypeOK
<1>1. CASE PowerLoss \/ Disconnect
  BY <1>1 DEF PowerLoss, Disconnect, SentEnds
<1>2. CASE Acknowledge
  <2>1. /\ outbox' = Tail(outbox) /\ inflight' = inflight - 1 /\ inflight > 0 /\ ends' = ends
    BY <1>2 DEF Acknowledge, broker
  <2>2. outbox # <<>>
    BY <1>0, <2>1, EmptySeq
  <2>3. \A i \in 1..(Len(outbox) - 1) : outbox'[i] = outbox[i + 1]
    BY <1>0, <2>1, <2>2, TailFacts
  <2>4. \A i \in 1..inflight' : i + 1 \in 1..inflight /\ outbox'[i] = outbox[i + 1]
    BY <1>0, <2>1, <2>3
  <2> QED
    BY <2>1, <2>4 DEF SentEnds
<1>3. CASE Transmit
  <2>1. /\ outbox' = outbox /\ inflight' = inflight + 1
        /\ ends' = IF IsEnd(outbox[inflight + 1]) THEN ends \cup {outbox[inflight + 1]} ELSE ends
    BY <1>3 DEF Transmit
  <2>2. \A i \in 1..inflight' : i \in 1..inflight \/ i = inflight + 1
    BY <1>0, <2>1
  <2> QED
    BY <2>1, <2>2 DEF SentEnds
<1>4. CASE ~PowerLoss /\ ~Disconnect /\ ~Acknowledge /\ ~Transmit
  <2>1. Grown /\ inflight' = inflight /\ ends' = ends
    BY <1>4, GrownStep DEF broker
  <2>2. \A i \in 1..inflight : outbox'[i] = outbox[i]
    BY <1>0, <2>1 DEF Grown
  <2> QED
    BY <2>1, <2>2 DEF SentEnds
<1> QED
  BY <1>1, <1>2, <1>3, <1>4

\* An end is not lost by anything but the device's power.
LEMMA EndsKept ==
  ASSUME TypeOK, SentEnds, [Next]_vars, ~PowerLoss
  PROVE  AllEnds \subseteq AllEnds'
<1>0. /\ outbox \in Seq(Message) /\ inflight \in 0..Len(outbox) /\ Len(outbox) \in Nat
      /\ DOMAIN outbox = 1..Len(outbox)
  BY LenProperties DEF TypeOK
<1>1. ends \subseteq ends'
  <2>1. CASE Transmit
    BY <2>1 DEF Transmit
  <2>2. CASE Disconnect \/ Acknowledge
    BY <2>2 DEF Disconnect, Acknowledge, broker
  <2> QED
    BY <2>1, <2>2, GrownStep DEF broker
<1>3. outbox' \in Seq(Message) /\ DOMAIN outbox' = 1..Len(outbox') /\ Len(outbox') \in Nat
  <2>1. TypeOK'
    BY TypeNext
  <2> QED
    BY <2>1, LenProperties DEF TypeOK
<1>2. SUFFICES ASSUME NEW i \in 1..Len(outbox), IsEnd(outbox[i])
               PROVE  outbox[i] \in ends' \/ \E j \in 1..Len(outbox') : outbox'[j] = outbox[i]
  BY <1>0, <1>1, <1>3 DEF AllEnds, Range
<1>4. CASE Acknowledge
  <2>1. /\ outbox' = Tail(outbox) /\ inflight > 0 /\ ends' = ends
    BY <1>4 DEF Acknowledge, broker
  <2>2. outbox # <<>>
    BY <1>0, <2>1, EmptySeq
  <2>3. /\ Len(outbox') = Len(outbox) - 1
        /\ \A j \in 1..(Len(outbox) - 1) : outbox'[j] = outbox[j + 1]
    BY <1>0, <2>1, <2>2, TailFacts
  <2>4. CASE i = 1
    <3>1. 1 \in 1..inflight
      BY <1>0, <2>1
    <3> QED
      BY <1>2, <2>1, <2>4, <3>1 DEF SentEnds
  <2>5. CASE i # 1
    <3>1. i - 1 \in 1..Len(outbox') /\ (i - 1) + 1 = i
      BY <1>0, <2>3, <2>5
    <3>2. outbox'[i - 1] = outbox[i]
      BY <2>3, <3>1
    <3> QED
      BY <3>1, <3>2
  <2> QED
    BY <2>4, <2>5
<1>5. CASE ~Acknowledge
  <2>1. Grown
    BY <1>5, GrownStep
  <2> QED
    BY <1>0, <1>3, <2>1 DEF Grown
<1> QED
  BY <1>4, <1>5

----------------------------------------------------------------------------
(* The retained tx message                                                  *)

\* What the broker may hold of the session: that session, or one that an
\* administrator's forced off has ended.
Fine(s) ==
  \/ Active(s) = Active(session) /\ s.run = session.run
  \/ /\ ~Active(session)
     /\ \E e \in AllEnds : e.session.run = s.run /\ e.reason = "admin"

FineTx == {m \in Message : m.kind = "tx" /\ Fine(m.session)}

\* Once everything enqueued has arrived, that is what the broker holds.
TxTold ==
  phase = "run" /\ connected /\ pc \in {"idle", "end", "ended"} =>
    Told(outbox, inflight, "tx", FineTx, TxState(retainedTx))

LEMMA FineKept ==
  ASSUME session'.run = session.run, session'.tx = session.tx, AllEnds \subseteq AllEnds'
  PROVE  FineTx \subseteq FineTx'
BY DEF FineTx, Fine, Active

LEMMA FineNow ==
  ASSUME TypeOK
  PROVE  TxState(session) \in FineTx
<1>1. TxState(session) \in Message
  BY Enqueueable
<1> QED
  BY <1>1, Kinds DEF FineTx, Fine

LEMMA TxOfTx ==
  ASSUME NEW m \in Message, m.kind = "tx"
  PROVE  m = TxState(m.session)
BY DEF Message, EndMessage, TxState

LEMMA FineAfterEnd ==
  ASSUME TypeOK, PcInv, EndSession, job.reason = "admin"
  PROVE  FineTx \subseteq FineTx'
<1> DEFINE e == TxEnd(session, CurrentKwh, job.reason)
<1>1. AllEnds' = AllEnds \cup {e} /\ e.session = session /\ e.reason = "admin"
  BY EndSessionEnds, Kinds
<1>2. Active(session) /\ ~Active(session')
  BY DEF EndSession, PcInv, Active, NoSession
<1>3. \A s : Fine(s) => s.run = session.run
  BY <1>2 DEF Fine
<1> HIDE DEF e
<1>4. \A s : s.run = session.run =>
        ~Active(session') /\ \E f \in AllEnds' : f.session.run = s.run /\ f.reason = "admin"
  BY <1>1, <1>2
<1> QED
  BY <1>3, <1>4 DEF FineTx, Fine

LEMMA TxToldStep ==
  ASSUME TypeOK, PcInv, RunInv, LinkInv, SentEnds, TxTold, [Next]_vars
  PROVE  TxTold'
<1> SUFFICES ASSUME phase' = "run", connected', pc' \in {"idle", "end", "ended"}
             PROVE  Told(outbox', inflight', "tx", FineTx', TxState(retainedTx'))
  BY DEF TxTold
<1>f. /\ outbox \in Seq(Message) /\ inflight \in 0..Len(outbox)
      /\ TxState(session) \in Message /\ TxState(NoSession) \in Message
      /\ \A on \in BOOLEAN : RelayState(on) \in Message
      /\ RelayState(contactor) \in Message /\ RelayState(TRUE) \in Message /\ RelayState(FALSE) \in Message
      /\ TxEnd(session, CurrentKwh, job.reason) \in Message
  BY Enqueueable
<1>p. ~PowerLoss
  BY DEF PowerLoss
<1>a. AllEnds \subseteq AllEnds'
  BY <1>p, EndsKept
<1> DEFINE held == TxState(retainedTx')
           P == FineTx'
<1>1. ASSUME phase = "run", connected, pc \in {"idle", "end", "ended"},
             session'.run = session.run, session'.tx = session.tx,
             UNCHANGED <<outbox, inflight, retainedTx>>
      PROVE  Told(outbox', inflight', "tx", P, held)
  <2>1. FineTx \subseteq P
    BY <1>1, <1>a, FineKept
  <2>2. Told(outbox, inflight, "tx", FineTx, held)
    BY <1>1 DEF TxTold
  <2>3. Told(outbox, inflight, "tx", P, held)
    <3> HIDE DEF P, held
    <3> QED
      BY <2>1, <2>2, ToldMore
  <2> QED
    BY <1>1, <2>3
<1>2. CASE QuietStep
  <2>1. connected /\ phase = "run" /\ UNCHANGED <<outbox, inflight, retainedTx>>
    BY <1>2 DEF QuietStep, OutboxStill, LinkInv, broker
  <2>2. ~SessionInit /\ ~BootRelay /\ ~NetworkFound /\ ~StartId /\ ~StartBase
    BY <2>1 DEF SessionInit, BootRelay, NetworkFound, StartId, StartBase
  <2>3. CASE EndContactor \/ UNCHANGED vars
    <3>1. session' = session /\ pc \in {"idle", "end", "ended"}
      BY <2>3 DEF EndContactor, vars, device
    <3> QED
      BY <1>1, <2>1, <3>1
  <2>4. ASSUME NEW k \in MaybeKwh, NoteReading(k)
        PROVE  Told(outbox', inflight', "tx", P, held)
    <3>1. pc = "idle" /\ session'.run = session.run /\ session'.tx = session.tx
      BY <2>4 DEF NoteReading, Ready, TypeOK, Session
    <3> QED
      BY <1>1, <2>1, <3>1
  <2>5. CASE Ready /\ session' = session
    BY <1>1, <2>1, <2>5 DEF Ready
  <2> QED
    BY <1>2, <2>2, <2>3, <2>4, <2>5 DEF QuietStep
<1>3. CASE RelayReport \/ MeterReport
  <2>1. PICK m \in Message : Enqueues(m) /\ m.kind # "tx"
    BY <1>3, <1>f, Kinds, Enqueueable DEF MeterReport, RelayReport
  <2>2. /\ outbox' = Append(outbox, m) /\ inflight' = inflight /\ Ready /\ connected
        /\ retainedTx' = retainedTx /\ session' = session
    BY <2>1 DEF Enqueues, broker
  <2>3. FineTx \subseteq P
    BY <1>a, <2>2, FineKept
  <2>4. Told(outbox, inflight, "tx", FineTx, held)
    BY <2>2 DEF TxTold, Ready
  <2> HIDE DEF held, P
  <2>5. Told(outbox, inflight, "tx", P, held)
    BY <2>3, <2>4, ToldMore
  <2>6. Told(Append(outbox, m), inflight, "tx", P, held)
    BY <1>f, <2>1, <2>5, ToldAppend
  <2> QED
    BY <2>2, <2>6 DEF held, P
<1>4. CASE TxReport
  <2> DEFINE m == TxState(session)
  <2>1. /\ outbox' = Append(outbox, m) /\ inflight' = inflight /\ session' = session
        /\ m.kind = "tx" /\ m \in Message
    BY <1>4, <1>f, Kinds DEF TxReport, Enqueues
  <2>2. m \in P
    BY <2>1, <1>a, FineNow, FineKept
  <2> HIDE DEF held, P, m
  <2>3. Told(Append(outbox, m), inflight, "tx", P, held)
    BY <1>f, <2>1, <2>2, ToldAppend
  <2> QED
    BY <2>1, <2>3 DEF held, P
<1>5. CASE EndSession
  <2> DEFINE a == TxEnd(session, CurrentKwh, job.reason)
             b == RelayState(contactor)
             c == TxState(NoSession)
             d == RelayState(FALSE)
             p == Append(outbox, a)
             q == Append(p, b)
  <2>1. /\ inflight' = inflight /\ session' = NoSession /\ retainedTx' = retainedTx
        /\ job.reason \in {"remote", "admin"} /\ pc = "ended"
    BY <1>5, Enqueueable DEF EndSession, AfterEndPc, Reasons, broker
  <2>2. /\ a \in Message /\ b \in Message /\ c \in Message /\ d \in Message
        /\ a.kind = "end" /\ b.kind = "relay" /\ c.kind = "tx" /\ d.kind = "relay"
    BY <1>f DEF TxState, TxEnd, RelayState
  <2>3. p \in Seq(Message) /\ inflight \in 0..Len(p) /\ q \in Seq(Message) /\ inflight \in 0..Len(q)
    <3>1. p \in Seq(Message) /\ inflight \in 0..Len(p)
      BY <1>f, AppendFacts
    <3> HIDE DEF p
    <3> QED
      BY <3>1, <2>2, AppendFacts
  <2>4. CASE job.reason = "remote"
    <3>1. outbox' = Append(q, c)
      BY <1>5, <2>4, Enqueued
    <3>2. c \in P
      <4>1. (TxState(session) \in FineTx)'
        BY TypeNext, FineNow, PTL
      <4> QED
        BY <2>1, <4>1
    <3> HIDE DEF held, P, q, c
    <3>3. Told(Append(q, c), inflight, "tx", P, held)
      BY <2>2, <2>3, <3>2, ToldAppend
    <3> QED
      BY <2>1, <3>1, <3>3 DEF P, held
  <2>5. CASE job.reason = "admin"
    <3>1. outbox' = Append(q, d)
      BY <1>5, <2>5, Enqueued
    <3>2. FineTx \subseteq P
      BY <1>5, <2>5, FineAfterEnd
    <3>3. connected /\ phase = "run"
      BY <1>5 DEF EndSession
    <3>4. Told(outbox, inflight, "tx", FineTx, held)
      BY <2>1, <3>3 DEF TxTold
    <3> HIDE DEF held, P, a, b, c, d
    <3>5. Told(outbox, inflight, "tx", P, held)
      BY <3>2, <3>4, ToldMore
    <3>6. Told(p, inflight, "tx", P, held)
      BY <1>f, <2>2, <3>5, ToldAppend
    <3> HIDE DEF p
    <3>7. Told(q, inflight, "tx", P, held)
      BY <2>2, <2>3, <3>6, ToldAppend
    <3> HIDE DEF q
    <3>8. Told(Append(q, d), inflight, "tx", P, held)
      BY <2>2, <2>3, <3>7, ToldAppend
    <3> QED
      BY <2>1, <3>1, <3>8 DEF P, held
  <2> QED
    BY <2>1, <2>4, <2>5
<1>6. CASE StartPower
  <2> DEFINE a == TxState(session)
             b == RelayState(TRUE)
             q == Append(outbox, a)
  <2>1. inflight' = inflight /\ session' = session /\ outbox' = Append(q, b)
    BY <1>6, Enqueued DEF StartPower
  <2>2. a \in P
    BY <2>1, <1>a, FineNow, FineKept
  <2>3. b \in Message /\ b.kind = "relay" /\ a \in Message /\ a.kind = "tx"
    BY <1>f DEF RelayState, TxState
  <2> HIDE DEF held, P, a, b
  <2>4. q \in Seq(Message) /\ inflight \in 0..Len(q)
    BY <1>f, <2>3, AppendFacts
  <2>5. Told(q, inflight, "tx", P, held)
    BY <1>f, <2>2, <2>3, ToldAppend
  <2> HIDE DEF q
  <2>6. Told(Append(q, b), inflight, "tx", P, held)
    BY <2>3, <2>4, <2>5, ToldAppend
  <2> QED
    BY <2>1, <2>6 DEF P, held
<1>7. CASE Disconnect
  BY <1>7 DEF Disconnect
<1>8. CASE Connect
  <2> DEFINE a == RelayState(contactor)
             b == TxState(session)
             q == Append(outbox, a)
  <2>1. inflight' = inflight /\ session' = session /\ outbox' = Append(q, b)
    BY <1>8, Enqueued DEF Connect, device
  <2>2. b \in P /\ b \in Message /\ b.kind = "tx" /\ a \in Message
    BY <1>f, <1>a, <2>1, FineNow, FineKept, Kinds
  <2> HIDE DEF held, P, a, b
  <2>3. q \in Seq(Message) /\ inflight \in 0..Len(q)
    BY <1>f, <2>2, AppendFacts
  <2> HIDE DEF q
  <2>4. Told(Append(q, b), inflight, "tx", P, held)
    BY <2>2, <2>3, ToldAppend
  <2> QED
    BY <2>1, <2>4 DEF P, held
<1>9. CASE Transmit
  <2>1. Ready /\ connected /\ session' = session
    BY <1>9 DEF Transmit, device
  <2> DEFINE m == outbox[inflight + 1]
             was == TxState(retainedTx)
  <2>2. Told(outbox, inflight, "tx", FineTx, was)
    BY <2>1 DEF TxTold, Ready
  <2>3. retainedTx' = IF m.kind = "tx" THEN m.session ELSE retainedTx
    BY <1>9 DEF Transmit
  <2>4. FineTx \subseteq P
    BY <1>a, <2>1, FineKept
  <2> HIDE DEF P, m, was
  <2>5. Told(outbox, inflight, "tx", P, was)
    BY <2>2, <2>4, ToldMore
  <2>6. /\ m \in Message
        /\ m.kind = "tx" => Told(outbox', inflight', "tx", P, m)
        /\ m.kind # "tx" => Told(outbox', inflight', "tx", P, was)
    BY <1>9, <2>5, TransmitTells DEF m
  <2>7. CASE m.kind = "tx"
    <3>1. m = held
      BY <2>3, <2>6, <2>7, TxOfTx
    <3> QED
      BY <2>6, <2>7, <3>1 DEF P
  <2>8. CASE m.kind # "tx"
    <3>1. was = held
      BY <2>3, <2>8 DEF was
    <3> QED
      BY <2>6, <2>8, <3>1 DEF P
  <2> QED
    BY <2>7, <2>8
<1>10. CASE Acknowledge
  <2>1. /\ Ready /\ connected /\ session' = session /\ retainedTx' = retainedTx
        /\ outbox' = Tail(outbox) /\ inflight' = inflight - 1 /\ inflight > 0
    BY <1>10 DEF Acknowledge, device, broker
  <2>2. inflight \in 1..Len(outbox)
    BY <1>f, <2>1
  <2>3. Told(outbox, inflight, "tx", FineTx, held)
    BY <2>1 DEF TxTold, Ready
  <2>4. FineTx \subseteq P
    BY <1>a, <2>1, FineKept
  <2> HIDE DEF held, P
  <2>5. Told(outbox, inflight, "tx", P, held)
    BY <2>3, <2>4, ToldMore
  <2>6. Told(Tail(outbox), inflight - 1, "tx", P, held)
    BY <1>f, <2>2, <2>5, ToldTail
  <2> QED
    BY <2>1, <2>6 DEF P, held
<1> QED
  BY <1>p, <1>2, <1>3, <1>4, <1>5, <1>6, <1>7, <1>8, <1>9, <1>10, Steps DEF Network

LEMMA ToldAtStart == Init => LinkInv /\ RelayTold /\ TxTold /\ SentEnds
BY DEF Init, LinkInv, RelayTold, TxTold, SentEnds, Ready

ToldInv == LinkInv /\ RelayTold /\ TxTold /\ SentEnds

LEMMA ToldHolds == Spec => []ToldInv
<1>1. Init => ToldInv
  BY ToldAtStart DEF ToldInv
<1>2. IInv /\ ToldInv /\ [Next]_vars => ToldInv'
  BY LinkStep, RelayToldStep, TxToldStep, SentEndsStep DEF IInv, ToldInv
<1> QED
  BY <1>1, <1>2, InvariantHolds, PTL DEF Spec

LEMMA NothingWaits ==
  ASSUME NEW k, NEW S, NEW held, Told(<<>>, 0, k, S, held)
  PROVE  held \in S
BY DEF Told, LastIsIn

\* Once everything was sent and acknowledged, the broker's retained relay message
\* is the contactor's position: every path that moves it reports it last, and
\* reconnects, resent messages and power cuts do not bring an old position back.
\* It holds for any backlog, even if flash writes get lost.
THEOREM PositionIsTold == Spec => []RetainedRelayIsTrue
<1>1. IInv /\ ToldInv => RetainedRelayIsTrue
  <2> SUFFICES ASSUME TypeOK, RelayTold, Quiet PROVE retainedRelay = contactor
    BY DEF IInv, ToldInv, RetainedRelayIsTrue
  <2>1. outbox = <<>> /\ inflight = 0
    BY DEF Quiet, TypeOK
  <2>2. Told(<<>>, 0, "relay", Position, RelayState(retainedRelay))
    BY <2>1 DEF RelayTold, Quiet
  <2>3. RelayState(retainedRelay) \in Position
    BY <2>2, NothingWaits
  <2>4. RelayState(retainedRelay).on = RelayState(contactor).on
    BY <2>3 DEF Position
  <2> QED
    BY <2>4 DEF RelayState
<1> QED
  BY <1>1, ToldHolds, InvariantHolds, PTL

\* Once everything was sent and acknowledged, the retained tx message is the
\* running session, or the idle state, or a session whose delivered tx/end names
\* an administrator: the one way a session ends without its idle state.
THEOREM SessionIsTold == Spec => []RetainedTxIsTrueOrEnded
<1>1. IInv /\ ToldInv => RetainedTxIsTrueOrEnded
  <2> SUFFICES ASSUME TypeOK, TxTold, Quiet
               PROVE  \/ Active(retainedTx) = Active(session) /\ retainedTx.run = session.run
                      \/ /\ ~Active(session)
                         /\ \E e \in ends : e.session.run = retainedTx.run /\ e.reason = "admin"
    BY DEF IInv, ToldInv, RetainedTxIsTrueOrEnded
  <2>1. outbox = <<>> /\ inflight = 0
    BY DEF Quiet, TypeOK
  <2>2. Told(<<>>, 0, "tx", FineTx, TxState(retainedTx))
    BY <2>1 DEF TxTold, Quiet, Ready
  <2>3. TxState(retainedTx) \in FineTx
    BY <2>2, NothingWaits
  <2>4. Fine(retainedTx)
    BY <2>3, Kinds DEF FineTx
  <2>5. AllEnds = ends
    BY <2>1 DEF AllEnds, Range
  <2> QED
    BY <2>4, <2>5 DEF Fine
<1> QED
  BY <1>1, ToldHolds, InvariantHolds, PTL

----------------------------------------------------------------------------
(* The order of sessions                                                    *)

\* An active session is the newest, in memory as in flash.
Newest ==
  /\ Active(session) => session.run = lastRun
  /\ Active(nvsSession) => nvsSession.run = lastRun

LEMMA NewestStep ==
  ASSUME TypeOK, PcInv, RunInv, FlashInv, ~NvsMayFail, Newest, [Next]_vars
  PROVE  Newest'
<1> USE DEF Newest, Active
<1>w. \A new, old : Written(new, old) = {new}
  BY DEF Written
<1>1. CASE UNCHANGED <<session, nvsSession, lastRun>>
  BY <1>1
<1>2. CASE SessionInit \/ PowerLoss
  <2>1. session' = NoSession \/ (session' = nvsSession /\ Active(nvsSession))
    BY <1>2 DEF SessionInit, PowerLoss, Restored
  <2>2. nvsSession' = nvsSession /\ lastRun' = lastRun
    BY <1>2 DEF SessionInit, PowerLoss, flash
  <2> QED
    BY <2>1, <2>2 DEF NoSession
<1>3. CASE EndSession
  BY <1>3, <1>w DEF EndSession, NoSession
<1>4. CASE StartId
  <2>1. session'.run = lastRun' /\ nvsSession' = WithId(nvsSession, session')
    BY <1>4, <1>w DEF StartId
  <2>2. nvsSession'.run = session'.run
    BY <2>1 DEF WithId, TypeOK, Session
  <2> QED
    BY <2>1, <2>2
<1>5. CASE StartBase
  BY <1>5, <1>w DEF StartBase, WithBase, TypeOK, Session
<1>6. ASSUME NEW k \in MaybeKwh, NoteReading(k), nvsSession' # nvsSession \/ session' # session
      PROVE  Newest'
  <2>1. /\ Active(session)
        /\ session' = [session EXCEPT !.base = k]
        /\ nvsSession' = WithBase(WithId(nvsSession, session), session')
        /\ lastRun' = lastRun
    BY <1>6, <1>w DEF NoteReading
  <2>2. session'.run = session.run /\ nvsSession'.run = session.run
    BY <2>1 DEF WithBase, WithId, TypeOK, Session
  <2> QED
    BY <2>1, <2>2
<1>7. ASSUME NEW k \in MaybeKwh, NoteReading(k) PROVE lastRun' = lastRun
  BY <1>7 DEF NoteReading
<1>8. CASE RelayReport \/ MeterReport \/ TxReport
  BY <1>1, <1>8 DEF RelayReport, MeterReport, TxReport, Enqueues
<1>9. CASE StartPower \/ Network \/ BootRelay \/ NetworkFound \/ EndContactor \/ UNCHANGED vars
  BY <1>1, <1>9 DEF StartPower, Network, Connect, Disconnect, Transmit, Acknowledge,
                    BootRelay, NetworkFound, EndContactor, vars, device, flash
<1> QED
  BY <1>1, <1>2, <1>3, <1>4, <1>5, <1>6, <1>7, <1>8, <1>9, Steps DEF QuietStep

\* Of the sessions s tells of, none is newer than number n.
UpTo(s, n) == \A i \in 1..Len(s) : s[i].kind = "tx" => s[i].session.run <= n

\* No session is told of before the end, still to come, of an older one.
EndsLast(s, arrived, told) ==
  \A i \in 1..Len(s) :
    IsEnd(s[i]) /\ s[i] \notin arrived =>
      /\ told <= s[i].session.run
      /\ \A j \in 1..(i - 1) : s[j].kind = "tx" => s[j].session.run <= s[i].session.run

LEMMA UpToAppend ==
  ASSUME NEW s \in Seq(Message), NEW m \in Message, NEW n, UpTo(s, n),
         m.kind = "tx" => m.session.run <= n
  PROVE  UpTo(Append(s, m), n)
<1> DEFINE u == Append(s, m)
<1>1. /\ Len(u) = Len(s) + 1 /\ Len(s) \in Nat
      /\ \A i \in 1..Len(s) : u[i] = s[i]
      /\ u[Len(s) + 1] = m
  BY AppendFacts
<1> HIDE DEF u
<1> SUFFICES UpTo(u, n)
  BY DEF u
<1>2. \A i \in 1..Len(u) : i \in 1..Len(s) \/ i = Len(s) + 1
  BY <1>1
<1> QED
  BY <1>1, <1>2 DEF UpTo

LEMMA EndsLastAppend ==
  ASSUME NEW s \in Seq(Message), NEW m \in Message, NEW arrived, NEW told, EndsLast(s, arrived, told),
         IsEnd(m) => told <= m.session.run /\ UpTo(s, m.session.run)
  PROVE  EndsLast(Append(s, m), arrived, told)
<1> DEFINE u == Append(s, m)
<1>1. /\ Len(u) = Len(s) + 1 /\ Len(s) \in Nat
      /\ \A i \in 1..Len(s) : u[i] = s[i]
      /\ u[Len(s) + 1] = m
  BY AppendFacts
<1> HIDE DEF u
<1> SUFFICES EndsLast(u, arrived, told)
  BY DEF u
<1>2. \A i \in 1..Len(u) : i \in 1..Len(s) \/ i = Len(s) + 1
  BY <1>1
<1> SUFFICES ASSUME NEW i \in 1..Len(u), IsEnd(u[i]), u[i] \notin arrived
             PROVE  /\ told <= u[i].session.run
                    /\ \A j \in 1..(i - 1) : u[j].kind = "tx" => u[j].session.run <= u[i].session.run
  BY DEF EndsLast
<1>3. \A j \in 1..(i - 1) : j \in 1..Len(s) /\ u[j] = s[j]
  BY <1>1, <1>2
<1>4. CASE i \in 1..Len(s)
  BY <1>1, <1>3, <1>4 DEF EndsLast
<1>5. CASE i = Len(s) + 1
  BY <1>1, <1>3, <1>5 DEF UpTo
<1> QED
  BY <1>2, <1>4, <1>5

LEMMA OrderTail ==
  ASSUME NEW s \in Seq(Message), s # <<>>, NEW n, NEW arrived, NEW told,
         UpTo(s, n), EndsLast(s, arrived, told)
  PROVE  UpTo(Tail(s), n) /\ EndsLast(Tail(s), arrived, told)
<1> DEFINE u == Tail(s)
<1>1. /\ Len(s) \in Nat /\ Len(u) = Len(s) - 1
      /\ \A i \in 1..(Len(s) - 1) : u[i] = s[i + 1]
  BY TailFacts
<1> HIDE DEF u
<1>2. \A i \in 1..Len(u) : i + 1 \in 1..Len(s) /\ u[i] = s[i + 1]
  BY <1>1
<1>3. UpTo(u, n)
  BY <1>2 DEF UpTo
<1>4. ASSUME NEW i \in 1..Len(u), IsEnd(u[i]), u[i] \notin arrived
      PROVE  /\ told <= u[i].session.run
             /\ \A j \in 1..(i - 1) : u[j].kind = "tx" => u[j].session.run <= u[i].session.run
  <2>1. /\ told <= u[i].session.run
        /\ \A j \in 1..((i + 1) - 1) : s[j].kind = "tx" => s[j].session.run <= u[i].session.run
    BY <1>2, <1>4 DEF EndsLast
  <2>2. \A j \in 1..(i - 1) : j + 1 \in 1..((i + 1) - 1) /\ u[j] = s[j + 1]
    BY <1>1, <1>2
  <2> QED
    BY <2>1, <2>2
<1> QED
  BY <1>3, <1>4 DEF EndsLast, u

InOrder ==
  /\ retainedTx.run <= lastRun
  /\ UpTo(outbox, lastRun)
  /\ EndsLast(outbox, ends, retainedTx.run)

LEMMA InOrderAppend ==
  ASSUME NEW s \in Seq(Message), NEW m \in Message, NEW n \in Nat, NEW arrived, NEW told \in Nat,
         told <= n, UpTo(s, n), EndsLast(s, arrived, told),
         m.kind = "tx" => m.session.run <= n,
         IsEnd(m) => m.session.run = n
  PROVE  /\ Append(s, m) \in Seq(Message)
         /\ UpTo(Append(s, m), n) /\ EndsLast(Append(s, m), arrived, told)
<1>1. Append(s, m) \in Seq(Message)
  BY AppendFacts
<1>2. UpTo(Append(s, m), n)
  BY UpToAppend
<1>3. EndsLast(Append(s, m), arrived, told)
  BY EndsLastAppend
<1> QED
  BY <1>1, <1>2, <1>3

LEMMA InOrderStep ==
  ASSUME TypeOK, PcInv, RunInv, SentEnds, Newest, InOrder, [Next]_vars
  PROVE  InOrder'
<1>f. /\ outbox \in Seq(Message) /\ inflight \in 0..Len(outbox) /\ Len(outbox) \in Nat
      /\ TxState(session) \in Message /\ TxState(NoSession) \in Message
      /\ \A on \in BOOLEAN : RelayState(on) \in Message
      /\ RelayState(contactor) \in Message /\ RelayState(TRUE) \in Message /\ RelayState(FALSE) \in Message
      /\ TxEnd(session, CurrentKwh, job.reason) \in Message
      /\ \A n \in Nat : MeterValue(session, n) \in Message
      /\ job.reason \in Reasons
  BY Enqueueable, LenProperties
<1>n. /\ lastRun \in Nat /\ retainedTx.run \in Nat
      /\ session.run \in Nat /\ session.run <= lastRun /\ NoSession.run = 0
      /\ retainedTx.run <= lastRun
  BY DEF TypeOK, Session, RunInv, NoSession, InOrder
<1> DEFINE Keeps(s) == /\ s \in Seq(Message) /\ UpTo(s, lastRun)
                       /\ EndsLast(s, ends, retainedTx.run)
<1>k. Keeps(outbox)
  BY <1>f DEF InOrder
<1>a. ASSUME NEW s, Keeps(s), NEW m \in Message,
             m.kind = "tx" => m.session.run <= lastRun,
             IsEnd(m) => m.session.run = lastRun
      PROVE  Keeps(Append(s, m))
  BY <1>a, <1>n, InOrderAppend
<1>m. /\ \A s : TxState(s).kind = "tx" /\ TxState(s).session = s /\ ~IsEnd(TxState(s))
      /\ \A on : RelayState(on).kind # "tx" /\ ~IsEnd(RelayState(on))
      /\ RelayState(TRUE).kind # "tx" /\ ~IsEnd(RelayState(TRUE))
      /\ RelayState(FALSE).kind # "tx" /\ ~IsEnd(RelayState(FALSE))
      /\ \A s, n : MeterValue(s, n).kind # "tx" /\ ~IsEnd(MeterValue(s, n))
      /\ \A s, k, why : TxEnd(s, k, why).kind # "tx" /\ TxEnd(s, k, why).session = s
  BY DEF IsEnd, TxState, RelayState, MeterValue, TxEnd
<1>1. ASSUME Keeps(outbox'), lastRun' = lastRun, UNCHANGED <<retainedTx, ends>>
      PROVE  InOrder'
  BY <1>1, <1>n DEF InOrder
<1> HIDE DEF Keeps
<1>2. CASE QuietStep
  <2>1. UNCHANGED <<outbox, retainedTx, ends>>
    BY <1>2 DEF QuietStep, OutboxStill, broker
  <2>2. CASE lastRun' = lastRun
    BY <1>1, <1>k, <2>1, <2>2
  <2>3. CASE lastRun' # lastRun
    <3>1. lastRun' = lastRun + 1
      BY <1>2, <2>3 DEF QuietStep, SessionInit, BootRelay, NetworkFound, EndContactor, StartId,
        StartBase,
                        NoteReading, vars
    <3>2. \A i \in 1..Len(outbox) : outbox[i].kind = "tx" => outbox[i].session.run \in Nat
      <4>1. \A i \in 1..Len(outbox) : outbox[i] \in Message
        BY <1>f, ElementOfSeq
      <4> QED
        BY <4>1, MessageKinds DEF Session
    <3>3. UpTo(outbox, lastRun')
      BY <1>n, <3>1, <3>2 DEF InOrder, UpTo
    <3>4. retainedTx.run <= lastRun'
      BY <1>n, <3>1
    <3> QED
      BY <2>1, <3>3, <3>4 DEF InOrder
  <2> QED
    BY <2>2, <2>3
<1>3. CASE RelayReport \/ MeterReport \/ TxReport
  <2>1. PICK m \in Message : /\ Enqueues(m) /\ ~IsEnd(m)
                             /\ m.kind = "tx" => m.session.run <= lastRun
    BY <1>3, <1>f, <1>n, <1>m DEF RelayReport, MeterReport, TxReport
  <2>2. outbox' = Append(outbox, m) /\ lastRun' = lastRun /\ UNCHANGED <<retainedTx,
                                                                         ends>>
    BY <2>1 DEF Enqueues, broker
  <2>3. Keeps(Append(outbox, m))
    BY <1>k, <1>a, <2>1
  <2> QED
    BY <1>1, <2>2, <2>3
<1>4. CASE Connect
  <2> DEFINE a == RelayState(contactor)
             b == TxState(session)
  <2>1. /\ outbox' = Append(Append(outbox, a), b) /\ lastRun' = lastRun
        /\ UNCHANGED <<retainedTx, ends>>
    BY <1>4, Enqueued DEF Connect, broker
  <2>2. /\ a \in Message /\ a.kind # "tx" /\ ~IsEnd(a)
        /\ b \in Message /\ b.session.run <= lastRun /\ ~IsEnd(b)
    BY <1>f, <1>n, <1>m
  <2> HIDE DEF a, b
  <2>3. Keeps(Append(outbox, a))
    BY <1>k, <1>a, <2>2
  <2>4. Keeps(Append(Append(outbox, a), b))
    BY <1>a, <2>2, <2>3
  <2> QED
    BY <1>1, <2>1, <2>4
<1>5. CASE StartPower
  <2> DEFINE a == TxState(session)
             b == RelayState(TRUE)
  <2>1. /\ outbox' = Append(Append(outbox, a), b) /\ lastRun' = lastRun
        /\ UNCHANGED <<retainedTx, ends>>
    BY <1>5, Enqueued DEF StartPower, broker
  <2>2. /\ b \in Message /\ b.kind # "tx" /\ ~IsEnd(b)
        /\ a \in Message /\ a.session.run <= lastRun /\ ~IsEnd(a)
    BY <1>f, <1>n, <1>m
  <2> HIDE DEF a, b
  <2>3. Keeps(Append(outbox, a))
    BY <1>k, <1>a, <2>2
  <2>4. Keeps(Append(Append(outbox, a), b))
    BY <1>a, <2>2, <2>3
  <2> QED
    BY <1>1, <2>1, <2>4
<1>6. CASE EndSession
  <2> DEFINE a == TxEnd(session, CurrentKwh, job.reason)
             b == RelayState(contactor)
             c == TxState(NoSession)
             d == RelayState(FALSE)
             p == Append(outbox, a)
             q == Append(p, b)
  <2>1. \/ outbox' = q \/ outbox' = Append(q, c) \/ outbox' = Append(q, d)
    BY <1>6, <1>f, Enqueued DEF Reasons
  <2>2. lastRun' = lastRun /\ UNCHANGED <<retainedTx, ends>> /\ session.run = lastRun
    BY <1>6 DEF EndSession, broker, PcInv, Newest
  <2>3. /\ a \in Message /\ b \in Message /\ c \in Message /\ d \in Message
        /\ a.kind # "tx" /\ a.session.run = lastRun
        /\ b.kind # "tx" /\ ~IsEnd(b)
        /\ c.session.run <= lastRun /\ ~IsEnd(c)
        /\ d.kind # "tx" /\ ~IsEnd(d)
    <3>1. /\ a \in Message /\ b \in Message /\ c \in Message /\ d \in Message
      BY <1>f
    <3>2. a.kind # "tx" /\ a.session = session /\ c.session = NoSession
      BY DEF TxEnd, TxState
    <3>3. b.kind # "tx" /\ ~IsEnd(b) /\ ~IsEnd(c) /\ d.kind # "tx" /\ ~IsEnd(d)
      BY DEF IsEnd, TxState, RelayState
    <3> HIDE DEF a, b, c, d
    <3> QED
      BY <1>n, <2>2, <3>1, <3>2, <3>3
  <2> HIDE DEF a, b, c, d
  <2>4. Keeps(p)
    BY <1>k, <1>a, <2>3
  <2> HIDE DEF p
  <2>5. Keeps(q)
    BY <1>a, <2>3, <2>4
  <2> HIDE DEF q
  <2>6. Keeps(Append(q, c)) /\ Keeps(Append(q, d))
    BY <1>a, <2>3, <2>5
  <2> QED
    BY <1>1, <2>1, <2>2, <2>5, <2>6
<1>7. CASE PowerLoss
  <2>1. outbox' = <<>> /\ lastRun' = lastRun /\ UNCHANGED <<retainedTx, ends>>
    BY <1>7 DEF PowerLoss, broker
  <2> QED
    BY <1>n, <2>1 DEF InOrder, UpTo, EndsLast
<1>8. CASE Disconnect
  <2>1. outbox' = outbox /\ lastRun' = lastRun /\ UNCHANGED <<retainedTx, ends>>
    BY <1>8 DEF Disconnect, broker
  <2> QED
    BY <1>1, <1>k, <2>1
<1>9. CASE Transmit
  <2> DEFINE m == outbox[inflight + 1]
  <2>1. /\ outbox' = outbox /\ lastRun' = lastRun /\ inflight < Len(outbox)
        /\ retainedTx' = IF m.kind = "tx" THEN m.session ELSE retainedTx
        /\ ends' = IF IsEnd(m) THEN ends \cup {m} ELSE ends
    BY <1>9 DEF Transmit
  <2>2. inflight + 1 \in 1..Len(outbox)
    BY <1>f, <2>1
  <2>3. CASE m.kind = "tx"
    <3>1. retainedTx' = m.session /\ ends' = ends /\ m.session.run <= lastRun
      BY <2>1, <2>2, <2>3 DEF IsEnd, InOrder, UpTo
    <3>2. ASSUME NEW i \in 1..Len(outbox), IsEnd(outbox[i]), outbox[i] \notin ends
          PROVE  m.session.run <= outbox[i].session.run
      <4>1. i \notin 1..inflight
        BY <3>2 DEF SentEnds
      <4>2. i # inflight + 1
        BY <2>3, <3>2 DEF IsEnd
      <4>3. inflight + 1 \in 1..(i - 1)
        BY <1>f, <2>2, <4>1, <4>2
      <4> QED
        BY <2>3, <3>2, <4>3 DEF InOrder, EndsLast
    <3>3. EndsLast(outbox, ends, m.session.run)
      BY <3>2 DEF InOrder, EndsLast
    <3> QED
      BY <2>1, <3>1, <3>3 DEF InOrder
  <2>4. CASE m.kind # "tx"
    <3>1. retainedTx' = retainedTx /\ ends \subseteq ends'
      BY <2>1, <2>4
    <3>2. EndsLast(outbox, ends', retainedTx.run)
      BY <3>1 DEF InOrder, EndsLast
    <3> QED
      BY <2>1, <3>1, <3>2 DEF InOrder
  <2> QED
    BY <2>3, <2>4
<1>10. CASE Acknowledge
  <2>1. /\ outbox' = Tail(outbox) /\ lastRun' = lastRun /\ inflight > 0
        /\ UNCHANGED <<retainedTx, ends>>
    BY <1>10 DEF Acknowledge, broker
  <2>2. outbox # <<>>
    BY <1>f, <2>1, EmptySeq
  <2>3. UpTo(Tail(outbox), lastRun) /\ EndsLast(Tail(outbox), ends, retainedTx.run)
    BY <1>f, <2>2, OrderTail DEF InOrder
  <2> QED
    BY <1>n, <2>1, <2>3 DEF InOrder
<1> QED
  BY <1>2, <1>3, <1>4, <1>5, <1>6, <1>7, <1>8, <1>9, <1>10, Steps DEF Network

OrderInv == ~NvsMayFail => Newest /\ InOrder

LEMMA OrderHolds == Spec => []OrderInv
<1>1. Init => OrderInv
  <2> SUFFICES ASSUME Init PROVE Newest /\ InOrder
    BY DEF OrderInv
  <2>1. ~Active(NoSession) /\ NoSession.run = 0
    BY DEF Active, NoSession
  <2> QED
    BY <2>1 DEF Init, Newest, InOrder, UpTo, EndsLast
<1>2. IInv /\ ToldInv /\ OrderInv /\ [Next]_vars => OrderInv'
  BY NewestStep, InOrderStep DEF IInv, ToldInv, OrderInv
<1> QED
  BY <1>1, <1>2, InvariantHolds, ToldHolds, PTL DEF Spec

\* The broker never hears the end of a session after it heard that a later one is
\* active: the acknowledgement of the end goes out before that of the start, and
\* neither a broken connection nor a power cut between them changes the order.
THEOREM AcksArriveInOrder ==
  ASSUME ~NvsMayFail
  PROVE  Spec => EndsArriveInOrder
<1>1. IInv /\ OrderInv /\ [Next]_vars
        => [\A e \in ends' \ ends : e.session.run >= retainedTx.run]_vars
  <2> SUFFICES ASSUME IInv, OrderInv, [Next]_vars, NEW e \in ends' \ ends
               PROVE  e.session.run >= retainedTx.run
    OBVIOUS
  <2>1. Transmit
    <3>1. ends' # ends
      OBVIOUS
    <3>2. ~PowerLoss /\ ~Acknowledge /\ ~Disconnect
      BY <3>1 DEF PowerLoss, Acknowledge, Disconnect, broker
    <3> QED
      BY <3>1, <3>2, GrownStep DEF IInv, broker
  <2>2. inflight + 1 \in 1..Len(outbox)
    BY <2>1, LenProperties DEF Transmit, IInv, TypeOK
  <2>3. e = outbox[inflight + 1] /\ IsEnd(e)
    BY <2>1 DEF Transmit
  <2>4. retainedTx.run <= e.session.run
    BY <2>2, <2>3 DEF OrderInv, InOrder, EndsLast
  <2>5. e.session.run \in Nat /\ retainedTx.run \in Nat
    <3>1. e \in EndMessage
      BY <2>2, <2>3, ElementOfSeq, MessageKinds DEF IInv, TypeOK
    <3> QED
      BY <3>1 DEF EndMessage, IInv, TypeOK, Session
  <2> QED
    BY <2>4, <2>5
<1> QED
  BY <1>1, InvariantHolds, OrderHolds, PTL DEF Spec, EndsArriveInOrder

----------------------------------------------------------------------------
(* The bases the broker was shown                                           *)

Telling(s) ==
  {m.session : m \in {x \in Range(s) : x.kind = "tx" /\ x.session.base # Unreadable}}

\* Sessions whose base the broker was shown, or will be.
AllShown == shown \cup Telling(outbox)

LEMMA TellingAppend ==
  ASSUME NEW s \in Seq(Message), NEW m \in Message, NEW x \in Telling(Append(s, m))
  PROVE  x \in Telling(s) \/ (m.kind = "tx" /\ x = m.session /\ x.base # Unreadable)
<1>1. Range(Append(s, m)) = Range(s) \cup {m}
  BY RangeOfAppend
<1> QED
  BY <1>1 DEF Telling

LEMMA ShownStep ==
  ASSUME TypeOK, [Next]_vars, NEW x \in AllShown'
  PROVE  \/ x \in AllShown
         \/ /\ Connect \/ TxReport \/ StartPower
            /\ x = session /\ x.base # Unreadable
<1>f. /\ outbox \in Seq(Message) /\ inflight \in 0..Len(outbox) /\ Len(outbox) \in Nat
      /\ TxState(session) \in Message /\ TxState(NoSession) \in Message
      /\ \A on \in BOOLEAN : RelayState(on) \in Message
      /\ RelayState(contactor) \in Message /\ RelayState(TRUE) \in Message /\ RelayState(FALSE) \in Message
      /\ TxEnd(session, CurrentKwh, job.reason) \in Message
      /\ \A n \in Nat : MeterValue(session, n) \in Message
      /\ job.reason \in Reasons
  BY Enqueueable, LenProperties
<1>1. CASE outbox' = outbox /\ shown' = shown
  BY <1>1 DEF AllShown
<1>2. ASSUME x \notin shown PROVE x \in shown' \/ x \in Telling(outbox')
  BY DEF AllShown
<1>3. ASSUME NEW s \in Seq(Message), NEW m \in Message, m.kind # "tx", x \in Telling(Append(s, m))
      PROVE  x \in Telling(s)
  BY <1>3, TellingAppend
<1>4. CASE QuietStep
  BY <1>1, <1>4 DEF QuietStep, OutboxStill, broker
<1>5. CASE RelayReport \/ MeterReport
  <2>1. PICK m \in Message : Enqueues(m) /\ m.kind # "tx"
    BY <1>5, <1>f, Kinds DEF MeterReport, RelayReport
  <2>2. outbox' = Append(outbox, m) /\ shown' = shown
    BY <2>1 DEF Enqueues, broker
  <2> QED
    BY <1>f, <1>3, <2>1, <2>2 DEF AllShown
<1>6. CASE TxReport
  <2>1. outbox' = Append(outbox, TxState(session)) /\ shown' = shown
    BY <1>6 DEF TxReport, Enqueues, broker
  <2> QED
    BY <1>f, <1>6, <2>1, TellingAppend, Kinds DEF AllShown
<1>7. CASE Connect
  <2> DEFINE a == RelayState(contactor)
             b == TxState(session)
             q == Append(outbox, a)
  <2>1. outbox' = Append(q, b) /\ shown' = shown
    BY <1>7, Enqueued DEF Connect, broker
  <2>2. a \in Message /\ b \in Message /\ a.kind # "tx" /\ b.session = session
    BY <1>f DEF RelayState, TxState
  <2> HIDE DEF a, b
  <2>3. q \in Seq(Message)
    BY <1>f, <2>2, AppendFacts
  <2>4. x \in Telling(q) => x \in Telling(outbox)
    BY <1>f, <1>3, <2>2
  <2> HIDE DEF q
  <2>5. x \in Telling(Append(q, b)) => x \in Telling(q) \/ (x = session /\ x.base # Unreadable)
    BY <2>2, <2>3, TellingAppend
  <2> QED
    BY <1>7, <2>1, <2>4, <2>5 DEF AllShown
<1>8. CASE StartPower
  <2> DEFINE a == TxState(session)
             b == RelayState(TRUE)
             q == Append(outbox, a)
  <2>1. outbox' = Append(q, b) /\ shown' = shown
    BY <1>8, Enqueued DEF StartPower, broker
  <2>2. a \in Message /\ b \in Message /\ b.kind # "tx" /\ a.session = session
    BY <1>f DEF RelayState, TxState
  <2> HIDE DEF a, b
  <2>3. q \in Seq(Message)
    BY <1>f, <2>2, AppendFacts
  <2>4. x \in Telling(q) => x \in Telling(outbox) \/ (x = session /\ x.base # Unreadable)
    BY <1>f, <2>2, TellingAppend
  <2> HIDE DEF q
  <2>5. x \in Telling(Append(q, b)) => x \in Telling(q)
    BY <1>3, <2>2, <2>3
  <2> QED
    BY <1>8, <2>1, <2>4, <2>5 DEF AllShown
<1>9. CASE EndSession
  <2> DEFINE a == TxEnd(session, CurrentKwh, job.reason)
             b == RelayState(contactor)
             c == TxState(NoSession)
             d == RelayState(FALSE)
             p == Append(outbox, a)
             q == Append(p, b)
  <2>1. \/ outbox' = q \/ outbox' = Append(q, c) \/ outbox' = Append(q, d)
    BY <1>9, <1>f, Enqueued DEF Reasons
  <2>2. shown' = shown
    BY <1>9 DEF EndSession, broker
  <2>3. a \in Message /\ b \in Message /\ c \in Message /\ d \in Message
    BY <1>f
  <2>4. a.kind # "tx" /\ b.kind # "tx" /\ d.kind # "tx" /\ c.session.base = Unreadable
    BY DEF TxEnd, TxState, RelayState, NoSession
  <2> HIDE DEF a, b, c, d
  <2>5. p \in Seq(Message) /\ (x \in Telling(p) => x \in Telling(outbox))
    BY <1>f, <1>3, <2>3, <2>4, AppendFacts
  <2> HIDE DEF p
  <2>6. q \in Seq(Message) /\ (x \in Telling(q) => x \in Telling(p))
    BY <1>3, <2>3, <2>4, <2>5, AppendFacts
  <2> HIDE DEF q
  <2>7. x \in Telling(Append(q, c)) => x \in Telling(q)
    BY <2>3, <2>4, <2>6, TellingAppend
  <2>8. x \in Telling(Append(q, d)) => x \in Telling(q)
    BY <1>3, <2>3, <2>4, <2>6
  <2> QED
    BY <2>1, <2>2, <2>5, <2>6, <2>7, <2>8 DEF AllShown
<1>10. CASE PowerLoss
  <2>1. shown' = shown /\ Range(outbox') = {}
    BY <1>10 DEF PowerLoss, broker, Range
  <2> QED
    BY <2>1 DEF AllShown, Telling
<1>11. CASE Disconnect
  BY <1>1, <1>11 DEF Disconnect, broker
<1>12. CASE Transmit
  <2> DEFINE m == outbox[inflight + 1]
  <2>1. /\ outbox' = outbox /\ inflight < Len(outbox)
        /\ shown' = IF m.kind = "tx" /\ m.session.base # Unreadable
                      THEN shown \cup {m.session} ELSE shown
    BY <1>12 DEF Transmit
  <2>2. m \in Range(outbox)
    BY <1>f, <2>1 DEF Range
  <2> QED
    BY <2>1, <2>2 DEF AllShown, Telling
<1>13. CASE Acknowledge
  <2>1. outbox' = Tail(outbox) /\ shown' = shown /\ outbox # <<>>
    BY <1>13, <1>f, EmptySeq DEF Acknowledge, broker
  <2>2. Range(Tail(outbox)) \subseteq Range(outbox)
    BY <1>f, <2>1, RangeOfTail
  <2> QED
    BY <2>1, <2>2 DEF AllShown, Telling
<1> QED
  BY <1>4, <1>5, <1>6, <1>7, <1>8, <1>9, <1>10, <1>11, <1>12, <1>13, Steps DEF Network

\* A base shown for a session is the one it has wherever it still is: in memory,
\* in flash, and in its end.
BaseInv ==
  \A s \in AllShown :
    /\ s.base # Unreadable
    /\ s.run <= lastRun
    /\ Active(session) /\ session.run = s.run => session.base = s.base
    /\ Active(nvsSession) /\ nvsSession.run = s.run => nvsSession.base = s.base
    /\ \A e \in AllEnds : e.session.run = s.run => e.session.base = s.base

LEMMA SessionsOfEnds ==
  ASSUME TypeOK, [Next]_vars, NEW e \in AllEnds'
  PROVE  e \in AllEnds \/ (EndSession /\ e.session = session)
<1>1. CASE EndSession
  BY <1>1, EndSessionEnds, Kinds
<1>2. CASE ~EndSession
  BY <1>2, OtherEnds
<1> QED
  BY <1>1, <1>2

LEMMA ShownTyped == TypeOK => AllShown \subseteq Session
<1> SUFFICES ASSUME TypeOK PROVE AllShown \subseteq Session
  OBVIOUS
<1>1. \A m \in Range(outbox) : m \in Message
  BY RangeEquality, ElementOfSeq DEF TypeOK
<1>2. \A m \in Range(outbox) : m.kind = "tx" => m.session \in Session
  BY <1>1, MessageKinds
<1> QED
  BY <1>2 DEF AllShown, Telling, TypeOK

LEMMA BaseStep ==
  ASSUME TypeOK, PcInv, RunInv, FlashInv, EndsInv, ~NvsMayFail, BaseInv, [Next]_vars
  PROVE  BaseInv'
<1>w. \A new, old : Written(new, old) = {new}
  BY DEF Written
<1>n. lastRun \in Nat /\ lastRun' \in Nat /\ lastRun <= lastRun'
  <2>1. lastRun' = lastRun \/ StartId
    BY Steps DEF QuietStep, SessionInit, BootRelay, NetworkFound, EndContactor, StartBase,
      NoteReading,
       RelayReport, MeterReport, TxReport, Enqueues, EndSession, StartPower, PowerLoss,
       Network, Connect, Disconnect, Transmit, Acknowledge, vars
  <2> QED
    BY <2>1 DEF StartId, TypeOK
<1> SUFFICES ASSUME NEW x \in AllShown'
             PROVE  /\ x.base # Unreadable
                    /\ x.run <= lastRun'
                    /\ Active(session') /\ session'.run = x.run => session'.base = x.base
                    /\ Active(nvsSession') /\ nvsSession'.run = x.run => nvsSession'.base = x.base
                    /\ \A e \in AllEnds' : e.session.run = x.run => e.session.base = x.base
  BY DEF BaseInv
<1>r. x.run \in Nat
  <2>1. AllShown' \subseteq Session
    <3>1. TypeOK'
      BY TypeNext
    <3>2. (AllShown \subseteq Session)'
      BY <3>1, ShownTyped, PTL
    <3> QED
      BY <3>2
  <2> QED
    BY <2>1 DEF Session
<1>1. CASE x \notin AllShown
  <2>1. /\ Connect \/ TxReport \/ StartPower
        /\ x = session /\ x.base # Unreadable
    BY <1>1, ShownStep
  <2>2. session' = session /\ nvsSession' = nvsSession /\ lastRun' = lastRun
    BY <2>1 DEF Connect, TxReport, StartPower, Enqueues, device, flash
  <2>3. phase = "run" /\ pc \in {"idle", "start_power"}
    BY <2>1 DEF Connect, TxReport, StartPower, Enqueues, Ready, PcInv
  <2>4. Active(session)
    BY <2>1 DEF RunInv, NoSession
  <2>5. nvsSession = session
    BY <2>3, <2>4 DEF FlashInv
  <2>6. ~EndSession
    BY <2>3 DEF EndSession
  <2>7. \A e \in AllEnds' : e.session.run # x.run
    BY <2>1, <2>4, <2>6, SessionsOfEnds DEF EndsInv
  <2>8. x.run <= lastRun'
    BY <1>n, <2>1, <2>2, <2>4 DEF RunInv
  <2> QED
    BY <2>1, <2>2, <2>5, <2>7, <2>8
<1>2. CASE x \in AllShown
  <2>1. /\ x.base # Unreadable
        /\ x.run <= lastRun
        /\ Active(session) /\ session.run = x.run => session.base = x.base
        /\ Active(nvsSession) /\ nvsSession.run = x.run => nvsSession.base = x.base
        /\ \A e \in AllEnds : e.session.run = x.run => e.session.base = x.base
    BY <1>2 DEF BaseInv
  <2>2. x.run <= lastRun'
    BY <1>n, <1>r, <2>1
  <2>3. ASSUME NEW e \in AllEnds', e.session.run = x.run PROVE e.session.base = x.base
    <3>1. e \in AllEnds \/ (EndSession /\ e.session = session)
      BY SessionsOfEnds
    <3>2. EndSession => Active(session)
      BY DEF EndSession, PcInv
    <3> QED
      BY <2>1, <2>3, <3>1, <3>2
  <2> DEFINE Keeps(s) == Active(s) /\ s.run = x.run => s.base = x.base
  <2>4. Keeps(session') /\ Keeps(nvsSession')
    <3>0. Keeps(session) /\ Keeps(nvsSession) /\ Keeps(NoSession)
      BY <2>1 DEF Active, NoSession
    <3>1. CASE session' = session /\ nvsSession' = nvsSession
      BY <3>0, <3>1
    <3>2. CASE SessionInit \/ PowerLoss
      <4>1. session' = NoSession \/ session' = nvsSession
        BY <3>2 DEF SessionInit, PowerLoss, Restored
      <4>2. nvsSession' = nvsSession
        BY <3>2 DEF SessionInit, PowerLoss, flash
      <4> HIDE DEF Keeps
      <4> QED
        BY <3>0, <4>1, <4>2
    <3>3. CASE EndSession
      <4>1. session' = NoSession /\ nvsSession' = NoSession
        BY <3>3, <1>w DEF EndSession
      <4> HIDE DEF Keeps
      <4> QED
        BY <3>0, <4>1
    <3>4. CASE StartId
      <4>1. session'.run = lastRun + 1 /\ nvsSession' = WithId(nvsSession, session')
        BY <3>4, <1>w DEF StartId
      <4>2. nvsSession'.run = lastRun + 1
        BY <4>1 DEF WithId, TypeOK, Session
      <4> QED
        BY <1>n, <1>r, <2>1, <4>1, <4>2
    <3>5. CASE StartBase
      <4>1. session' = session /\ nvsSession' = WithBase(nvsSession, session)
        BY <3>5, <1>w DEF StartBase
      <4>2. nvsSession'.run = nvsSession.run /\ nvsSession'.base = session.base
        BY <4>1 DEF WithBase, TypeOK, Session
      <4>3. nvsSession.run = session.run /\ Active(session)
        BY <3>5 DEF StartBase, FlashInv, PcInv
      <4> QED
        BY <3>0, <4>1, <4>2, <4>3
    <3>6. ASSUME NEW k \in MaybeKwh, NoteReading(k), ~(session' = session /\ nvsSession' = nvsSession)
          PROVE  Keeps(session') /\ Keeps(nvsSession')
      <4>1. /\ Active(session) /\ session.base = Unreadable
            /\ session' = [session EXCEPT !.base = k]
            /\ nvsSession' = WithBase(WithId(nvsSession, session), session')
        BY <3>6, <1>w DEF NoteReading
      <4>2. session'.run = session.run /\ nvsSession'.run = session.run
        BY <4>1 DEF WithBase, WithId, TypeOK, Session
      <4>3. session.run # x.run
        BY <2>1, <4>1
      <4> QED
        BY <4>2, <4>3
    <3>7. CASE RelayReport \/ MeterReport \/ TxReport
      BY <3>1, <3>7 DEF RelayReport, MeterReport, TxReport, Enqueues
    <3>8. CASE StartPower \/ Network \/ BootRelay \/ NetworkFound \/ EndContactor \/ UNCHANGED vars
      BY <3>1, <3>8 DEF StartPower, Network, Connect, Disconnect, Transmit, Acknowledge,
                        BootRelay, NetworkFound, EndContactor, vars, device, flash
    <3> QED
      BY <3>1, <3>2, <3>3, <3>4, <3>5, <3>6, <3>7, <3>8, Steps DEF QuietStep
  <2> QED
    BY <2>1, <2>2, <2>3, <2>4
<1> QED
  BY <1>1, <1>2

\* A base the broker ever saw of a session is the one its end bills from: what the
\* session starts with, or first reads, is stored before it is told of, so that
\* not even a power cut between the announcement and the end changes it.
THEOREM BaseIsBilled == Spec => []AnnouncedBaseIsBilled
<1>1. Init => (~NvsMayFail => BaseInv)
  BY DEF Init, BaseInv, AllShown, Telling, Range
<1>2. IInv /\ (~NvsMayFail => BaseInv) /\ [Next]_vars => (~NvsMayFail => BaseInv)'
  BY BaseStep DEF IInv
<1>3. (~NvsMayFail => BaseInv) => AnnouncedBaseIsBilled
  <2>1. shown \subseteq AllShown /\ ends \subseteq AllEnds
    BY DEF AllShown, AllEnds
  <2> QED
    BY <2>1 DEF BaseInv, AnnouncedBaseIsBilled
<1> QED
  BY <1>1, <1>2, <1>3, InvariantHolds, PTL DEF Spec

(***************************************************************************)
(* The Wi-Fi network: the stored credentials are those that connected last. *)
(***************************************************************************)

WifiTypes ==
  /\ WifiTypeOK
  /\ fallbackActive \in BOOLEAN /\ gotNewCreds \in BOOLEAN
  /\ reconnectTimer \in BOOLEAN /\ windowTimer \in BOOLEAN
  /\ linked \in BOOLEAN /\ clientConnected \in BOOLEAN /\ late \in BOOLEAN
  /\ refused \in BOOLEAN

Reported(event) == \E i \in DOMAIN loop : loop[i] = event

\* Until the copy is put back; from its second step on the manager is off.
Closing == supervisor \in {"close", "closed", "restore"}

Closed == supervisor \in {"closed", "restore", "connect", "countdown"}

\* No success after an end, and neither an end nor a failure twice.
ReportsInOrder ==
  \A i \in DOMAIN loop, j \in DOMAIN loop :
    /\ loop[i] = "end" /\ loop[j] \in {"success", "end"} => j <= i
    /\ loop[i] = "fail" /\ loop[j] = "fail" => i = j

\* What the manager reports is how it is, unless it was stopped meanwhile; it ends when
\* it has succeeded.
ReportsInv ==
  /\ Closed => manager = "off"
  /\ supervisor # "closed" =>
       /\ Reported("fail") => manager = "failed"
       /\ Reported("success") => manager \in {"success", "stopped"}
       /\ Reported("end") => manager = "stopped"
  /\ ReportsInOrder

\* The configuration: that of the last success, if the manager is off, or is about to be
\* after a success that was handled.
ConfigInv ==
  /\ manager = "off" /\ ~Closing =>
       accepted # Blank /\ (~refused => config = accepted)
  /\ manager \in {"success", "stopped"} =>
       config # Blank
         /\ (~Closing /\ ~Reported("success") => config = accepted)

\* The copy: that, too, while a window is open that has no success, and until one that
\* is being closed is closed.
BackupInv ==
  /\ fallbackActive => supervisor \in {"wait", "close", "closed"}
  /\ (fallbackActive \/ supervisor = "opened") /\ ~gotNewCreds =>
       accepted # Blank /\ (~refused => backup = accepted)
  /\ Closing => accepted # Blank /\ (~refused => backup = accepted)

WifiInv == WifiTypes /\ ReportsInv /\ ConfigInv /\ BackupInv

----------------------------------------------------------------------------
(* What waits in the event loop                                             *)

Reports == {"fail", "success", "end"}

LEMMA PostFacts ==
  ASSUME WifiTypes, NEW q \in Seq(Events), Post(q)
  PROVE  /\ loop' \in Seq(Events)
         /\ \A e : Reported(e)' <=> Reported(e) \/ \E i \in DOMAIN q : q[i] = e
         /\ \A i \in DOMAIN loop' :
              \/ i \in DOMAIN loop /\ loop'[i] = loop[i]
              \/ /\ i - Len(loop) \in DOMAIN q /\ loop'[i] = q[i - Len(loop)]
                 /\ \A j \in DOMAIN loop : j < i
         /\ Len(loop) \in Nat /\ DOMAIN loop \subseteq Int /\ DOMAIN loop' \subseteq Int
<1>1. /\ loop \in Seq(Events) /\ loop' = loop \o q /\ loop' \in Seq(Events)
      /\ Len(loop) \in Nat /\ Len(q) \in Nat
      /\ DOMAIN loop = 1..Len(loop) /\ DOMAIN q = 1..Len(q)
      /\ DOMAIN loop' = 1..(Len(loop) + Len(q))
      /\ \A i \in 1..Len(loop) : loop'[i] = loop[i]
      /\ \A i \in 1..Len(q) : loop'[Len(loop) + i] = q[i]
  BY DEF WifiTypes, WifiTypeOK, Post
<1>2. ASSUME NEW i \in DOMAIN loop', i \notin DOMAIN loop
      PROVE  i - Len(loop) \in DOMAIN q /\ loop'[i] = q[i - Len(loop)]
  <2>1. i - Len(loop) \in 1..Len(q) /\ i = Len(loop) + (i - Len(loop))
    BY <1>1, <1>2
  <2> QED
    BY <1>1, <2>1
<1>3. \A i \in DOMAIN loop : i \in DOMAIN loop' /\ loop'[i] = loop[i]
  BY <1>1
<1>4. \A i \in DOMAIN q : Len(loop) + i \in DOMAIN loop' /\ loop'[Len(loop) + i] = q[i]
  BY <1>1
<1>5. ASSUME NEW e PROVE Reported(e)' <=> Reported(e) \/ \E i \in DOMAIN q : q[i] = e
  BY <1>2, <1>3, <1>4 DEF Reported
<1>6. ASSUME NEW i \in DOMAIN loop', i \notin DOMAIN loop, NEW j \in DOMAIN loop PROVE j < i
  BY <1>1, <1>6
<1>7. DOMAIN loop \subseteq Int /\ DOMAIN loop' \subseteq Int
  BY <1>1
<1> QED
  BY <1>1, <1>2, <1>3, <1>5, <1>6, <1>7

\* Nothing the manager reports.
LEMMA PostQuiet ==
  ASSUME WifiTypes, ReportsInOrder, NEW q \in Seq(Events), Post(q),
         \A i \in DOMAIN q : q[i] \notin Reports
  PROVE  /\ loop' \in Seq(Events) /\ ReportsInOrder'
         /\ \A e \in Reports : Reported(e)' <=> Reported(e)
<1>1. loop' \in Seq(Events) /\ \A e \in Reports : Reported(e)' <=> Reported(e)
  BY PostFacts
<1>2. \A i \in DOMAIN loop' : loop'[i] \in Reports => i \in DOMAIN loop /\ loop'[i] = loop[i]
  BY PostFacts
<1>3. ReportsInOrder'
  BY <1>2 DEF ReportsInOrder, Reports
<1> QED
  BY <1>1, <1>3

\* A report that is the last of its kind.
Ends(q, e) == Len(q) \in {1, 2} /\ q[Len(q)] = e /\ (Len(q) = 2 => q[1] \notin Reports)

LEMMA PostReport ==
  ASSUME WifiTypes, ReportsInOrder, NEW e \in Reports, NEW q \in Seq(Events), Post(q),
         Ends(q, e), ~Reported("end"), e = "fail" => ~Reported("fail")
  PROVE  /\ loop' \in Seq(Events) /\ ReportsInOrder' /\ Reported(e)'
         /\ \A x \in Reports : x # e => (Reported(x)' <=> Reported(x))
<1>1. /\ loop' \in Seq(Events) /\ Reported(e)'
      /\ \A x \in Reports : x # e => (Reported(x)' <=> Reported(x))
  <2>1. /\ Len(q) \in DOMAIN q /\ q[Len(q)] = e
        /\ \A i \in DOMAIN q : q[i] = e \/ q[i] \notin Reports
    BY DEF Ends
  <2> QED
    BY <2>1, PostFacts
<1>2. PICK n \in Int : /\ \A i \in DOMAIN loop' : loop'[i] \in Reports =>
                            \/ i = n /\ loop'[i] = e
                            \/ i \in DOMAIN loop /\ loop'[i] = loop[i]
                       /\ \A j \in DOMAIN loop : j < n
  <2> DEFINE n == Len(loop) + Len(q)
  <2>1. /\ n \in Int /\ \A i \in DOMAIN loop : i < n
        /\ Len(loop) \in Nat /\ Len(q) \in {1, 2} /\ DOMAIN loop' \subseteq Int
        /\ DOMAIN q = 1..Len(q) /\ q[Len(q)] = e
        /\ Len(q) = 2 => q[1] \notin Reports
    <3>1. /\ Len(q) \in {1, 2} /\ DOMAIN q = 1..Len(q) /\ q[Len(q)] = e
          /\ Len(q) = 2 => q[1] \notin Reports
      BY DEF Ends
    <3>2. loop \in Seq(Events) /\ Len(loop) \in Nat /\ DOMAIN loop = 1..Len(loop)
      BY DEF WifiTypes, WifiTypeOK
    <3>3. DOMAIN loop' \subseteq Int
      BY PostFacts
    <3> QED
      BY <3>1, <3>2, <3>3
  <2>2. ASSUME NEW i \in DOMAIN loop', loop'[i] \in Reports, i \notin DOMAIN loop
        PROVE  i = n /\ loop'[i] = e
    <3>1. i - Len(loop) \in DOMAIN q /\ loop'[i] = q[i - Len(loop)]
      BY <2>2, PostFacts
    <3>2. i - Len(loop) = Len(q) /\ q[Len(q)] = e
      BY <2>1, <2>2, <3>1
    <3> QED
      BY <2>1, <2>2, <3>1, <3>2
  <2>3. \A i \in DOMAIN loop' : i \in DOMAIN loop => loop'[i] = loop[i]
    BY DEF WifiTypes, WifiTypeOK, Post
  <2> HIDE DEF n
  <2> QED
    BY <2>1, <2>2, <2>3
<1>3. DOMAIN loop' \subseteq Int
  BY PostFacts
<1>4. ASSUME NEW i \in DOMAIN loop', NEW j \in DOMAIN loop'
      PROVE  /\ loop'[i] = "end" /\ loop'[j] \in {"success", "end"} => j <= i
             /\ loop'[i] = "fail" /\ loop'[j] = "fail" => i = j
  <2>1. ASSUME loop'[i] = "end", loop'[j] \in {"success", "end"} PROVE j <= i
    <3>1. i = n
      BY <1>2, <2>1 DEF Reported, Reports
    <3>2. j = n \/ j \in DOMAIN loop
      BY <1>2, <2>1 DEF Reports
    <3> QED
      BY <1>2, <1>3, <3>1, <3>2
  <2>2. ASSUME loop'[i] = "fail", loop'[j] = "fail" PROVE i = j
    <3>1. CASE e = "fail"
      BY <1>2, <2>2, <3>1 DEF Reported, Reports
    <3>2. CASE e # "fail"
      BY <1>2, <2>2, <3>2 DEF ReportsInOrder, Reports
    <3> QED
      BY <3>1, <3>2
  <2> QED
    BY <2>1, <2>2
<1> QED
  BY <1>1, <1>4 DEF ReportsInOrder

LEMMA EndIsLast ==
  ASSUME WifiTypes, ReportsInOrder, Handle("end")
  PROVE  ~Reported("success")
<1>1. 1 \in DOMAIN loop /\ loop[1] = "end" /\ \A i \in DOMAIN loop : i <= 1 => i = 1
  BY DEF WifiTypes, WifiTypeOK, Handle
<1> QED
  BY <1>1 DEF ReportsInOrder, Reported

LEMMA HandleFacts ==
  ASSUME WifiTypes, ReportsInOrder, NEW e, Handle(e)
  PROVE  /\ loop' \in Seq(Events) /\ ReportsInOrder' /\ Reported(e)
         /\ \A x : (Reported(x)' => Reported(x)) /\ (x # e => (Reported(x)' <=> Reported(x)))
         /\ e = "end" => ~Reported("success")' /\ ~Reported("end")'
         /\ e = "fail" => ~Reported("fail")'
<1>1. /\ loop \in Seq(Events) /\ loop # <<>> /\ loop[1] = e
      /\ loop' \in Seq(Events) /\ Len(loop) \in Nat /\ Len(loop) > 0
      /\ DOMAIN loop = 1..Len(loop) /\ DOMAIN loop' = 1..(Len(loop) - 1)
      /\ \A i \in 1..(Len(loop) - 1) : loop'[i] = loop[i + 1]
  BY DEF WifiTypes, WifiTypeOK, Handle
<1>2. \A i \in DOMAIN loop' : i + 1 \in DOMAIN loop /\ loop'[i] = loop[i + 1] /\ i \in Int /\ i > 0
  BY <1>1
<1>3. \A i \in DOMAIN loop : i # 1 => i - 1 \in DOMAIN loop' /\ loop'[i - 1] = loop[i]
  BY <1>1
<1>4. 1 \in DOMAIN loop
  BY <1>1
<1>5. Reported(e)
  BY <1>1, <1>4 DEF Reported
<1>6. \A x : (Reported(x)' => Reported(x)) /\ (x # e => (Reported(x)' <=> Reported(x)))
  BY <1>1, <1>2, <1>3 DEF Reported
<1>7. ReportsInOrder'
  <2> SUFFICES ASSUME NEW i \in DOMAIN loop', NEW j \in DOMAIN loop'
               PROVE  /\ loop'[i] = "end" /\ loop'[j] \in {"success", "end"} => j <= i
                      /\ loop'[i] = "fail" /\ loop'[j] = "fail" => i = j
    BY DEF ReportsInOrder
  <2>1. /\ i + 1 \in DOMAIN loop /\ loop'[i] = loop[i + 1] /\ i \in Int
        /\ j + 1 \in DOMAIN loop /\ loop'[j] = loop[j + 1] /\ j \in Int
    BY <1>2
  <2>2. /\ loop'[i] = "end" /\ loop'[j] \in {"success", "end"} => j + 1 <= i + 1
        /\ loop'[i] = "fail" /\ loop'[j] = "fail" => i + 1 = j + 1
    BY <2>1 DEF ReportsInOrder
  <2> QED
    BY <2>1, <2>2
<1>8. ASSUME e = "end", NEW i \in DOMAIN loop' PROVE loop'[i] \notin {"success", "end"}
  <2>1. i + 1 \in DOMAIN loop /\ loop'[i] = loop[i + 1] /\ i \in Int /\ i > 0
    BY <1>2
  <2>2. loop[i + 1] \in {"success", "end"} => i + 1 <= 1
    BY <1>1, <1>4, <1>8, <2>1 DEF ReportsInOrder
  <2> QED
    BY <2>1, <2>2
<1>9. ASSUME e = "fail", NEW i \in DOMAIN loop' PROVE loop'[i] # "fail"
  <2>1. i + 1 \in DOMAIN loop /\ loop'[i] = loop[i + 1] /\ i \in Int /\ i > 0
    BY <1>2
  <2>2. loop[i + 1] = "fail" => i + 1 = 1
    BY <1>1, <1>4, <1>9, <2>1 DEF ReportsInOrder
  <2> QED
    BY <2>1, <2>2
<1>10. e = "end" => ~Reported("success")' /\ ~Reported("end")'
  BY <1>8 DEF Reported
<1>11. e = "fail" => ~Reported("fail")'
  BY <1>9 DEF Reported
<1> QED
  BY <1>1, <1>5, <1>6, <1>7, <1>10, <1>11

----------------------------------------------------------------------------
(* The invariant, step by step                                              *)

LEMMA WifiInitHolds == WifiInit => WifiInv
<1> SUFFICES ASSUME WifiInit PROVE WifiInv
  OBVIOUS
<1>1. loop = <<>> /\ loop \in Seq(Events) /\ DOMAIN loop = {}
  BY DEF WifiInit
<1>2. WifiTypes
  BY <1>1 DEF WifiInit, WifiTypes, WifiTypeOK, Config, Connected, ManagerStates
<1>3. ReportsInOrder /\ \A e : ~Reported(e)
  BY <1>1 DEF ReportsInOrder, Reported
<1>4. ReportsInv
  BY <1>3 DEF ReportsInv, Closed, WifiInit
<1>5. ConfigInv /\ BackupInv
  BY DEF WifiInit, ConfigInv, BackupInv, Closing
<1> QED
  BY <1>2, <1>4, <1>5 DEF WifiInv

\* Steps after which the same is reported.
LEMMA SameReports ==
  ASSUME WifiInv, \A e \in Reports : Reported(e)' <=> Reported(e), ReportsInOrder'
  PROVE  /\ UNCHANGED <<manager, supervisor>> => ReportsInv'
         /\ UNCHANGED <<manager, supervisor, config, accepted, refused>> => ConfigInv'
BY DEF WifiInv, ReportsInv, ConfigInv, Closing, Closed, Reports

LEMMA SameLoop ==
  ASSUME WifiInv, UNCHANGED loop
  PROVE  ReportsInOrder' /\ \A e : Reported(e)' <=> Reported(e)
BY DEF WifiInv, ReportsInv, ReportsInOrder, Reported

LEMMA DriverStep ==
  ASSUME WifiInv, Driver \/ NetworkLost
  PROVE  WifiInv'
<1>1. /\ "got_ip" \in Events \ Reports /\ "disconnected" \in Events \ Reports
      /\ {"success", "fail"} \subseteq Events \cap Reports
  BY DEF Events, Reports
<1>2. WifiTypes /\ ReportsInOrder
  BY DEF WifiInv, ReportsInv
<1>3. UNCHANGED <<config, linked, clientConnected, bits, reconnectTimer, windowTimer, supervisor,
                  fallbackActive, gotNewCreds, backup, accepted, late, refused>>
  BY DEF Driver, AttemptEnds, NetworkLost, bluetooth, timers, flags, history
<1>4. BackupInv'
  BY <1>3 DEF WifiInv, BackupInv, Closing
<1>5. ASSUME NEW q \in Seq(Events), Post(q), \A i \in DOMAIN q : q[i] \notin Reports,
             UNCHANGED manager, station' \in {"off", "up"}
      PROVE  WifiInv'
  <2>1. /\ loop' \in Seq(Events) /\ ReportsInOrder'
        /\ \A x \in Reports : Reported(x)' <=> Reported(x)
    BY <1>2, <1>5, PostQuiet
  <2>2. ReportsInv' /\ ConfigInv'
    BY <1>3, <1>5, <2>1, SameReports
  <2>3. WifiTypes'
    BY <1>2, <1>3, <1>5, <2>1 DEF WifiTypes, WifiTypeOK
  <2> QED
    BY <1>4, <2>2, <2>3 DEF WifiInv
<1>6. ASSUME NEW e \in {"success", "fail"}, NEW q \in Seq(Events), Post(q), Ends(q, e),
             manager = "received", manager' = IF e = "success" THEN "success" ELSE "failed",
             e = "success" => config # Blank, station' \in {"off", "up"}
      PROVE  WifiInv'
  <2>1. ~Reported("end") /\ ~Reported("fail") /\ ~Reported("success") /\ ~Closed
    BY <1>6 DEF WifiInv, ReportsInv, Closed
  <2>2. /\ loop' \in Seq(Events) /\ ReportsInOrder' /\ Reported(e)'
        /\ \A x \in Reports : x # e => (Reported(x)' <=> Reported(x))
    BY <1>1, <1>2, <1>6, <2>1, PostReport
  <2>3. WifiTypes'
    BY <1>2, <1>3, <1>6, <2>2 DEF WifiTypes, WifiTypeOK, ManagerStates
  <2>4. ReportsInv'
    BY <1>3, <1>6, <2>1, <2>2 DEF ReportsInv, Closed, Reports
  <2>5. ConfigInv'
    BY <1>3, <1>6, <2>2 DEF ConfigInv
  <2> QED
    BY <1>4, <2>3, <2>4, <2>5 DEF WifiInv
<1>7. CASE NetworkLost
  <2> DEFINE q == <<"disconnected">>
  <2>1. q \in Seq(Events) /\ \A i \in DOMAIN q : q[i] \notin Reports
    BY <1>1
  <2>2. Post(q) /\ UNCHANGED manager /\ station' \in {"off", "up"}
    BY <1>7 DEF NetworkLost
  <2> QED
    BY <1>5, <2>1, <2>2
<1>8. CASE Driver
  <2>1. PICK succeeds \in BOOLEAN : AttemptEnds(succeeds)
    BY <1>8 DEF Driver
  <2>2. ASSUME NEW a \in {"got_ip", "disconnected"}, NEW e \in {"success", "fail"}
        PROVE  /\ <<a>> \o <<e>> \in Seq(Events) /\ Ends(<<a>> \o <<e>>, e)
               /\ <<a>> \o <<>> \in Seq(Events)
               /\ \A i \in DOMAIN (<<a>> \o <<>>) : (<<a>> \o <<>>)[i] \notin Reports
    <3>1. a \in Events \ Reports /\ e \in Events
      BY <1>1
    <3> QED
      BY <3>1 DEF Ends
  <2>3. CASE manager = "received" /\ succeeds /\ config # Blank
    <3>1. Post(<<"got_ip">> \o <<"success">>) /\ manager' = "success" /\ station' = "up"
      BY <2>1, <2>3 DEF AttemptEnds
    <3> QED
      BY <1>6, <2>2, <2>3, <3>1
  <2>4. CASE manager = "received" /\ ~(succeeds /\ config # Blank)
    <3>1. Post(<<"disconnected">> \o <<"fail">>) /\ manager' = "failed" /\ station' = "off"
      BY <2>1, <2>4 DEF AttemptEnds
    <3> QED
      BY <1>6, <2>2, <2>4, <3>1
  <2>5. CASE manager # "received"
    <3>1. PICK a \in {"got_ip", "disconnected"} :
            /\ Post(<<a>> \o <<>>) /\ manager' = manager
            /\ station' \in {"off", "up"}
      BY <2>1, <2>5 DEF AttemptEnds
    <3> QED
      BY <1>5, <2>2, <3>1
  <2> QED
    BY <2>3, <2>4, <2>5
<1> QED
  BY <1>7, <1>8

LEMMA ClientStep ==
  ASSUME WifiInv, Client
  PROVE  WifiInv'
<1>1. WifiTypes /\ ReportsInOrder
  BY DEF WifiInv, ReportsInv
<1>2. UNCHANGED <<clientConnected, bits, reconnectTimer, windowTimer, supervisor,
                  fallbackActive, gotNewCreds, backup, accepted, late, refused>>
  BY DEF Client, ClientComes, ClientGoes, ClientSends, bluetooth, timers, flags, history
<1>3. BackupInv'
  BY <1>2 DEF WifiInv, BackupInv, Closing
<1>4. CASE ClientComes \/ ClientGoes
  <2>1. PICK e \in {"ble_on", "ble_off"} : Post(<<e>>)
    BY <1>4 DEF ClientComes, ClientGoes
  <2>2. <<e>> \in Seq(Events) /\ \A i \in DOMAIN <<e>> : <<e>>[i] \notin Reports
    BY DEF Events, Reports
  <2>3. /\ loop' \in Seq(Events) /\ ReportsInOrder'
        /\ \A x \in Reports : Reported(x)' <=> Reported(x)
    BY <1>1, <2>1, <2>2, PostQuiet
  <2>4. UNCHANGED <<config, station, manager>> /\ linked' \in BOOLEAN
    BY <1>4 DEF ClientComes, ClientGoes, wifi
  <2>5. ReportsInv' /\ ConfigInv'
    BY <1>2, <2>3, <2>4, SameReports
  <2>6. WifiTypes'
    BY <1>1, <1>2, <2>3, <2>4 DEF WifiTypes, WifiTypeOK
  <2> QED
    BY <1>3, <2>5, <2>6 DEF WifiInv
<1>5. CASE \E n \in Credentials : ClientSends(n)
  <2>1. PICK n \in Credentials : ClientSends(n)
    BY <1>5
  <2>2. /\ manager = "waiting" /\ manager' = "received" /\ config' = n
        /\ UNCHANGED <<loop, linked>> /\ station' = Connected(station, n)
    BY <2>1 DEF ClientSends, bluetooth
  <2>3. ReportsInOrder' /\ \A e : Reported(e)' <=> Reported(e)
    BY <2>2, SameLoop
  <2>4. ReportsInv' /\ ConfigInv'
    BY <1>2, <2>2, <2>3 DEF WifiInv, ReportsInv, Closed, ConfigInv
  <2>5. WifiTypes'
    BY <1>1, <1>2, <2>2 DEF WifiTypes, WifiTypeOK, ManagerStates, Config, Connected
  <2> QED
    BY <1>3, <2>4, <2>5 DEF WifiInv
<1> QED
  BY <1>4, <1>5 DEF Client

LEMMA ManagerStopsStep ==
  ASSUME WifiInv, ManagerStops
  PROVE  WifiInv'
<1>1. WifiTypes /\ ReportsInOrder
  BY DEF WifiInv, ReportsInv
<1>2. /\ manager = "success" /\ manager' = "stopped" /\ linked' = FALSE
      /\ UNCHANGED <<config, station, clientConnected, bits, reconnectTimer, windowTimer,
                     supervisor, fallbackActive, gotNewCreds, backup, accepted, late, refused>>
  BY DEF ManagerStops, wifi, timers, flags, history
<1>3. ~Reported("end") /\ ~Reported("fail") /\ ~Closed
  BY <1>2 DEF WifiInv, ReportsInv, Closed
<1>4. PICK q \in Seq(Events) : Post(q) /\ Ends(q, "end")
  <2>1. "ble_off" \in Events \ Reports /\ "end" \in Events
    BY DEF Events, Reports
  <2>2. CASE linked
    <3> DEFINE q == <<"ble_off">> \o <<"end">>
    <3>1. q \in Seq(Events) /\ Ends(q, "end")
      BY <2>1 DEF Ends
    <3>2. Post(q)
      BY <2>2 DEF ManagerStops
    <3> QED
      BY <3>1, <3>2
  <2>3. CASE ~linked
    <3> DEFINE q == <<>> \o <<"end">>
    <3>1. q \in Seq(Events) /\ Ends(q, "end")
      BY <2>1 DEF Ends
    <3>2. Post(q)
      BY <2>3 DEF ManagerStops
    <3> QED
      BY <3>1, <3>2
  <2> QED
    BY <2>2, <2>3
<1>5. "end" \in Reports
  BY DEF Reports
<1>6. /\ loop' \in Seq(Events) /\ ReportsInOrder' /\ Reported("end")'
      /\ \A x \in Reports : x # "end" => (Reported(x)' <=> Reported(x))
  BY <1>1, <1>3, <1>4, <1>5, PostReport
<1>7. WifiTypes'
  BY <1>1, <1>2, <1>6 DEF WifiTypes, WifiTypeOK, ManagerStates
<1>8. ReportsInv'
  BY <1>2, <1>3, <1>6 DEF WifiInv, ReportsInv, Closed, Reports
<1>9. ConfigInv' /\ BackupInv'
  BY <1>2, <1>6 DEF WifiInv, ConfigInv, BackupInv, Closing, Reports
<1> QED
  BY <1>7, <1>8, <1>9 DEF WifiInv

LEMMA EventLoopStep ==
  ASSUME WifiInv, EventLoop
  PROVE  WifiInv'
<1>1. WifiTypes /\ ReportsInOrder
  BY DEF WifiInv, ReportsInv
<1>2. ASSUME HandleDisconnected \/ HandleGotIp \/ HandleClient
      PROVE  WifiInv'
  <2>1. PICK e : Handle(e) /\ e \notin Reports
    BY <1>2 DEF HandleDisconnected, HandleGotIp, HandleClient, Reports
  <2>2. /\ loop' \in Seq(Events) /\ ReportsInOrder'
        /\ \A x \in Reports : Reported(x)' <=> Reported(x)
    BY <1>1, <2>1, HandleFacts
  <2>3. /\ UNCHANGED <<config, manager, linked, bits, windowTimer, supervisor, fallbackActive,
                       gotNewCreds, backup, accepted, late, refused>>
        /\ station' \in {"off", "trying", "up"} /\ reconnectTimer' \in BOOLEAN
        /\ clientConnected' \in BOOLEAN
    BY <1>1, <1>2
       DEF HandleDisconnected, HandleGotIp, HandleClient, WifiTypes, WifiTypeOK, Connected, wifi, bluetooth,
           timers, flags, history
  <2>4. ReportsInv' /\ ConfigInv'
    BY <2>2, <2>3, SameReports
  <2>5. BackupInv'
    BY <2>3 DEF WifiInv, BackupInv, Closing
  <2>6. WifiTypes'
    BY <1>1, <2>2, <2>3 DEF WifiTypes, WifiTypeOK
  <2> QED
    BY <2>4, <2>5, <2>6 DEF WifiInv
<1>3. CASE HandleFail
  <2>1. /\ loop' \in Seq(Events) /\ ReportsInOrder' /\ ~Reported("fail")' /\ Reported("fail")
        /\ \A x : Reported(x)' => Reported(x)
        /\ Reported("success")' <=> Reported("success")
    BY <1>1, <1>3, HandleFacts DEF HandleFail
  <2>2. /\ manager' = manager \/ (manager = "failed" /\ manager' = "waiting")
        /\ UNCHANGED <<config, station, linked, clientConnected, bits, reconnectTimer,
                       windowTimer, supervisor, fallbackActive, gotNewCreds, backup,
                       accepted, late, refused>>
    BY <1>3 DEF HandleFail, wifi, bluetooth, timers, flags, history
  <2>3. ReportsInv'
    BY <2>1, <2>2 DEF WifiInv, ReportsInv, Closed
  <2>4. ConfigInv' /\ BackupInv'
    BY <2>1, <2>2 DEF WifiInv, ConfigInv, BackupInv, Closing
  <2>5. WifiTypes'
    BY <1>1, <2>1, <2>2 DEF WifiTypes, WifiTypeOK, ManagerStates
  <2> QED
    BY <2>3, <2>4, <2>5 DEF WifiInv
<1>4. CASE HandleSuccess
  <2>1. /\ loop' \in Seq(Events) /\ ReportsInOrder' /\ Reported("success")
        /\ \A x : Reported(x)' => Reported(x)
    BY <1>1, <1>4, HandleFacts DEF HandleSuccess
  <2>2. /\ gotNewCreds' = TRUE
        /\ \/ supervisor \in {"close", "closed"} /\ UNCHANGED <<accepted, refused>>
           \/ /\ supervisor \notin {"close", "closed"}
              /\ accepted' = config /\ refused' = FALSE
        /\ UNCHANGED <<config, station, manager, linked, clientConnected, bits, reconnectTimer,
                       windowTimer, supervisor, fallbackActive, backup, late>>
    BY <1>4 DEF HandleSuccess, wifi, bluetooth, timers
  <2>3. ReportsInv'
    BY <2>1, <2>2 DEF WifiInv, ReportsInv, Closed
  <2>4. supervisor \notin {"close", "closed"} =>
          manager \in {"success", "stopped"} /\ ~Closing
    BY <2>1 DEF WifiInv, ReportsInv, Closing, Closed
  <2>5. ConfigInv'
    BY <2>2, <2>4 DEF WifiInv, ConfigInv, Closing
  <2>6. BackupInv'
    BY <2>2, <2>4 DEF WifiInv, BackupInv, Closing
  <2>7. WifiTypes'
    BY <1>1, <2>1, <2>2 DEF WifiTypes, WifiTypeOK
  <2> QED
    BY <2>3, <2>5, <2>6, <2>7 DEF WifiInv
<1>5. CASE HandleEnd
  <2>1. /\ loop' \in Seq(Events) /\ ReportsInOrder' /\ Reported("end")
        /\ \A x : Reported(x)' => Reported(x)
        /\ ~Reported("success")' /\ ~Reported("end")'
    BY <1>1, <1>5, HandleFacts DEF HandleEnd
  <2>2. /\ manager' = "off" /\ bits' = bits \cup {"done"}
        /\ UNCHANGED <<config, station, linked, clientConnected, reconnectTimer, windowTimer,
                       supervisor, fallbackActive, gotNewCreds, backup, accepted, late, refused>>
    BY <1>5 DEF HandleEnd, wifi, bluetooth, timers, flags, history
  <2>3. supervisor # "closed" => manager = "stopped" /\ ~Reported("fail")'
    BY <2>1 DEF WifiInv, ReportsInv
  <2>4. ReportsInv'
    BY <2>1, <2>2, <2>3 DEF ReportsInv, Closed
  <2>5. ~Reported("success")
    BY <1>1, <1>5, EndIsLast DEF HandleEnd
  <2>6. ConfigInv'
    BY <2>2, <2>3, <2>5 DEF WifiInv, ConfigInv, Closing
  <2>7. BackupInv'
    BY <2>2 DEF WifiInv, BackupInv, Closing
  <2>8. WifiTypes'
    BY <1>1, <2>1, <2>2 DEF WifiTypes, WifiTypeOK, ManagerStates, Bits
  <2> QED
    BY <2>4, <2>6, <2>7, <2>8 DEF WifiInv
<1> QED
  BY <1>2, <1>3, <1>4, <1>5 DEF EventLoop

LEMMA TimerStep ==
  ASSUME WifiInv, ReconnectTimeout \/ WindowTimeout
  PROVE  WifiInv'
<1>1. /\ UNCHANGED <<config, station, manager, linked, clientConnected, loop, supervisor,
                     fallbackActive, gotNewCreds, backup, accepted, late, refused>>
      /\ bits' \in {bits \cup {"reconnect"}, bits \cup {"window"}}
      /\ reconnectTimer' \in {reconnectTimer, FALSE} /\ windowTimer' \in {windowTimer, FALSE}
  BY DEF ReconnectTimeout, WindowTimeout, wifi, bluetooth, flags, history
<1>2. ReportsInOrder' /\ \A e : Reported(e)' <=> Reported(e)
  BY <1>1, SameLoop
<1>3. ReportsInv' /\ ConfigInv'
  BY <1>1, <1>2, SameReports
<1>4. BackupInv'
  BY <1>1 DEF WifiInv, BackupInv, Closing
<1>5. bits' \subseteq Bits
  BY <1>1 DEF WifiInv, WifiTypes, WifiTypeOK, Bits
<1>6. reconnectTimer' \in BOOLEAN /\ windowTimer' \in BOOLEAN
  BY <1>1 DEF WifiInv, WifiTypes
<1>7. WifiTypes'
  <2>1. WifiTypes
    BY DEF WifiInv
  <2> QED
    BY <1>1, <1>5, <1>6, <2>1 DEF WifiTypes, WifiTypeOK
<1> QED
  BY <1>3, <1>4, <1>7 DEF WifiInv

\* The supervisor's bits decide what it does, not what is true.
LEMMA WakesStep ==
  ASSUME WifiInv, Rest \/ WindowIsDone \/ WindowIsOver
  PROVE  WifiInv'
<1>1. /\ UNCHANGED <<config, station, manager, linked, clientConnected, loop, reconnectTimer,
                     gotNewCreds, backup, accepted, refused>>
      /\ supervisor = "wait" /\ bits' = {}
  BY DEF Rest, WindowIsDone, WindowIsOver, Wakes, wifi, bluetooth
<1>2. ReportsInOrder' /\ \A e : Reported(e)' <=> Reported(e)
  BY <1>1, SameLoop
<1>3. /\ Rest => /\ ~fallbackActive /\ supervisor' \in {"open", "wait"}
                 /\ UNCHANGED <<windowTimer, fallbackActive, late>>
      /\ WindowIsDone => /\ supervisor' = "wait" /\ fallbackActive' = FALSE
                         /\ windowTimer' = FALSE /\ late' \in BOOLEAN
      /\ WindowIsOver =>
           /\ fallbackActive /\ UNCHANGED <<fallbackActive, late>>
           /\ windowTimer' \in BOOLEAN
           /\ supervisor' = "wait" \/ (supervisor' = "close" /\ ~gotNewCreds)
  BY <1>1 DEF Rest, WindowIsDone, WindowIsOver, WifiInv, WifiTypes, WifiTypeOK
<1>4. WifiTypes'
  BY <1>1, <1>3 DEF WifiInv, WifiTypes, WifiTypeOK
<1>5. ReportsInv'
  BY <1>1, <1>2, <1>3 DEF WifiInv, ReportsInv, Closed
<1>6. ConfigInv'
  BY <1>1, <1>2, <1>3 DEF WifiInv, ConfigInv, Closing
<1>7. BackupInv'
  BY <1>1, <1>3 DEF WifiInv, BackupInv, Closing
<1> QED
  BY <1>4, <1>5, <1>6, <1>7 DEF WifiInv

LEMMA OpenStep ==
  ASSUME WifiInv, OpenWindow \/ OpenFails \/ WindowOpened
  PROVE  WifiInv'
<1>1. WifiTypes /\ ReportsInOrder
  BY DEF WifiInv, ReportsInv
<1>2. CASE OpenWindow
  <2>1. /\ supervisor = "open" /\ manager = "off"
        /\ backup' = config /\ gotNewCreds' = FALSE /\ manager' = "waiting"
        /\ config' = Blank /\ station' = "off" /\ supervisor' = "opened"
        /\ UNCHANGED <<linked, clientConnected, bits, reconnectTimer, windowTimer,
                       fallbackActive, accepted, late, refused>>
    BY <1>2 DEF OpenWindow, bluetooth, timers, history
  <2>2. PICK q : Post(q) /\ q \in {<<>>, <<"disconnected">>}
    BY <1>2 DEF OpenWindow
  <2>3. q \in Seq(Events) /\ \A i \in DOMAIN q : q[i] \notin Reports
    <3>1. "disconnected" \in Events \ Reports
      BY DEF Events, Reports
    <3>2. CASE q = <<>>
      BY <3>2
    <3>3. CASE q = <<"disconnected">>
      BY <3>1, <3>3
    <3> QED
      BY <2>2, <3>2, <3>3
  <2>4. /\ loop' \in Seq(Events) /\ ReportsInOrder'
        /\ \A x \in Reports : Reported(x)' <=> Reported(x)
    BY <1>1, <2>2, <2>3, PostQuiet
  <2>5. \A x \in Reports : ~Reported(x)'
    BY <2>1, <2>4 DEF WifiInv, ReportsInv, Closed, Reports
  <2>6. ReportsInv' /\ ConfigInv'
    BY <2>1, <2>4, <2>5 DEF ReportsInv, Closed, ConfigInv, Reports
  <2>7. BackupInv'
    BY <2>1 DEF WifiInv, ConfigInv, BackupInv, Closing
  <2>8. WifiTypes'
    BY <1>1, <2>1, <2>4 DEF WifiTypes, WifiTypeOK, ManagerStates, Config
  <2> QED
    BY <2>6, <2>7, <2>8 DEF WifiInv
<1>3. CASE OpenFails
  <2>1. /\ supervisor = "open" /\ backup' = config /\ gotNewCreds' = FALSE
        /\ station' = Connected(station, config) /\ reconnectTimer' = TRUE
        /\ supervisor' = "wait"
        /\ UNCHANGED <<config, manager, linked, clientConnected, loop, bits, windowTimer,
                       fallbackActive, accepted, late, refused>>
    BY <1>3 DEF OpenFails, bluetooth, history
  <2>2. ReportsInOrder' /\ \A e : Reported(e)' <=> Reported(e)
    BY <2>1, SameLoop
  <2>3. ReportsInv' /\ ConfigInv' /\ BackupInv'
    BY <2>1, <2>2 DEF WifiInv, ReportsInv, Closed, ConfigInv, BackupInv, Closing
  <2>4. WifiTypes'
    BY <1>1, <2>1 DEF WifiTypes, WifiTypeOK, Connected
  <2> QED
    BY <2>3, <2>4 DEF WifiInv
<1>4. CASE WindowOpened
  <2>1. /\ supervisor = "opened" /\ fallbackActive' = TRUE /\ windowTimer' = TRUE
        /\ supervisor' = "wait"
        /\ UNCHANGED <<config, station, manager, linked, clientConnected, loop, bits,
                       reconnectTimer, gotNewCreds, backup, accepted, late, refused>>
    BY <1>4 DEF WindowOpened, wifi, bluetooth, history
  <2>2. ReportsInOrder' /\ \A e : Reported(e)' <=> Reported(e)
    BY <2>1, SameLoop
  <2>3. ReportsInv' /\ ConfigInv' /\ BackupInv'
    BY <2>1, <2>2 DEF WifiInv, ReportsInv, Closed, ConfigInv, BackupInv, Closing
  <2>4. WifiTypes'
    BY <1>1, <2>1 DEF WifiTypes, WifiTypeOK
  <2> QED
    BY <2>3, <2>4 DEF WifiInv
<1> QED
  BY <1>2, <1>3, <1>4

LEMMA CloseStep ==
  ASSUME WifiInv,
         CloseWindow \/ WindowClosed \/ ConfigRestored \/ ConnectsAgain \/ CountsDown
  PROVE  WifiInv'
<1>1. WifiTypes /\ ReportsInOrder
  BY DEF WifiInv, ReportsInv
<1>2. CASE CloseWindow
  <2>1. /\ supervisor = "close" /\ manager' = "off" /\ linked' = FALSE
        /\ supervisor' = "closed"
        /\ UNCHANGED <<config, station, clientConnected, bits, reconnectTimer, windowTimer,
                       fallbackActive, gotNewCreds, backup, accepted, late, refused>>
    BY <1>2 DEF CloseWindow, Hangup, wifi, timers, flags, history
  <2>2. PICK q : Post(q) /\ q \in {<<>>, <<"ble_off">>}
    BY <1>2 DEF CloseWindow, Hangup
  <2>3. q \in Seq(Events) /\ \A i \in DOMAIN q : q[i] \notin Reports
    <3>1. "ble_off" \in Events \ Reports
      BY DEF Events, Reports
    <3>2. CASE q = <<>>
      BY <3>2
    <3>3. CASE q = <<"ble_off">>
      BY <3>1, <3>3
    <3> QED
      BY <2>2, <3>2, <3>3
  <2>4. loop' \in Seq(Events) /\ ReportsInOrder'
    BY <1>1, <2>2, <2>3, PostQuiet
  <2>5. ReportsInv' /\ ConfigInv' /\ BackupInv'
    BY <2>1, <2>4 DEF WifiInv, ReportsInv, Closed, ConfigInv, BackupInv, Closing
  <2>6. WifiTypes'
    BY <1>1, <2>1, <2>4 DEF WifiTypes, WifiTypeOK, ManagerStates
  <2> QED
    BY <2>5, <2>6 DEF WifiInv
<1>3. CASE WindowClosed
  <2>1. /\ supervisor = "closed" /\ supervisor' = "restore" /\ fallbackActive' = FALSE
        /\ UNCHANGED <<config, station, manager, linked, clientConnected, loop, bits,
                       reconnectTimer, windowTimer, gotNewCreds, backup, accepted, late,
                       refused>>
    BY <1>3 DEF WindowClosed, wifi, bluetooth, timers, history
  <2>2. manager = "off"
    BY <2>1 DEF WifiInv, ReportsInv, Closed
  <2>3. ~Reported("fail") /\ ~Reported("success") /\ ~Reported("end")
    <3>1. DOMAIN loop = 1..Len(loop)
      BY <1>1 DEF WifiTypes, WifiTypeOK
    <3> QED
      BY <1>3, <3>1 DEF WindowClosed, ManagerIsHeard, Contains, Reported
  <2>4. ReportsInOrder' /\ \A e : Reported(e)' <=> Reported(e)
    BY <2>1, SameLoop
  <2>5. ReportsInv' /\ ConfigInv' /\ BackupInv'
    BY <2>1, <2>2, <2>3, <2>4
       DEF WifiInv, ReportsInv, Closed, ConfigInv, BackupInv, Closing
  <2>6. WifiTypes'
    BY <1>1, <2>1 DEF WifiTypes, WifiTypeOK
  <2> QED
    BY <2>5, <2>6 DEF WifiInv
<1>4. CASE ConfigRestored
  <2>1. /\ supervisor = "restore" /\ supervisor' = "connect"
        /\ config' \in {config, IF backup = Blank THEN config ELSE backup}
        /\ refused' = (refused \/ backup \notin {Blank, config'})
        /\ UNCHANGED <<station, manager, linked, clientConnected, loop, bits, reconnectTimer,
                       windowTimer, fallbackActive, gotNewCreds, backup, accepted, late>>
    BY <1>4 DEF ConfigRestored, bluetooth, timers, flags
  <2>2. manager = "off" /\ accepted # Blank /\ (~refused => backup = accepted)
    BY <2>1 DEF WifiInv, ReportsInv, BackupInv, Closing, Closed
  <2>3. ReportsInOrder' /\ \A e : Reported(e)' <=> Reported(e)
    BY <2>1, SameLoop
  <2>4. ~refused' => config' = accepted
    BY <2>1, <2>2
  <2>5. ReportsInv'
    BY <2>1, <2>2, <2>3 DEF WifiInv, ReportsInv, Closed
  <2>6. ConfigInv' /\ BackupInv'
    BY <2>1, <2>2, <2>4 DEF WifiInv, ConfigInv, BackupInv, Closing
  <2>7. config' \in Config /\ refused' \in BOOLEAN
    BY <1>1, <2>1 DEF WifiTypes, WifiTypeOK
  <2>8. WifiTypes'
    BY <1>1, <2>1, <2>7 DEF WifiTypes, WifiTypeOK
  <2> QED
    BY <2>5, <2>6, <2>8 DEF WifiInv
<1>5. CASE ConnectsAgain \/ CountsDown
  <2>1. /\ \/ supervisor = "connect" /\ supervisor' = "countdown"
           \/ supervisor = "countdown" /\ supervisor' = "wait"
        /\ station' \in {station, Connected(station, config)}
        /\ reconnectTimer' \in {reconnectTimer, TRUE}
        /\ UNCHANGED <<config, manager, linked, clientConnected, loop, bits, windowTimer,
                       fallbackActive, gotNewCreds, backup, accepted, late, refused>>
    BY <1>5 DEF ConnectsAgain, CountsDown, wifi, bluetooth, timers, flags, history
  <2>2. ReportsInOrder' /\ \A e : Reported(e)' <=> Reported(e)
    BY <2>1, SameLoop
  <2>3. ReportsInv' /\ ConfigInv' /\ BackupInv'
    BY <2>1, <2>2 DEF WifiInv, ReportsInv, Closed, ConfigInv, BackupInv, Closing
  <2>4. WifiTypes'
    BY <1>1, <2>1 DEF WifiTypes, WifiTypeOK, Connected
  <2> QED
    BY <2>3, <2>4 DEF WifiInv
<1> QED
  BY <1>2, <1>3, <1>4, <1>5

LEMMA WifiUnchanged ==
  ASSUME WifiInv, UNCHANGED wifiVars
  PROVE  WifiInv'
<1>1. UNCHANGED <<config, station, manager, linked, clientConnected, loop, bits, reconnectTimer,
                  windowTimer, supervisor, fallbackActive, gotNewCreds, backup, accepted, late, refused>>
  BY DEF wifiVars, wifi, bluetooth, timers, flags, history
<1>2. ReportsInOrder' /\ \A e : Reported(e)' <=> Reported(e)
  BY <1>1, SameLoop
<1>3. ReportsInv' /\ ConfigInv' /\ BackupInv'
  BY <1>1, <1>2 DEF WifiInv, ReportsInv, Closed, ConfigInv, BackupInv, Closing
<1>4. WifiTypes'
  BY <1>1 DEF WifiInv, WifiTypes, WifiTypeOK
<1> QED
  BY <1>3, <1>4 DEF WifiInv

\* Every state of the Wi-Fi provisioning has the invariant.
THEOREM WifiInvariantHolds == WifiSpec => []WifiInv
<1>1. WifiInv /\ [WifiNext]_wifiVars => WifiInv'
  BY DriverStep, ClientStep, ManagerStopsStep, EventLoopStep, TimerStep, WakesStep, OpenStep,
     CloseStep, WifiUnchanged
     DEF WifiNext, Supervisor
<1> QED
  BY WifiInitHolds, <1>1, PTL DEF WifiSpec

\* Whatever windows open_fallback_window and close_fallback_window have opened and closed,
\* and however the tasks' steps came in between: at rest, the configuration is that of the
\* credentials that connected last.
THEOREM AcceptedAreStored == WifiSpec => []StoredAreTheAccepted
<1>1. WifiInv => StoredAreTheAccepted
  BY DEF WifiInv, WifiTypes, ConfigInv, Closing, StoredAreTheAccepted, AtRest
<1> QED
  BY WifiInvariantHolds, <1>1, PTL
=================================================================================
