--------------------------- MODULE RelayCommand_proofs ---------------------------
(***************************************************************************)
(* Proofs about RelayCommand, for any number of calls, faults and sessions *)
(* and any backlog.                                                        *)
(***************************************************************************)
EXTENDS RelayCommand, SequenceTheorems, TLAPS

----------------------------------------------------------------------------
(* Sequences of messages                                                    *)

LEMMA AppendFacts ==
  ASSUME NEW S, NEW s \in Seq(S), NEW e \in S
  PROVE  /\ Append(s, e) \in Seq(S) /\ Len(Append(s, e)) = Len(s) + 1 /\ Len(s) \in Nat
         /\ DOMAIN s = 1..Len(s) /\ DOMAIN Append(s, e) = 1..(Len(s) + 1)
         /\ \A i \in 1..Len(s) : Append(s, e)[i] = s[i]
         /\ Append(s, e)[Len(s) + 1] = e
  OBVIOUS

LEMMA TailFacts ==
  ASSUME NEW S, NEW s \in Seq(S), s # <<>>
  PROVE  /\ Head(s) = s[1] /\ s[1] \in S /\ Tail(s) \in Seq(S)
         /\ Len(s) \in Nat /\ Len(s) > 0 /\ DOMAIN s = 1..Len(s)
         /\ Len(Tail(s)) = Len(s) - 1 /\ DOMAIN Tail(s) = 1..(Len(s) - 1)
         /\ \A i \in 1..(Len(s) - 1) : Tail(s)[i] = s[i + 1]
  OBVIOUS

LEMMA ConcatFacts ==
  ASSUME NEW S, NEW s \in Seq(S), NEW t \in Seq(S)
  PROVE  /\ s \o t \in Seq(S) /\ Len(s) \in Nat /\ Len(t) \in Nat
         /\ Len(s \o t) = Len(s) + Len(t)
         /\ DOMAIN s = 1..Len(s) /\ DOMAIN t = 1..Len(t) /\ DOMAIN (s \o t) = 1..(Len(s) + Len(t))
         /\ \A i \in 1..Len(s) : (s \o t)[i] = s[i]
         /\ \A i \in 1..Len(t) : (s \o t)[Len(s) + i] = t[i]
  OBVIOUS

LEMMA LiteralFacts ==
  ASSUME NEW S, NEW a \in S, NEW b \in S, NEW c \in S
  PROVE  /\ <<a>> \in Seq(S) /\ Len(<<a>>) = 1 /\ DOMAIN <<a>> = {1} /\ <<a>>[1] = a
         /\ <<a, b>> \in Seq(S) /\ Len(<<a, b>>) = 2 /\ DOMAIN <<a, b>> = {1, 2}
         /\ <<a, b>>[1] = a /\ <<a, b>>[2] = b
         /\ <<a, b, c>> \in Seq(S) /\ Len(<<a, b, c>>) = 3 /\ DOMAIN <<a, b, c>> = {1, 2, 3}
         /\ <<a, b, c>>[1] = a /\ <<a, b, c>>[2] = b /\ <<a, b, c>>[3] = c
  OBVIOUS

----------------------------------------------------------------------------
(* Types                                                                    *)

LEMMA MessagesTyped ==
  ASSUME NEW on \in BOOLEAN, NEW id \in Calls \cup {NoCall}, NEW no \in BOOLEAN
  PROVE  /\ Status(on) \in Message /\ RelayMessage(on, id, no) \in Message
         /\ RelayState(on, id) \in Message
         /\ TxState(Session) \in Message /\ TxState(NoTx) \in Message /\ ThisTx \in Message
<1>1. Status(on) \in Message
  BY DEF Status, Message, StatusMessages
<1>2. RelayMessage(on, id, no) \in Message /\ RelayMessage(on, id, FALSE) \in Message
  BY DEF RelayMessage, Message, RelayMessages
<1>3. TxState(Session) \in Message /\ TxState(NoTx) \in Message
  BY DEF TxState, Message, TxMessages
<1> QED
  BY <1>1, <1>2, <1>3 DEF RelayState, ThisTx

LEMMA KindsOfMessages ==
  ASSUME NEW m \in Message
  PROVE  /\ m.kind \in RetainedKinds
         /\ m.kind = "status" => m.online \in BOOLEAN
         /\ m.kind = "relay" => m.on \in BOOLEAN /\ m.id \in Calls \cup {NoCall} /\ m.rejected \in BOOLEAN
         /\ m.kind = "tx" => m.tx \in {Session, NoTx}
  BY DEF Message, StatusMessages, RelayMessages, TxMessages, RetainedKinds

Views ==
  [online : BOOLEAN \cup {Unknown}, relay : BOOLEAN \cup {Unknown},
   meter : {Unknown}, transaction : {Session, NoTx, Unknown}]

LEMMA ViewTyped ==
  ASSUME NEW view \in Views, NEW m \in Message
  PROVE  applyMessage(view, m) \in Views
<1>1. CASE m.kind = "status"
  BY <1>1, KindsOfMessages DEF applyMessage, Views
<1>2. CASE m.kind = "relay"
  BY <1>2, KindsOfMessages DEF applyMessage, Views
<1>3. CASE m.kind = "tx"
  BY <1>3, KindsOfMessages DEF applyMessage, Views
<1> QED
  BY <1>1, <1>2, <1>3, KindsOfMessages DEF RetainedKinds

\* What is retained: of one or two messages the last of each kind.
LEMMA RetainsLast ==
  ASSUME NEW r \in [RetainedKinds -> Seq(Message)], NEW messages \in Seq(Message),
         Len(messages) \in {1, 2}
  PROVE  /\ RetainAll(r, messages) \in [RetainedKinds -> Seq(Message)]
         /\ \A k \in RetainedKinds :
              \/ /\ RetainAll(r, messages)[k] = r[k]
                 /\ \A i \in DOMAIN messages : messages[i].kind # k
              \/ \E i \in DOMAIN messages :
                   messages[i].kind = k /\ RetainAll(r, messages)[k] = <<messages[i]>>
<1> DEFINE OfKind(k) == {i \in DOMAIN messages : messages[i].kind = k}
<1>1. ASSUME NEW k \in RetainedKinds, OfKind(k) # {} PROVE Max(OfKind(k)) \in OfKind(k)
  <2>1. OfKind(k) \subseteq {1, 2}
    OBVIOUS
  <2>2. \E i \in OfKind(k) : \A j \in OfKind(k) : i >= j
    <3> HIDE DEF OfKind
    <3> QED
      BY <1>1, <2>1
  <2> HIDE DEF OfKind
  <2> QED
    BY <2>2 DEF Max
<1>2. \A k \in RetainedKinds :
        RetainAll(r, messages)[k] = IF OfKind(k) = {} THEN r[k] ELSE <<messages[Max(OfKind(k))]>>
  BY DEF RetainAll
<1>3. RetainAll(r, messages) = [k \in RetainedKinds |-> RetainAll(r, messages)[k]]
  BY DEF RetainAll
<1>4. ASSUME NEW k \in RetainedKinds
      PROVE  \/ RetainAll(r, messages)[k] = r[k] /\ OfKind(k) = {}
             \/ \E i \in OfKind(k) : RetainAll(r, messages)[k] = <<messages[i]>>
  <2> HIDE DEF OfKind
  <2> QED
    BY <1>1, <1>2
<1>5. \A i \in DOMAIN messages : messages[i] \in Message
  OBVIOUS
<1>6. ASSUME NEW k \in RetainedKinds PROVE RetainAll(r, messages)[k] \in Seq(Message)
  <2>1. CASE RetainAll(r, messages)[k] = r[k]
    BY <2>1
  <2>2. ASSUME NEW i \in DOMAIN messages, RetainAll(r, messages)[k] = <<messages[i]>>
        PROVE  RetainAll(r, messages)[k] \in Seq(Message)
    BY <1>5, <2>2, LiteralFacts
  <2> QED
    BY <1>4, <2>1, <2>2
<1> QED
  BY <1>3, <1>4, <1>6

LEMMA ConnectTyped ==
  ASSUME NEW r \in [RetainedKinds -> Seq(Message)]
  PROVE  OnSubscribe(r) \in Seq(Message)
<1>1. /\ r["status"] \in Seq(Message) /\ r["relay"] \in Seq(Message)
      /\ r["tx"] \in Seq(Message)
  BY DEF RetainedKinds
<1>2. r["status"] \o r["relay"] \in Seq(Message)
  BY <1>1, ConcatFacts
<1> QED
  BY <1>1, <1>2, ConcatFacts DEF OnSubscribe

LEMMA LastWordsTyped ==
  ASSUME NEW s \in Seq(Message), NEW words \in LastWords(s)
  PROVE  /\ words \in Seq(Message) /\ Len(words) \in {1, 2}
         /\ words[Len(words)] = Status(FALSE)
         /\ Len(words) = 2 => s # <<>> /\ words[1] = Head(s)
<1>1. Status(FALSE) \in Message
  BY MessagesTyped DEF NoCall
<1>2. CASE words = <<Status(FALSE)>>
  <2>1. words \in Seq(Message) /\ Len(words) = 1 /\ words[1] = Status(FALSE)
    BY <1>1, <1>2, LiteralFacts
  <2> QED
    BY <2>1
<1>3. CASE s # <<>> /\ words = <<Head(s), Status(FALSE)>>
  <2>1. Head(s) \in Message
    BY <1>3, TailFacts
  <2> QED
    BY <2>1, <1>1, <1>3, LiteralFacts
<1> QED
  BY <1>2, <1>3 DEF LastWords

\* The provers keep truth values apart from the rest.
Switches ==
  /\ apiUp \in BOOLEAN /\ deviceUp \in BOOLEAN
  /\ relay \in BOOLEAN /\ charging \in BOOLEAN

DataTypes ==
  /\ call \in [Calls -> Call]
  /\ pending \in SUBSET Calls
  /\ outgoing \in Seq(Calls)
  /\ inbox \in Seq(Message)
  /\ known \in Views
  /\ retained \in [RetainedKinds -> Seq(Message)]
  /\ toDevice \in Seq(Calls)
  /\ requestId \in Calls \cup {NoCall}
  /\ outbox \in Seq(Message)
  /\ faultCount \in 0..MaxFaults
  /\ sessions \in 0..MaxSessions
  /\ watched \in SUBSET Calls
  /\ carriedOut \in SUBSET Calls
  /\ refused \in SUBSET Calls

LEMMA TypesSplit == TypeOK <=> DataTypes /\ Switches
  BY DEF TypeOK, DataTypes, Switches, Views

LEMMA CallsTyped ==
  ASSUME DataTypes, NEW c \in Calls
  PROVE  /\ call[c] \in Call /\ call[c].on \in BOOLEAN /\ call[c].force \in BOOLEAN
         /\ \A a \in Answers : [call EXCEPT ![c].answer = a] \in [Calls -> Call]
  BY DEF DataTypes, Call

\* What the broker takes from the charger.
LEMMA PublishTyped ==
  ASSUME DataTypes, Switches, NEW messages \in Seq(Message), Len(messages) \in {1, 2},
         Publish(messages)
  PROVE  retained' \in [RetainedKinds -> Seq(Message)] /\ inbox' \in Seq(Message)
  BY RetainsLast, ConcatFacts DEF Publish, DataTypes

LEMMA LoseApiLinkTyped ==
  ASSUME DataTypes, Switches, LoseApiLink
  PROVE  /\ faultCount' \in 0..MaxFaults /\ inbox' \in Seq(Message)
         /\ watched' \in SUBSET Calls /\ toDevice' \in Seq(Calls)
<1>1. toDevice' \in Seq(Calls)
  <2>1. CASE UNCHANGED toDevice
    BY <2>1 DEF DataTypes
  <2>2. CASE outgoing # <<>> /\ PassOn(Head(outgoing))
    BY <2>2, TailFacts, AppendFacts DEF PassOn, DataTypes
  <2> QED
    BY <2>1, <2>2 DEF LoseApiLink
<1>2. faultCount' \in 0..MaxFaults
  BY ConstantsAssumption DEF LoseApiLink, DataTypes
<1> QED
  BY <1>1, <1>2 DEF LoseApiLink, DataTypes

LEMMA ApiTypes ==
  ASSUME DataTypes, Switches, Api
  PROVE  DataTypes'
<1>1. ASSUME NEW c \in Calls, NEW on \in BOOLEAN, NEW force \in BOOLEAN,
             SetRelay(c, on, force)
      PROVE  DataTypes'
  <2>1. call' \in [Calls -> Call]
    <3> DEFINE ends == IF ~apiUp THEN "unavailable"
                       ELSE IF known.online = FALSE THEN "offline" ELSE "none"
    <3>1. [stage |-> "made", on |-> on, force |-> force, answer |-> ends] \in Call
      BY DEF Call, Answers
    <3>2. call' = [call EXCEPT ![c] =
                     [stage |-> "made", on |-> on, force |-> force, answer |-> ends]]
      BY <1>1 DEF SetRelay
    <3> HIDE DEF ends
    <3> QED
      BY <3>1, <3>2 DEF DataTypes
  <2>2. pending' \in SUBSET Calls /\ outgoing' \in Seq(Calls)
    <3>1. \/ UNCHANGED <<pending, outgoing>>
          \/ pending' = pending \cup {c} /\ outgoing' = Append(outgoing, c)
      BY <1>1, Zenon DEF SetRelay
    <3>2. Append(outgoing, c) \in Seq(Calls) /\ pending \cup {c} \in SUBSET Calls
      BY AppendFacts DEF DataTypes
    <3>3. CASE UNCHANGED <<pending, outgoing>>
      BY <3>3 DEF DataTypes
    <3> QED
      BY <3>1, <3>2, <3>3
  <2>3. watched' \in SUBSET Calls
    BY <1>1 DEF SetRelay, DataTypes
  <2> QED
    BY <1>1, <2>1, <2>2, <2>3 DEF SetRelay, DataTypes, contactor, counters, history
<1>2. ASSUME NEW c \in Calls, Timeout(c)
      PROVE  DataTypes'
  BY <1>2, CallsTyped DEF Timeout, Settle, DataTypes, Answers, apiClient, contactor,
    counters,
     history
<1>3. CASE Receive
  <2>1. Head(inbox) \in Message /\ Tail(inbox) \in Seq(Message) /\ inbox' = Tail(inbox)
    BY <1>3, TailFacts DEF Receive, DataTypes
  <2>2. known' \in Views
    BY <1>3, <2>1, ViewTyped DEF Receive, DataTypes
  <2>3. call' \in [Calls -> Call] /\ pending' \in SUBSET Calls
    <3>1. \/ UNCHANGED <<call, pending>>
          \/ Head(inbox).id \in pending /\ Settle(Head(inbox).id, Answer(Head(inbox)))
      BY <1>3 DEF Receive
    <3>2. Answer(Head(inbox)) \in Answers
      BY DEF Answer, Answers
    <3> QED
      BY <3>1, <3>2, CallsTyped DEF Settle, DataTypes
  <2> QED
    BY <1>3, <2>1, <2>2, <2>3 DEF Receive, DataTypes, apiClient, contactor, counters,
      history
<1>4. CASE ApiConnect
  BY <1>4, ConnectTyped DEF ApiConnect, DataTypes, api, contactor, counters, history
<1>5. CASE ApiDisconnect
  BY <1>5, LoseApiLinkTyped
  DEF ApiDisconnect, LoseApiLink, DataTypes, api, contactor, history
<1>6. CASE ApiRestart
  <2>1. call' \in [Calls -> Call]
    <3>1. \A c \in Calls : call[c] \in Call /\ [call[c] EXCEPT !.stage = "lost"] \in Call
      BY DEF DataTypes, Call
    <3> QED
      BY <1>6, <3>1 DEF ApiRestart
  <2>2. known' \in Views /\ outgoing' \in Seq(Calls) /\ pending' \in SUBSET Calls
    BY <1>6 DEF ApiRestart, emptyDeviceState, Views
  <2>3. LoseApiLink /\ UNCHANGED <<retained, contactor, outbox, sessions, history>>
    BY <1>6 DEF ApiRestart, LoseApiLink
  <2> QED
    BY <2>1, <2>2, <2>3, LoseApiLinkTyped DEF DataTypes, contactor, history
<1> QED
  BY <1>1, <1>2, <1>3, <1>4, <1>5, <1>6 DEF Api

LEMMA BrokerTypes ==
  ASSUME DataTypes, Switches, Broker
  PROVE  DataTypes'
<1>1. CASE TakeCommand
  <2>1. Head(outgoing) \in Calls /\ outgoing' \in Seq(Calls)
    BY <1>1, TailFacts DEF TakeCommand, DataTypes
  <2>2. toDevice' \in Seq(Calls)
    BY <1>1, <2>1, AppendFacts DEF TakeCommand, PassOn, DataTypes
  <2> QED
    BY <1>1, <2>1, <2>2 DEF TakeCommand, DataTypes, api, contactor, counters, history
<1>2. CASE TakeReport
  <2>1. Head(outbox) \in Message /\ outbox' \in Seq(Message)
    BY <1>2, TailFacts DEF TakeReport, DataTypes
  <2>2. retained' \in [RetainedKinds -> Seq(Message)] /\ inbox' \in Seq(Message)
    <3>1. <<Head(outbox)>> \in Seq(Message) /\ Len(<<Head(outbox)>>) = 1
      BY <2>1
    <3> QED
      BY <3>1, <1>2, PublishTyped DEF TakeReport
  <2> QED
    BY <1>2, <2>1, <2>2 DEF TakeReport, DataTypes, api, apiClient, contactor, counters,
      history
<1> QED
  BY <1>1, <1>2 DEF Broker

LEMMA SaysTyped ==
  ASSUME DataTypes, NEW messages \in Seq(Message), Says(messages)
  PROVE  outbox' \in Seq(Message)
  BY ConcatFacts DEF Says, DataTypes

LEMMA LoseDeviceTyped ==
  ASSUME DataTypes, Switches, LoseDevice
  PROVE  /\ retained' \in [RetainedKinds -> Seq(Message)] /\ inbox' \in Seq(Message)
         /\ faultCount' \in 0..MaxFaults /\ toDevice' \in Seq(Calls)
<1>1. PICK words \in LastWords(outbox) : Publish(words)
  BY DEF LoseDevice
<1>2. words \in Seq(Message) /\ Len(words) \in {1, 2}
  BY LastWordsTyped DEF DataTypes
<1> QED
  BY <1>1, <1>2, PublishTyped, ConstantsAssumption DEF LoseDevice, DataTypes

LEMMA DeviceTypes ==
  ASSUME DataTypes, Switches, Device
  PROVE  DataTypes'
<1>0. \A c \in Calls \cup {NoCall}, on, no \in BOOLEAN :
        RelayMessage(on, c, no) \in Message /\ RelayState(on, c) \in Message
  BY MessagesTyped
<1>1. Status(TRUE) \in Message /\ ThisTx \in Message /\ TxState(Session) \in Message
        /\ TxState(NoTx) \in Message
  BY MessagesTyped DEF NoCall
<1>2. requestId \in Calls \cup {NoCall} /\ relay \in BOOLEAN
  BY DEF DataTypes, Switches
<1>3. CASE DeviceConnect
  <2>1. <<Status(TRUE), RelayState(relay, requestId), ThisTx>> \in Seq(Message)
    BY <1>0, <1>1, <1>2, LiteralFacts
  <2>2. outbox' \in Seq(Message)
    BY <1>3, <2>1, ConcatFacts DEF DeviceConnect, DataTypes
  <2> QED
    BY <1>3, <2>2 DEF DeviceConnect, DataTypes, api, apiClient, contactor, counters,
      history
<1>4. CASE DeviceDisconnect
  <2>1. LoseDevice /\ UNCHANGED <<outbox, requestId>>
    BY <1>4 DEF DeviceDisconnect
  <2>2. UNCHANGED <<api, apiClient, sessions, watched, history>>
    BY <2>1 DEF LoseDevice
  <2> QED
    BY <2>1, <2>2, LoseDeviceTyped DEF DataTypes, api, apiClient, history
<1>5. CASE DeviceReset
  <2>1. LoseDevice /\ outbox' = <<>> /\ requestId' = NoCall
    BY <1>5 DEF DeviceReset
  <2>2. UNCHANGED <<api, apiClient, sessions, watched, history>>
    BY <2>1 DEF LoseDevice
  <2>3. outbox' \in Seq(Message)
    BY <2>1
  <2> QED
    BY <2>1, <2>2, <2>3, LoseDeviceTyped DEF DataTypes, api, apiClient, history
<1>6. CASE HandleCommand
  <2> DEFINE c == Head(toDevice)
  <2>1. c \in Calls /\ toDevice' \in Seq(Calls)
    BY <1>6, TailFacts DEF HandleCommand, DataTypes
  <2>2. \/ Refuse(c)
        \/ \E ends \in BOOLEAN : Switch(c, ends)
    BY <1>6 DEF HandleCommand
  <2> HIDE DEF c
  <2>3. outbox' \in Seq(Message) /\ requestId' \in Calls /\ carriedOut' \in SUBSET Calls
          /\ refused' \in SUBSET Calls
    <3>1. CASE Refuse(c)
      <4>1. <<RelayMessage(relay, c, TRUE)>> \in Seq(Message)
        BY <1>0, <1>2, <2>1, LiteralFacts
      <4> QED
        BY <3>1, <4>1, <2>1, SaysTyped DEF Refuse, DataTypes
    <3>2. ASSUME NEW ends \in BOOLEAN, Switch(c, ends)
          PROVE  outbox' \in Seq(Message) /\ requestId' \in Calls /\ carriedOut' \in SUBSET Calls
                   /\ refused' \in SUBSET Calls
      <4>1. RelayState(FALSE, requestId) \in Message /\ RelayState(call[c].on, c) \in Message
        BY <1>0, <1>2, <2>1, CallsTyped
      <4>2. (IF ends THEN <<RelayState(FALSE, requestId)>> ELSE <<>>)
               \o <<RelayState(call[c].on, c)>> \in Seq(Message)
        <5>1. \A m \in Message : <<m>> \in Seq(Message)
          BY LiteralFacts
        <5>2. (IF ends THEN <<RelayState(FALSE, requestId)>> ELSE <<>>) \in Seq(Message)
          <6>1. <<RelayState(FALSE, requestId)>> \in Seq(Message)
            BY <4>1, <5>1, Zenon
          <6>2. <<>> \in Seq(Message)
            OBVIOUS
          <6> QED
            BY <6>1, <6>2, Zenon
        <5> QED
          BY <4>1, <5>1, <5>2, ConcatFacts
      <4>3. outbox' \in Seq(Message)
        BY <3>2, <4>2, SaysTyped DEF Switch
      <4> QED
        BY <3>2, <4>3, <2>1 DEF Switch, DataTypes
    <3> QED
      BY <2>2, <3>1, <3>2
  <2> QED
    BY <1>6, <2>1, <2>3 DEF HandleCommand, DataTypes, api, apiClient, counters
<1>7. CASE StartSession
  <2>1. <<TxState(Session), RelayState(TRUE, requestId)>> \in Seq(Message)
    BY <1>0, <1>1, <1>2, LiteralFacts
  <2>2. outbox' \in Seq(Message)
    BY <1>7, <2>1, SaysTyped DEF StartSession
  <2>3. sessions' \in 0..MaxSessions
    BY <1>7, ConstantsAssumption DEF StartSession, DataTypes
  <2> QED
    BY <1>7, <2>2, <2>3 DEF StartSession, DataTypes, api, apiClient, history
<1>8. CASE EndSession
  <2>1. <<RelayState(FALSE, requestId), TxState(NoTx)>> \in Seq(Message)
    BY <1>0, <1>1, <1>2, LiteralFacts
  <2>2. outbox' \in Seq(Message)
    BY <1>8, <2>1, SaysTyped DEF EndSession
  <2> QED
    BY <1>8, <2>2 DEF EndSession, DataTypes, api, apiClient, counters, history
<1> QED
  BY <1>3, <1>4, <1>5, <1>6, <1>7, <1>8 DEF Device

LEMMA SwitchTypes ==
  ASSUME DataTypes, Switches, [Next]_vars
  PROVE  Switches'
<1>1. UNCHANGED apiUp \/ apiUp' = TRUE \/ apiUp' = FALSE
  BY Zenon DEF Next, Api, Broker, Device, SetRelay, Timeout, Receive, ApiConnect,
    ApiDisconnect,
     ApiRestart, LoseApiLink, TakeCommand, TakeReport, DeviceConnect, DeviceDisconnect,
     DeviceReset, LoseDevice, HandleCommand, StartSession, EndSession, apiClient, vars
<1>2. UNCHANGED deviceUp \/ deviceUp' = TRUE \/ deviceUp' = FALSE
  BY Zenon DEF Next, Api, Broker, Device, SetRelay, Timeout, Receive, ApiConnect,
    ApiDisconnect,
     ApiRestart, LoseApiLink, TakeCommand, TakeReport, DeviceConnect, DeviceDisconnect,
     DeviceReset, LoseDevice, HandleCommand, StartSession, EndSession, vars
<1>3. \/ UNCHANGED <<relay, charging>>
      \/ HandleCommand
      \/ relay' = TRUE /\ charging' = TRUE
      \/ relay' = FALSE /\ charging' = FALSE
  BY Zenon DEF Next, Api, Broker, Device, SetRelay, Timeout, Receive, ApiConnect,
    ApiDisconnect,
     ApiRestart, LoseApiLink, TakeCommand, TakeReport, DeviceConnect, DeviceDisconnect,
     DeviceReset, LoseDevice, StartSession, EndSession, contactor, vars
<1>4. ASSUME HandleCommand
      PROVE  relay' \in BOOLEAN /\ (charging' = FALSE \/ UNCHANGED charging)
  <2>1. Head(toDevice) \in Calls
    BY <1>4, TailFacts DEF HandleCommand, DataTypes
  <2>2. call[Head(toDevice)].on \in BOOLEAN
    BY <2>1, CallsTyped
  <2>3. \/ UNCHANGED <<relay, charging>>
        \/ \E ends \in BOOLEAN :
             relay' = call[Head(toDevice)].on /\ charging' = (charging /\ ~ends)
    <3>1. \/ Refuse(Head(toDevice))
          \/ Switch(Head(toDevice), charging /\ ~call[Head(toDevice)].on)
      BY <1>4, Zenon DEF HandleCommand
    <3> QED
      BY <3>1, Zenon DEF Refuse, Switch
  <2> QED
    BY <2>2, <2>3, Zenon DEF Switches
<1> QED
  BY <1>1, <1>2, <1>3, <1>4, Zenon DEF Switches

LEMMA TypesAtStart ==
  ASSUME Init
  PROVE  TypeOK
<1>1. DataTypes
  BY ConstantsAssumption DEF Init, DataTypes, Views, NewCall, Call, Answers,
    emptyDeviceState,
     NothingRetained
<1>2. Switches
  BY Zenon DEF Init, Switches
<1> QED
  BY <1>1, <1>2, TypesSplit

LEMMA TypesKept ==
  ASSUME TypeOK, [Next]_vars
  PROVE  TypeOK'
<1>1. DataTypes /\ Switches
  BY TypesSplit
<1>2. DataTypes'
  <2>1. CASE UNCHANGED vars
    BY <1>1, <2>1 DEF DataTypes, vars, api, apiClient, contactor, counters, history
  <2> QED
    BY <1>1, <2>1, ApiTypes, BrokerTypes, DeviceTypes DEF Next
<1>3. Switches'
  BY <1>1, SwitchTypes
<1> QED
  BY <1>2, <1>3, TypesSplit, PTL

\* TypeOK: the values of every variable, in every reachable state.
THEOREM TypeCorrect == Spec => []TypeOK
  BY TypesAtStart, TypesKept, PTL DEF Spec


----------------------------------------------------------------------------
(* What a sequence of messages says                                         *)

Names(m, c) == m.kind = "relay" /\ m.id = c

Quiet(s, c) == \A i \in DOMAIN s : ~Names(s[i], c)

\* The first message that names the call, if there is one, is in S.
FirstIsIn(s, c, S) ==
  \A i \in DOMAIN s :
    Names(s[i], c) /\ (\A j \in DOMAIN s : j < i => ~Names(s[j], c)) => s[i] \in S

Silent(s, k) == \A i \in DOMAIN s : s[i].kind # k

\* There is a message of the kind, and the last one is in S.
LastIsIn(s, k, S) ==
  \E i \in DOMAIN s :
    /\ s[i].kind = k /\ s[i] \in S
    /\ \A j \in DOMAIN s : j > i => s[j].kind # k

LEMMA LargerSet ==
  ASSUME NEW S, NEW T, S \subseteq T, NEW s
  PROVE  /\ s \in Seq(S) => s \in Seq(T)
         /\ \A c : FirstIsIn(s, c, S) => FirstIsIn(s, c, T)
         /\ \A k : LastIsIn(s, k, S) => LastIsIn(s, k, T)
<1>1. s \in Seq(S) => s \in Seq(T)
  OBVIOUS
<1> QED
  BY <1>1 DEF FirstIsIn, LastIsIn

LEMMA FirstInConcat ==
  ASSUME NEW s \in Seq(Message), NEW t \in Seq(Message), NEW c, NEW S
  PROVE  /\ Quiet(s \o t, c) <=> Quiet(s, c) /\ Quiet(t, c)
         /\ ~Quiet(s, c) /\ FirstIsIn(s, c, S) => FirstIsIn(s \o t, c, S)
         /\ Quiet(s, c) /\ FirstIsIn(t, c, S) => FirstIsIn(s \o t, c, S)
<1>1. /\ Len(s) \in Nat /\ Len(t) \in Nat
      /\ DOMAIN s = 1..Len(s) /\ DOMAIN t = 1..Len(t) /\ DOMAIN (s \o t) = 1..(Len(s) + Len(t))
      /\ \A i \in 1..Len(s) : (s \o t)[i] = s[i]
      /\ \A i \in 1..Len(t) : (s \o t)[Len(s) + i] = t[i]
  BY ConcatFacts
<1>2. \A i \in 1..(Len(s) + Len(t)) :
        i \in 1..Len(s) \/ \E j \in 1..Len(t) : i = Len(s) + j
  <2> SUFFICES ASSUME NEW i \in 1..(Len(s) + Len(t)), i \notin 1..Len(s)
               PROVE  \E j \in 1..Len(t) : i = Len(s) + j
    OBVIOUS
  <2>1. i - Len(s) \in 1..Len(t) /\ i = Len(s) + (i - Len(s))
    BY <1>1
  <2> QED
    BY <2>1
<1> DEFINE u == s \o t
<1> HIDE DEF u
<1>3. \A i \in 1..Len(t) : Len(s) + i \in DOMAIN u
  BY <1>1 DEF u
<1>4. Quiet(u, c) <=> Quiet(s, c) /\ Quiet(t, c)
  <2>1. ASSUME Quiet(u, c) PROVE Quiet(s, c) /\ Quiet(t, c)
    <3>1. ASSUME NEW i \in DOMAIN s PROVE ~Names(s[i], c)
      <4>1. i \in DOMAIN u /\ u[i] = s[i]
        BY <1>1 DEF u
      <4> QED
        BY <4>1, <2>1 DEF Quiet
    <3>2. ASSUME NEW i \in DOMAIN t PROVE ~Names(t[i], c)
      <4>1. Len(s) + i \in DOMAIN u /\ u[Len(s) + i] = t[i]
        BY <1>1, <1>3 DEF u
      <4> QED
        BY <4>1, <2>1 DEF Quiet
    <3> QED
      BY <3>1, <3>2 DEF Quiet
  <2>2. ASSUME Quiet(s, c), Quiet(t, c) PROVE Quiet(u, c)
    <3>1. ASSUME NEW i \in DOMAIN u PROVE ~Names(u[i], c)
      <4>1. CASE i \in 1..Len(s)
        BY <1>1, <2>2, <4>1 DEF Quiet, u
      <4>2. ASSUME NEW j \in 1..Len(t), i = Len(s) + j PROVE ~Names(u[i], c)
        <5>1. u[i] = t[j]
          BY <1>1, <4>2 DEF u
        <5> QED
          BY <1>1, <2>2, <5>1 DEF Quiet
      <4> QED
        BY <1>1, <1>2, <4>1, <4>2 DEF u
    <3> QED
      BY <3>1 DEF Quiet
  <2> QED
    BY <2>1, <2>2
<1>5. ASSUME ~Quiet(s, c), FirstIsIn(s, c, S) PROVE FirstIsIn(u, c, S)
  <2> SUFFICES ASSUME NEW i \in DOMAIN u, Names(u[i], c),
                      \A j \in DOMAIN u : j < i => ~Names(u[j], c)
               PROVE  u[i] \in S
    BY DEF FirstIsIn
  <2>1. PICK n \in 1..Len(s) : Names(s[n], c)
    BY <1>1, <1>5 DEF Quiet
  <2>2. n \in DOMAIN u /\ Names(u[n], c)
    BY <1>1, <2>1 DEF u
  <2>3. ~(n < i)
    BY <2>2
  <2>4. i \in 1..Len(s)
    BY <2>3, <1>1 DEF u
  <2>5. Names(s[i], c) /\ \A j \in DOMAIN s : j < i => ~Names(s[j], c)
    BY <1>1, <2>4 DEF u
  <2> QED
    BY <2>4, <2>5, <1>5, <1>1 DEF FirstIsIn, u
<1>6. ASSUME Quiet(s, c), FirstIsIn(t, c, S) PROVE FirstIsIn(u, c, S)
  <2> SUFFICES ASSUME NEW i \in DOMAIN u, Names(u[i], c),
                      \A j \in DOMAIN u : j < i => ~Names(u[j], c)
               PROVE  u[i] \in S
    BY DEF FirstIsIn
  <2>1. i \notin 1..Len(s)
    BY <1>1, <1>6 DEF Quiet, u
  <2>2. PICK n \in 1..Len(t) : i = Len(s) + n
    BY <1>1, <1>2, <2>1 DEF u
  <2>3. u[i] = t[n] /\ Names(t[n], c)
    BY <1>1, <2>2 DEF u
  <2>4. ASSUME NEW j \in DOMAIN t, j < n PROVE ~Names(t[j], c)
    <3>1. Len(s) + j \in DOMAIN u /\ Len(s) + j < i /\ u[Len(s) + j] = t[j]
      BY <1>1, <1>3, <2>2, <2>4 DEF u
    <3> QED
      BY <3>1
  <2> QED
    BY <1>1, <1>6, <2>3, <2>4 DEF FirstIsIn
<1> QED
  BY <1>4, <1>5, <1>6 DEF u

LEMMA FirstInTail ==
  ASSUME NEW s \in Seq(Message), s # <<>>, NEW c, NEW S, FirstIsIn(s, c, S)
  PROVE  /\ Names(Head(s), c) => Head(s) \in S
         /\ ~Names(Head(s), c) => FirstIsIn(Tail(s), c, S) /\ (Quiet(Tail(s), c) <=> Quiet(s, c))
<1>1. /\ Head(s) = s[1] /\ Len(s) \in Nat /\ Len(s) > 0 /\ DOMAIN s = 1..Len(s)
      /\ DOMAIN Tail(s) = 1..(Len(s) - 1)
      /\ \A i \in 1..(Len(s) - 1) : Tail(s)[i] = s[i + 1]
  BY TailFacts
<1> DEFINE u == Tail(s)
<1> HIDE DEF u
<1>2. \A i \in 1..Len(s) : i = 1 \/ \E j \in 1..(Len(s) - 1) : i = j + 1
  <2> SUFFICES ASSUME NEW i \in 1..Len(s), i # 1 PROVE \E j \in 1..(Len(s) - 1) : i = j + 1
    OBVIOUS
  <2>1. i - 1 \in 1..(Len(s) - 1) /\ i = (i - 1) + 1
    BY <1>1
  <2> QED
    BY <2>1
<1>3. \A j \in 1..(Len(s) - 1) : j + 1 \in DOMAIN s
  BY <1>1
<1>4. ASSUME Names(Head(s), c) PROVE Head(s) \in S
  <2>1. 1 \in DOMAIN s /\ \A j \in DOMAIN s : ~(j < 1)
    BY <1>1
  <2> QED
    BY <1>1, <1>4, <2>1 DEF FirstIsIn
<1>5. ASSUME ~Names(Head(s), c) PROVE Quiet(u, c) <=> Quiet(s, c)
  BY <1>1, <1>2, <1>3, <1>5 DEF Quiet, u
<1>6. ASSUME ~Names(Head(s), c) PROVE FirstIsIn(u, c, S)
  <2> SUFFICES ASSUME NEW i \in DOMAIN u, Names(u[i], c),
                      \A j \in DOMAIN u : j < i => ~Names(u[j], c)
               PROVE  u[i] \in S
    BY DEF FirstIsIn
  <2>1. i \in 1..(Len(s) - 1) /\ i + 1 \in DOMAIN s /\ u[i] = s[i + 1]
    BY <1>1, <1>3 DEF u
  <2>2. ASSUME NEW j \in DOMAIN s, j < i + 1 PROVE ~Names(s[j], c)
    <3>1. CASE j = 1
      BY <3>1, <1>1, <1>6
    <3>2. ASSUME NEW n \in 1..(Len(s) - 1), j = n + 1 PROVE ~Names(s[j], c)
      <4>1. n \in DOMAIN u /\ u[n] = s[j] /\ n < i
        BY <1>1, <2>1, <2>2, <3>2 DEF u
      <4> QED
        BY <4>1
    <3> QED
      BY <1>1, <1>2, <3>1, <3>2
  <2> QED
    BY <2>1, <2>2 DEF FirstIsIn
<1> QED
  BY <1>4, <1>5, <1>6 DEF u

LEMMA LastInConcat ==
  ASSUME NEW s \in Seq(Message), NEW t \in Seq(Message), NEW k, NEW S
  PROVE  /\ Silent(s \o t, k) <=> Silent(s, k) /\ Silent(t, k)
         /\ LastIsIn(t, k, S) => LastIsIn(s \o t, k, S)
         /\ LastIsIn(s, k, S) /\ Silent(t, k) => LastIsIn(s \o t, k, S)
<1>1. /\ Len(s) \in Nat /\ Len(t) \in Nat
      /\ DOMAIN s = 1..Len(s) /\ DOMAIN t = 1..Len(t) /\ DOMAIN (s \o t) = 1..(Len(s) + Len(t))
      /\ \A i \in 1..Len(s) : (s \o t)[i] = s[i]
      /\ \A i \in 1..Len(t) : (s \o t)[Len(s) + i] = t[i]
  BY ConcatFacts
<1>2. \A i \in 1..(Len(s) + Len(t)) :
        i \in 1..Len(s) \/ \E j \in 1..Len(t) : i = Len(s) + j
  <2> SUFFICES ASSUME NEW i \in 1..(Len(s) + Len(t)), i \notin 1..Len(s)
               PROVE  \E j \in 1..Len(t) : i = Len(s) + j
    OBVIOUS
  <2>1. i - Len(s) \in 1..Len(t) /\ i = Len(s) + (i - Len(s))
    BY <1>1
  <2> QED
    BY <2>1
<1> DEFINE u == s \o t
<1> HIDE DEF u
<1>3. \A i \in 1..Len(t) : Len(s) + i \in DOMAIN u
  BY <1>1 DEF u
<1>4. Silent(u, k) <=> Silent(s, k) /\ Silent(t, k)
  <2>1. ASSUME Silent(u, k) PROVE Silent(s, k) /\ Silent(t, k)
    <3>1. ASSUME NEW i \in DOMAIN s PROVE s[i].kind # k
      <4>1. i \in DOMAIN u /\ u[i] = s[i]
        BY <1>1 DEF u
      <4> QED
        BY <4>1, <2>1 DEF Silent
    <3>2. ASSUME NEW i \in DOMAIN t PROVE t[i].kind # k
      <4>1. Len(s) + i \in DOMAIN u /\ u[Len(s) + i] = t[i]
        BY <1>1, <1>3 DEF u
      <4> QED
        BY <4>1, <2>1 DEF Silent
    <3> QED
      BY <3>1, <3>2 DEF Silent
  <2>2. ASSUME Silent(s, k), Silent(t, k) PROVE Silent(u, k)
    BY <1>1, <1>2, <2>2 DEF Silent, u
  <2> QED
    BY <2>1, <2>2
<1>5. ASSUME LastIsIn(t, k, S) PROVE LastIsIn(u, k, S)
  <2>1. PICK n \in 1..Len(t) : t[n].kind = k /\ t[n] \in S
                                 /\ \A j \in DOMAIN t : j > n => t[j].kind # k
    BY <1>1, <1>5 DEF LastIsIn
  <2>2. Len(s) + n \in DOMAIN u /\ u[Len(s) + n] = t[n]
    BY <1>1, <1>3 DEF u
  <2>3. ASSUME NEW i \in DOMAIN u, i > Len(s) + n PROVE u[i].kind # k
    <3>1. PICK j \in 1..Len(t) : i = Len(s) + j
      BY <1>1, <1>2, <2>3 DEF u
    <3>2. u[i] = t[j] /\ j > n
      BY <1>1, <3>1, <2>3 DEF u
    <3> QED
      BY <1>1, <2>1, <3>2
  <2> QED
    BY <2>1, <2>2, <2>3 DEF LastIsIn
<1>6. ASSUME LastIsIn(s, k, S), Silent(t, k) PROVE LastIsIn(u, k, S)
  <2>1. PICK n \in 1..Len(s) : s[n].kind = k /\ s[n] \in S
                                 /\ \A j \in DOMAIN s : j > n => s[j].kind # k
    BY <1>1, <1>6 DEF LastIsIn
  <2>2. n \in DOMAIN u /\ u[n] = s[n]
    BY <1>1 DEF u
  <2>3. ASSUME NEW i \in DOMAIN u, i > n PROVE u[i].kind # k
    <3>1. CASE i \in 1..Len(s)
      BY <1>1, <2>1, <2>3, <3>1 DEF u
    <3>2. ASSUME NEW j \in 1..Len(t), i = Len(s) + j PROVE u[i].kind # k
      BY <1>1, <1>6, <3>2 DEF u, Silent
    <3> QED
      BY <1>1, <1>2, <3>1, <3>2 DEF u
  <2> QED
    BY <2>1, <2>2, <2>3 DEF LastIsIn
<1> QED
  BY <1>4, <1>5, <1>6 DEF u

LEMMA LastInTail ==
  ASSUME NEW s \in Seq(Message), s # <<>>, NEW k, NEW S
  PROVE  /\ Silent(s, k) => Head(s).kind # k /\ Silent(Tail(s), k)
         /\ LastIsIn(s, k, S) =>
              \/ LastIsIn(Tail(s), k, S)
              \/ Head(s).kind = k /\ Head(s) \in S /\ Silent(Tail(s), k)
<1>1. /\ Head(s) = s[1] /\ Len(s) \in Nat /\ Len(s) > 0 /\ DOMAIN s = 1..Len(s)
      /\ DOMAIN Tail(s) = 1..(Len(s) - 1)
      /\ \A i \in 1..(Len(s) - 1) : Tail(s)[i] = s[i + 1]
  BY TailFacts
<1> DEFINE u == Tail(s)
<1> HIDE DEF u
<1>2. \A j \in 1..(Len(s) - 1) : j + 1 \in DOMAIN s
  BY <1>1
<1>3. ASSUME Silent(s, k) PROVE Head(s).kind # k /\ Silent(u, k)
  <2>1. 1 \in DOMAIN s
    BY <1>1
  <2> QED
    BY <1>1, <1>2, <1>3, <2>1 DEF Silent, u
<1>4. ASSUME LastIsIn(s, k, S)
      PROVE  LastIsIn(u, k, S) \/ (Head(s).kind = k /\ Head(s) \in S /\ Silent(u, k))
  <2>1. PICK n \in 1..Len(s) : s[n].kind = k /\ s[n] \in S
                                 /\ \A j \in DOMAIN s : j > n => s[j].kind # k
    BY <1>1, <1>4 DEF LastIsIn
  <2>2. CASE n = 1
    <3>1. ASSUME NEW j \in DOMAIN u PROVE u[j].kind # k
      <4>1. u[j] = s[j + 1] /\ j + 1 \in DOMAIN s /\ j + 1 > 1
        BY <1>1, <1>2 DEF u
      <4> QED
        BY <4>1, <2>1, <2>2
    <3> QED
      BY <1>1, <2>1, <2>2, <3>1 DEF Silent
  <2>3. CASE n # 1
    <3>1. n - 1 \in DOMAIN u /\ u[n - 1] = s[n]
      <4>1. n - 1 \in 1..(Len(s) - 1) /\ (n - 1) + 1 = n
        BY <1>1, <2>3
      <4> QED
        BY <4>1, <1>1 DEF u
    <3>2. ASSUME NEW j \in DOMAIN u, j > n - 1 PROVE u[j].kind # k
      <4>1. u[j] = s[j + 1] /\ j + 1 \in DOMAIN s /\ j + 1 > n
        BY <1>1, <1>2, <3>2 DEF u
      <4> QED
        BY <4>1, <2>1
    <3> QED
      BY <2>1, <3>1, <3>2 DEF LastIsIn
  <2> QED
    BY <2>2, <2>3
<1> QED
  BY <1>3, <1>4 DEF u

LEMMA QuietFacts ==
  ASSUME NEW s, NEW c, NEW S, Quiet(s, c)
  PROVE  FirstIsIn(s, c, S)
  BY DEF Quiet, FirstIsIn

LEMMA OneMessage ==
  ASSUME NEW m \in Message
  PROVE  /\ \A c : Quiet(<<m>>, c) <=> ~Names(m, c)
         /\ \A c, S : (Names(m, c) => m \in S) => FirstIsIn(<<m>>, c, S)
         /\ \A k : Silent(<<m>>, k) <=> m.kind # k
         /\ \A k, S : m.kind = k /\ m \in S => LastIsIn(<<m>>, k, S)
<1>1. DOMAIN <<m>> = {1} /\ <<m>>[1] = m
  OBVIOUS
<1> DEFINE s == <<m>>
<1> HIDE DEF s
<1>2. DOMAIN s = {1} /\ s[1] = m
  BY <1>1 DEF s
<1>3. \A k, S : m.kind = k /\ m \in S => LastIsIn(s, k, S)
  BY <1>2 DEF LastIsIn
<1> QED
  BY <1>2, <1>3 DEF Quiet, FirstIsIn, Silent, s

LEMMA LiteralParts ==
  ASSUME NEW a \in Message, NEW b \in Message, NEW c \in Message
  PROVE  /\ <<a>> \in Seq(Message) /\ <<b>> \in Seq(Message) /\ <<c>> \in Seq(Message)
         /\ <<a>> \o <<b>> \in Seq(Message)
         /\ <<a, b>> = <<a>> \o <<b>> /\ <<a, b, c>> = (<<a>> \o <<b>>) \o <<c>>
<1>1. /\ <<a>> \in Seq(Message) /\ <<b>> \in Seq(Message) /\ <<c>> \in Seq(Message)
      /\ <<a>> \o <<b>> \in Seq(Message)
  OBVIOUS
<1>2. <<a, b>> = <<a>> \o <<b>>
  <2> DEFINE u == <<a>> \o <<b>>
  <2> DEFINE v == <<a, b>>
  <2>1. Len(<<a>>) = 1 /\ Len(<<b>>) = 1 /\ v \in Seq(Message) /\ Len(v) = 2
    OBVIOUS
  <2>2. u \in Seq(Message) /\ Len(u) = 2
    BY <1>1, <2>1, ConcatFacts
  <2>3. u[1] = a /\ u[2] = b /\ v[1] = a /\ v[2] = b
    OBVIOUS
  <2> HIDE DEF u, v
  <2>4. \A i \in 1..Len(u) : u[i] = v[i]
    BY <2>1, <2>2, <2>3
  <2> QED
    BY <2>1, <2>2, <2>4, SeqEqual DEF u, v
<1>3. <<a, b, c>> = <<a, b>> \o <<c>>
  <2> DEFINE u == <<a, b>> \o <<c>>
  <2> DEFINE v == <<a, b, c>>
  <2>1. <<a, b>> \in Seq(Message) /\ Len(<<a, b>>) = 2 /\ Len(<<c>>) = 1
          /\ v \in Seq(Message) /\ Len(v) = 3
    OBVIOUS
  <2>2. u \in Seq(Message) /\ Len(u) = 3
    BY <1>1, <2>1, ConcatFacts
  <2>3. u[1] = a /\ u[2] = b /\ u[3] = c /\ v[1] = a /\ v[2] = b /\ v[3] = c
    OBVIOUS
  <2> HIDE DEF u, v
  <2>4. \A i \in 1..Len(u) : u[i] = v[i]
    BY <2>1, <2>2, <2>3
  <2> QED
    BY <2>1, <2>2, <2>4, SeqEqual DEF u, v
<1> QED
  BY <1>1, <1>2, <1>3

----------------------------------------------------------------------------
(* Sequences of commands                                                    *)

\* The command is in the sequence once at most.
Once(s, c) == \A i, j \in DOMAIN s : s[i] = c /\ s[j] = c => i = j

LEMMA CommandsInTail ==
  ASSUME NEW s \in Seq(Calls), s # <<>>
  PROVE  /\ Head(s) \in Range(s) /\ Range(Tail(s)) \subseteq Range(s)
         /\ Range(s) \subseteq Range(Tail(s)) \cup {Head(s)}
         /\ \A c : Once(s, c) => Once(Tail(s), c)
         /\ Once(s, Head(s)) => Head(s) \notin Range(Tail(s))
<1>1. /\ Head(s) = s[1] /\ Len(s) \in Nat /\ Len(s) > 0 /\ DOMAIN s = 1..Len(s)
      /\ DOMAIN Tail(s) = 1..(Len(s) - 1)
      /\ \A i \in 1..(Len(s) - 1) : Tail(s)[i] = s[i + 1]
  BY TailFacts
<1> DEFINE u == Tail(s)
<1> HIDE DEF u
<1>2. \A j \in DOMAIN u : j + 1 \in DOMAIN s /\ j + 1 # 1 /\ u[j] = s[j + 1]
  BY <1>1 DEF u
<1>3. Head(s) \in Range(s)
  BY <1>1 DEF Range
<1>4. Range(u) \subseteq Range(s)
  BY <1>2 DEF Range
<1>5. Range(s) \subseteq Range(u) \cup {Head(s)}
  <2> SUFFICES ASSUME NEW i \in DOMAIN s, i # 1 PROVE s[i] \in Range(u)
    BY <1>1 DEF Range
  <2>1. i - 1 \in DOMAIN u /\ u[i - 1] = s[i]
    <3>1. i - 1 \in 1..(Len(s) - 1) /\ (i - 1) + 1 = i
      BY <1>1
    <3> QED
      BY <3>1, <1>1 DEF u
  <2> QED
    BY <2>1 DEF Range
<1>6. ASSUME NEW c, Once(s, c) PROVE Once(u, c)
  <2> SUFFICES ASSUME NEW i \in DOMAIN u, NEW j \in DOMAIN u, u[i] = c, u[j] = c PROVE i = j
    BY DEF Once
  <2>1. i + 1 = j + 1
    BY <1>2, <1>6 DEF Once
  <2> QED
    BY <2>1, <1>1 DEF u
<1>7. ASSUME Once(s, Head(s)) PROVE Head(s) \notin Range(u)
  <2>1. 1 \in DOMAIN s
    BY <1>1
  <2> QED
    BY <2>1, <1>1, <1>2, <1>7 DEF Once, Range
<1> QED
  BY <1>3, <1>4, <1>5, <1>6, <1>7 DEF u

LEMMA CommandsInAppend ==
  ASSUME NEW s \in Seq(Calls), NEW e \in Calls
  PROVE  /\ Range(Append(s, e)) = Range(s) \cup {e}
         /\ \A c : Once(s, c) /\ (c = e => c \notin Range(s)) => Once(Append(s, e), c)
<1>1. /\ Len(s) \in Nat
      /\ DOMAIN s = 1..Len(s) /\ DOMAIN Append(s, e) = 1..(Len(s) + 1)
      /\ \A i \in 1..Len(s) : Append(s, e)[i] = s[i]
      /\ Append(s, e)[Len(s) + 1] = e
  BY AppendFacts
<1>2. 1..(Len(s) + 1) = (1..Len(s)) \cup {Len(s) + 1}
  BY <1>1
<1> DEFINE u == Append(s, e)
<1> HIDE DEF u
<1>3. DOMAIN u = DOMAIN s \cup {Len(s) + 1} /\ u[Len(s) + 1] = e
        /\ \A i \in DOMAIN s : u[i] = s[i]
  BY <1>1, <1>2 DEF u
<1>4. Range(u) = Range(s) \cup {e}
  BY <1>3 DEF Range
<1>5. ASSUME NEW c, Once(s, c), c = e => c \notin Range(s) PROVE Once(u, c)
  BY <1>3, <1>5 DEF Once, Range
<1> QED
  BY <1>4, <1>5 DEF u

----------------------------------------------------------------------------
(* The invariant                                                            *)

Handled == carriedOut \cup refused

\* Messages that name a call only if the charger has handled its command, and
\* give a reason only if it refused it.
Honest ==
  {m \in Message :
     m.kind = "relay" /\ m.id # NoCall =>
       m.id \in Handled /\ (m.rejected => m.id \in refused)}

IdInv ==
  /\ inbox \in Seq(Honest) /\ outbox \in Seq(Honest)
  /\ retained \in [RetainedKinds -> Seq(Honest)]
  /\ requestId # NoCall => requestId \in Handled

\* What a call's answer says of its command, and what has not begun for a call
\* that was not made.
CallInv ==
  \A c \in Calls :
    /\ call[c].stage = "made" /\ call[c].answer = "none" => c \in pending
    /\ call[c].answer = "rejected" => c \in refused
    /\ call[c].answer \in {"on", "off"} => c \in Handled
    /\ call[c].stage = "new" =>
         /\ c \notin pending /\ c \notin watched /\ c \notin Handled
         /\ c \notin Range(outgoing) /\ c \notin Range(toDevice)

\* The command of a call that missed nothing is under way once, or is over.
CommandsInv ==
  /\ ~apiUp => watched = {}
  /\ \A c \in watched :
       /\ Once(outgoing, c) /\ Once(toDevice, c)
       /\ c \in Range(outgoing) => c \notin Range(toDevice) /\ c \notin Handled
       /\ c \in Range(toDevice) => c \notin Handled

\* What the command of a call provoked: a refusal, or the state it asked for.
Own(c) == {m \in Message : m.kind = "relay" /\ (m.rejected \/ (c \in carriedOut /\ m.on = call[c].on))}

\* The first message with the id of a call that waits and missed nothing is the
\* one its command provoked; those under the id the charger keeps come behind.
Waits(c) ==
  /\ FirstIsIn(inbox, c, Own(c))
  /\ Quiet(inbox, c) => FirstIsIn(outbox, c, Own(c))
  /\ requestId = c => ~Quiet(inbox, c) \/ ~Quiet(outbox, c)

WaitsInv == \A c \in watched : c \in pending => Waits(c)

SwitchedInv ==
  \A c \in watched :
    /\ call[c].answer = "on" => c \in carriedOut /\ call[c].on = TRUE
    /\ call[c].answer = "off" => c \in carriedOut /\ call[c].on = FALSE

\* The messages of a kind that are true of the charger.
TrueOf(k) ==
  {m \in Message :
     /\ m.kind = k
     /\ k = "status" => m.online = TRUE
     /\ k = "relay" => m.on = relay
     /\ k = "tx" => (charging => m.tx = Session)}

Believed(k) ==
  /\ k = "status" => known.online = TRUE
  /\ k = "relay" => known.relay = relay
  /\ k = "tx" => (charging => known.transaction = Session)

\* The last word about each kind is true, wherever it is: it waits at the
\* charger, or is retained and waits for the API, or is believed.
KindInv(k) ==
  \/ LastIsIn(outbox, k, TrueOf(k))
  \/ /\ Silent(outbox, k)
     /\ LastIsIn(retained[k], k, TrueOf(k))
     /\ apiUp => LastIsIn(inbox, k, TrueOf(k)) \/ (Silent(inbox, k) /\ Believed(k))

KnownInv ==
  /\ \A k \in RetainedKinds : \A i \in DOMAIN retained[k] : retained[k][i].kind = k
  /\ deviceUp => \A k \in RetainedKinds : KindInv(k)

IInv ==
  /\ TypeOK
  /\ IdInv
  /\ CallInv
  /\ CommandsInv
  /\ WaitsInv
  /\ SwitchedInv
  /\ KnownInv

----------------------------------------------------------------------------
(* The messages are honest                                                  *)

\* Steps that leave the charger's words and the broker's alone.
LEMMA ApiOnly ==
  ASSUME \/ \E c \in Calls, on, force \in BOOLEAN : SetRelay(c, on, force)
         \/ \E c \in Calls : Timeout(c)
         \/ Receive \/ ApiConnect \/ ApiDisconnect \/ ApiRestart \/ TakeCommand
         \/ UNCHANGED vars
  PROVE  UNCHANGED <<retained, deviceUp, contactor, outbox, history>>
  BY DEF SetRelay, Timeout, Receive, ApiConnect, ApiDisconnect, ApiRestart, LoseApiLink,
     TakeCommand, contactor, counters, history, vars

LEMMA HandledGrows ==
  ASSUME DataTypes, [Next]_vars
  PROVE  carriedOut \subseteq carriedOut' /\ refused \subseteq refused'
<1>1. CASE HandleCommand
  <2>1. \/ Refuse(Head(toDevice))
        \/ Switch(Head(toDevice), charging /\ ~call[Head(toDevice)].on)
    BY <1>1, Zenon DEF HandleCommand
  <2> QED
    BY <2>1 DEF Refuse, Switch
<1>2. CASE ~HandleCommand
  <2>1. UNCHANGED history
    BY <1>2, ApiOnly DEF Next, Api, Broker, Device, TakeReport, DeviceConnect,
      DeviceDisconnect,
       DeviceReset, LoseDevice, StartSession, EndSession
  <2> QED
    BY <2>1 DEF history
<1> QED
  BY <1>1, <1>2

LEMMA HonestGrows ==
  ASSUME DataTypes, [Next]_vars
  PROVE  Honest \subseteq Honest'
  BY HandledGrows DEF Honest, Handled

LEMMA HonestWords ==
  ASSUME DataTypes, IdInv
  PROVE  /\ \A on \in BOOLEAN : Status(on) \in Honest /\ RelayState(on, requestId) \in Honest
         /\ TxState(Session) \in Honest /\ TxState(NoTx) \in Honest /\ ThisTx \in Honest
<1>1. ASSUME NEW on \in BOOLEAN PROVE Status(on) \in Honest /\ RelayState(on, requestId) \in Honest
  <2>1. Status(on) \in Message /\ RelayState(on, requestId) \in Message
    BY MessagesTyped DEF DataTypes
  <2>2. Status(on).kind = "status"
    BY DEF Status
  <2>3. RelayState(on, requestId).id = requestId /\ RelayState(on, requestId).rejected = FALSE
    BY DEF RelayState, RelayMessage
  <2> QED
    BY <2>1, <2>2, <2>3 DEF Honest, IdInv
<1>2. TxState(Session) \in Honest /\ TxState(NoTx) \in Honest
  <2>1. TxState(Session) \in Message /\ TxState(NoTx) \in Message
    BY MessagesTyped DEF NoCall
  <2>2. TxState(Session).kind = "tx" /\ TxState(NoTx).kind = "tx"
    BY DEF TxState
  <2> QED
    BY <2>1, <2>2 DEF Honest
<1> QED
  BY <1>1, <1>2 DEF ThisTx

LEMMA HonestPublished ==
  ASSUME DataTypes, IdInv, NEW messages \in Seq(Honest), Len(messages) \in {1, 2},
         Publish(messages)
  PROVE  /\ retained' \in [RetainedKinds -> Seq(Honest)] /\ inbox' \in Seq(Honest)
<1>1. Honest \subseteq Message
  BY DEF Honest
<1>2. messages \in Seq(Message) /\ retained \in [RetainedKinds -> Seq(Message)]
  BY <1>1, LargerSet DEF DataTypes
<1>3. inbox' \in Seq(Honest)
  BY ConcatFacts DEF Publish, IdInv
<1>4. retained' = RetainAll(retained, messages) /\ retained' = [k \in RetainedKinds |-> retained'[k]]
  BY DEF Publish, RetainAll
<1>5. \A i \in DOMAIN messages : messages[i] \in Honest
  OBVIOUS
<1>6. ASSUME NEW k \in RetainedKinds PROVE retained'[k] \in Seq(Honest)
  <2>1. CASE retained'[k] = retained[k]
    BY <2>1 DEF IdInv
  <2>2. ASSUME NEW i \in DOMAIN messages, retained'[k] = <<messages[i]>>
        PROVE  retained'[k] \in Seq(Honest)
    BY <1>5, <2>2, LiteralFacts
  <2> QED
    BY <1>2, <1>4, <2>1, <2>2, RetainsLast
<1> QED
  BY <1>3, <1>4, <1>6

LEMMA IdStep ==
  ASSUME DataTypes, Switches, IdInv, [Next]_vars
  PROVE  IdInv'
<1>0. /\ inbox \in Seq(Honest') /\ outbox \in Seq(Honest')
      /\ retained \in [RetainedKinds -> Seq(Honest')]
      /\ requestId # NoCall => requestId \in Handled'
      /\ \A s \in Seq(Honest) : s \in Seq(Honest')
  <2>1. Honest \subseteq Honest' /\ Handled \subseteq Handled'
    BY HonestGrows, HandledGrows DEF Handled
  <2>2. \A s \in Seq(Honest) : s \in Seq(Honest')
    BY <2>1, LargerSet
  <2> QED
    BY <2>1, <2>2 DEF IdInv
<1>1. SUFFICES /\ inbox' \in Seq(Honest') /\ outbox' \in Seq(Honest')
               /\ retained' \in [RetainedKinds -> Seq(Honest')]
               /\ requestId' # NoCall => requestId' \in Handled'
  BY DEF IdInv
<1>2. ASSUME \/ \E c \in Calls, on, force \in BOOLEAN : SetRelay(c, on, force)
             \/ \E c \in Calls : Timeout(c)
             \/ Receive \/ ApiConnect \/ ApiDisconnect \/ ApiRestart \/ TakeCommand
             \/ UNCHANGED vars
      PROVE  IdInv'
  <2>1. UNCHANGED <<retained, outbox, requestId>>
    BY <1>2, ApiOnly DEF contactor
  <2>2. inbox' \in Seq(Honest')
    <3>1. CASE UNCHANGED inbox
      BY <1>0, <3>1
    <3>2. CASE Receive
      BY <1>0, <3>2, TailFacts DEF Receive
    <3>3. CASE ApiConnect
      <4>1. retained["status"] \o retained["relay"] \in Seq(Honest')
        BY <1>0, ConcatFacts DEF RetainedKinds
      <4>2. OnSubscribe(retained) \in Seq(Honest')
        BY <1>0, <4>1, ConcatFacts DEF RetainedKinds, OnSubscribe
      <4> QED
        BY <3>3, <4>2 DEF ApiConnect
    <3>4. CASE inbox' = <<>>
      BY <3>4
    <3> QED
      BY <1>2, <3>1, <3>2, <3>3, <3>4 DEF SetRelay, Timeout, ApiDisconnect, ApiRestart,
         LoseApiLink, TakeCommand, vars
  <2> QED
    BY <1>0, <2>1, <2>2 DEF IdInv
<1>3. CASE TakeReport
  <2>1. Head(outbox) \in Honest /\ outbox' \in Seq(Honest')
    BY <1>0, <1>3, TailFacts DEF TakeReport, IdInv
  <2>2. <<Head(outbox)>> \in Seq(Honest) /\ Len(<<Head(outbox)>>) = 1
    BY <2>1, LiteralFacts
  <2>3. retained' \in [RetainedKinds -> Seq(Honest)] /\ inbox' \in Seq(Honest)
    BY <1>3, <2>2, HonestPublished DEF TakeReport
  <2> QED
    BY <1>0, <1>3, <2>1, <2>3 DEF TakeReport, contactor
<1>4. CASE LoseDevice /\ (UNCHANGED <<outbox, requestId>> \/ (outbox' = <<>> /\ requestId' = NoCall))
  <2>1. PICK words \in LastWords(outbox) : Publish(words)
    BY <1>4 DEF LoseDevice
  <2>2. words \in Seq(Honest) /\ Len(words) \in {1, 2}
    <3>1. Status(FALSE) \in Honest
      BY HonestWords
    <3>2. CASE words = <<Status(FALSE)>>
      BY <3>1, <3>2, LiteralFacts
    <3>3. CASE outbox # <<>> /\ words = <<Head(outbox), Status(FALSE)>>
      <4>1. Head(outbox) \in Honest
        BY <3>3, TailFacts DEF IdInv
      <4> QED
        BY <3>1, <3>3, <4>1, LiteralFacts
    <3> QED
      BY <3>2, <3>3 DEF LastWords
  <2>3. retained' \in [RetainedKinds -> Seq(Honest)] /\ inbox' \in Seq(Honest)
    BY <2>1, <2>2, HonestPublished
  <2>4. outbox' \in Seq(Honest') /\ (requestId' # NoCall => requestId' \in Handled')
    <3>1. <<>> \in Seq(Honest')
      OBVIOUS
    <3> QED
      BY <1>0, <1>4, <3>1
  <2> QED
    BY <1>0, <2>3, <2>4
<1>5. CASE DeviceConnect
  <2>1. <<Status(TRUE), RelayState(relay, requestId), ThisTx>> \in Seq(Honest)
    BY HonestWords, LiteralFacts DEF Switches
  <2> QED
    BY <1>0, <1>5, <2>1, ConcatFacts DEF DeviceConnect, contactor
<1>6. CASE HandleCommand
  <2>1. PICK c \in Calls : c = Head(toDevice)
    BY <1>6, TailFacts DEF HandleCommand, DataTypes
  <2>2. UNCHANGED <<inbox, retained>>
    BY <1>6 DEF HandleCommand
  <2>3. CASE Refuse(c)
    <3>1. RelayMessage(relay, c, TRUE) \in Honest'
      <4>1. RelayMessage(relay, c, TRUE) \in Message
        BY MessagesTyped DEF Switches
      <4>2. RelayMessage(relay, c, TRUE).id = c
        BY DEF RelayMessage
      <4>3. c \in refused'
        BY <2>3 DEF Refuse
      <4> QED
        BY <4>1, <4>2, <4>3 DEF Honest, Handled
    <3>2. outbox' \in Seq(Honest')
      BY <1>0, <2>3, <3>1, LiteralFacts, ConcatFacts DEF Refuse, Says
    <3>3. requestId' \in Handled'
      BY <2>3 DEF Refuse, Handled
    <3> QED
      BY <1>0, <2>2, <3>2, <3>3
  <2>4. ASSUME NEW ends, Switch(c, ends)
        PROVE  IdInv'
    <3>1. RelayState(call[c].on, c) \in Honest'
      <4>1. RelayState(call[c].on, c) \in Message
        BY MessagesTyped, CallsTyped
      <4>2. RelayState(call[c].on, c).id = c /\ RelayState(call[c].on, c).rejected = FALSE
        BY DEF RelayState, RelayMessage
      <4>3. c \in carriedOut'
        BY <2>4 DEF Switch
      <4> QED
        BY <4>1, <4>2, <4>3 DEF Honest, Handled
    <3>2. <<RelayState(call[c].on, c)>> \in Seq(Honest')
      BY <3>1, LiteralFacts
    <3>3. <<RelayState(FALSE, requestId)>> \in Seq(Honest')
      BY <1>0, HonestWords, LiteralFacts
    <3>4. (IF ends THEN <<RelayState(FALSE, requestId)>> ELSE <<>>) \in Seq(Honest')
      <4>1. <<>> \in Seq(Honest')
        OBVIOUS
      <4> QED
        BY <3>3, <4>1, Zenon
    <3>5. outbox' \in Seq(Honest')
      BY <1>0, <2>4, <3>2, <3>4, ConcatFacts DEF Switch, Says
    <3>6. requestId' \in Handled'
      BY <2>4 DEF Switch, Handled
    <3> QED
      BY <1>0, <2>2, <3>5, <3>6 DEF IdInv
  <2> QED
    BY <1>6, <2>1, <2>3, <2>4, Zenon DEF HandleCommand, IdInv
<1>7. ASSUME NEW a \in Honest, NEW b \in Honest, Says(<<a, b>>),
             UNCHANGED <<inbox, retained, requestId>>
      PROVE  IdInv'
  <2>1. <<a, b>> \in Seq(Honest')
    BY <1>0, LiteralFacts
  <2> QED
    BY <1>0, <1>7, <2>1, ConcatFacts DEF Says, IdInv
<1>8. CASE StartSession \/ EndSession
  BY <1>7, <1>8, HonestWords DEF StartSession, EndSession, IdInv
<1> QED
  BY <1>2, <1>3, <1>4, <1>5, <1>6, <1>8 DEF IdInv, Next, Api, Broker, Device,
    DeviceDisconnect,
     DeviceReset

----------------------------------------------------------------------------
(* Calls and commands                                                       *)

LEMMA PassOnFacts ==
  ASSUME DataTypes, NEW c \in Calls, PassOn(c)
  PROVE  /\ Range(toDevice') \subseteq Range(toDevice) \cup {c}
         /\ \A d : Once(toDevice, d) /\ (d = c => d \notin Range(toDevice)) => Once(toDevice', d)
<1>1. toDevice' = toDevice \/ toDevice' = Append(toDevice, c)
  BY DEF PassOn
<1> QED
  BY <1>1, CommandsInAppend DEF DataTypes

LEMMA EmptyFacts ==
  Range(<<>>) = {} /\ \A c : Once(<<>>, c)
BY DEF Range, Once

LEMMA LoseApiLinkCommands ==
  ASSUME DataTypes, LoseApiLink
  PROVE  Range(toDevice') \subseteq Range(toDevice) \cup Range(outgoing)
<1>1. CASE UNCHANGED toDevice
  BY <1>1
<1>2. CASE outgoing # <<>> /\ PassOn(Head(outgoing))
  <2>1. Head(outgoing) \in Range(outgoing) /\ Head(outgoing) \in Calls
    BY <1>2, CommandsInTail, TailFacts DEF DataTypes
  <2> QED
    BY <1>2, <2>1, PassOnFacts
<1> QED
  BY <1>1, <1>2 DEF LoseApiLink

LEMMA CallStep ==
  ASSUME DataTypes, Switches, IdInv, CallInv, [Next]_vars
  PROVE  CallInv'
<1>0. carriedOut \subseteq carriedOut' /\ refused \subseteq refused' /\ Handled \subseteq Handled'
  BY HandledGrows DEF Handled
<1>1. ASSUME NEW c \in Calls, NEW on, NEW force, SetRelay(c, on, force)
      PROVE  CallInv'
  <2> DEFINE ends == IF ~apiUp THEN "unavailable"
                     ELSE IF known.online = FALSE THEN "offline" ELSE "none"
  <2>1. /\ call' = [call EXCEPT ![c] =
             [stage |-> "made", on |-> on, force |-> force, answer |-> ends]]
        /\ ends = "none" => c \in pending'
        /\ pending' \subseteq pending \cup {c}
    BY <1>1 DEF SetRelay
  <2>2. ends \in {"unavailable", "offline", "none"}
    OBVIOUS
  <2> HIDE DEF ends
  <2>3. Range(outgoing') \subseteq Range(outgoing) \cup {c}
    <3>1. outgoing' = outgoing \/ outgoing' = Append(outgoing, c)
      BY <1>1 DEF SetRelay
    <3> QED
      BY <3>1, CommandsInAppend DEF DataTypes
  <2>4. UNCHANGED <<toDevice, carriedOut,
                    refused>> /\ watched' \subseteq watched \cup {c}
          /\ pending \subseteq pending'
    BY <1>1 DEF SetRelay, history
  <2>5. Handled' = Handled
    BY <2>4 DEF Handled
  <2>6. ASSUME NEW d \in Calls, d # c
        PROVE  call'[d] = call[d]
    BY <2>1, <2>6 DEF DataTypes
  <2>7. call'[c].stage = "made" /\ call'[c].answer = ends
    BY <2>1 DEF DataTypes
  <2> QED
    BY <2>1, <2>2, <2>3, <2>4, <2>5, <2>6, <2>7 DEF CallInv
<1>2. ASSUME NEW c \in Calls, NEW how, Settle(c, how), how # "none",
             how = "rejected" => c \in refused, how \in {"on", "off"} => c \in Handled,
             UNCHANGED <<outgoing, toDevice, watched, carriedOut, refused>>
      PROVE  CallInv'
  <2>1. \A d \in Calls : /\ call'[d].stage = call[d].stage
                         /\ call'[d].answer = IF d = c THEN how ELSE call[d].answer
    BY <1>2 DEF Settle, DataTypes, Call
  <2>2. pending' = pending \ {c} /\ Handled' = Handled
    BY <1>2 DEF Settle, Handled
  <2> QED
    BY <1>2, <2>1, <2>2 DEF CallInv
<1>3. ASSUME UNCHANGED <<call, pending, watched>>,
             Range(outgoing') \subseteq Range(outgoing),
             Range(toDevice') \subseteq Range(toDevice) \cup Range(outgoing),
             Handled' \subseteq Handled \cup Range(toDevice)
      PROVE  CallInv'
  BY <1>0, <1>3 DEF CallInv
<1>4. ASSUME NEW c \in Calls, Timeout(c) PROVE CallInv'
  BY <1>2, <1>4 DEF Timeout, apiClient, history
<1>5. CASE Receive
  <2>1. UNCHANGED <<outgoing, toDevice, watched, carriedOut, refused>>
    BY <1>5 DEF Receive, apiClient, history
  <2>2. CASE UNCHANGED <<call, pending>>
    BY <1>3, <2>1, <2>2 DEF Handled
  <2>3. CASE /\ Head(inbox).kind = "relay" /\ Head(inbox).id \in pending
             /\ Settle(Head(inbox).id, Answer(Head(inbox)))
    <3>1. Head(inbox) \in Honest
      BY <1>5, TailFacts DEF Receive, IdInv
    <3>2. Head(inbox).id \in Calls /\ Head(inbox).id # NoCall
      <4>1. NoCall \notin Calls
        BY DEF Calls, NoCall
      <4> QED
        BY <2>3, <4>1 DEF DataTypes
    <3>3. /\ Answer(Head(inbox)) \in {"rejected", "on", "off"}
          /\ Answer(Head(inbox)) = "rejected" => Head(inbox).rejected
      BY DEF Answer
    <3>4. Head(inbox).id \in Handled /\ (Head(inbox).rejected => Head(inbox).id \in refused)
      BY <2>3, <3>1, <3>2 DEF Honest
    <3> QED
      BY <1>2, <2>1, <2>3, <3>2, <3>3, <3>4
  <2> QED
    BY <1>5, <2>2, <2>3 DEF Receive
<1>6. CASE ApiConnect
  BY <1>3, <1>6 DEF ApiConnect, api, history, Handled
<1>7. CASE ApiDisconnect
  <2>1. LoseApiLink /\ UNCHANGED <<call, pending, outgoing, carriedOut,
                                   refused>> /\ watched' = {}
    BY <1>7 DEF ApiDisconnect, LoseApiLink, api, history
  <2>2. Handled' = Handled
    BY <2>1 DEF Handled
  <2> QED
    BY <2>1, <2>2, LoseApiLinkCommands DEF CallInv
<1>8. CASE ApiRestart
  <2>1. LoseApiLink /\ pending' = {} /\ outgoing' = <<>> /\ watched' = {}
          /\ UNCHANGED <<carriedOut, refused>>
    BY <1>8 DEF ApiRestart, LoseApiLink, history
  <2>2. \A c \in Calls :
          /\ call'[c].answer = call[c].answer
          /\ call'[c].stage # "made"
          /\ call'[c].stage = "new" => call[c].stage = "new"
    BY <1>8 DEF ApiRestart, DataTypes, Call
  <2>3. Handled' = Handled
    BY <2>1 DEF Handled
  <2> QED
    BY <2>1, <2>2, <2>3, LoseApiLinkCommands, EmptyFacts DEF CallInv
<1>9. CASE TakeCommand
  <2>1. Head(outgoing) \in Calls /\ Head(outgoing) \in Range(outgoing)
          /\ Range(outgoing') \subseteq Range(outgoing)
    BY <1>9, CommandsInTail, TailFacts DEF TakeCommand, DataTypes
  <2>2. Range(toDevice') \subseteq Range(toDevice) \cup Range(outgoing)
    BY <1>9, <2>1, PassOnFacts DEF TakeCommand
  <2> QED
    BY <1>3, <1>9, <2>1, <2>2 DEF TakeCommand, api, history, Handled
<1>10. CASE LoseDevice
  BY <1>3, <1>10, EmptyFacts DEF LoseDevice, api, apiClient, history, Handled
<1>11. CASE HandleCommand
  <2>1. Head(toDevice) \in Range(toDevice) /\ Range(toDevice') \subseteq Range(toDevice)
    BY <1>11, CommandsInTail DEF HandleCommand, DataTypes
  <2>2. Handled' \subseteq Handled \cup {Head(toDevice)}
    <3>1. \/ Refuse(Head(toDevice))
          \/ Switch(Head(toDevice), charging /\ ~call[Head(toDevice)].on)
      BY <1>11, Zenon DEF HandleCommand
    <3> QED
      BY <3>1 DEF Refuse, Switch, Handled
  <2> QED
    BY <1>3, <1>11, <2>1, <2>2 DEF HandleCommand, api, apiClient
<1>12. CASE UNCHANGED <<call, pending, watched, outgoing, toDevice, carriedOut,
                        refused>>
  BY <1>3, <1>12 DEF Handled
<1>13. CASE TakeReport \/ DeviceConnect \/ StartSession \/ EndSession \/ UNCHANGED vars
  BY <1>12, <1>13 DEF TakeReport, DeviceConnect, StartSession, EndSession, vars, api,
    apiClient,
     history
<1> QED
  BY <1>1, <1>4, <1>5, <1>6, <1>7, <1>8, <1>9, <1>10, <1>11, <1>13
  DEF Next, Api, Broker, Device, DeviceDisconnect, DeviceReset

LEMMA CommandsStep ==
  ASSUME DataTypes, Switches, CallInv, CommandsInv, [Next]_vars
  PROVE  CommandsInv'
<1>1. ASSUME NEW c \in Calls, NEW on, NEW force, SetRelay(c, on, force)
      PROVE  CommandsInv'
  <2>1. c \notin watched /\ c \notin Handled /\ c \notin Range(outgoing) /\ c \notin Range(toDevice)
    BY <1>1 DEF SetRelay, CallInv
  <2>2. UNCHANGED <<apiUp, toDevice, carriedOut, refused>>
          /\ watched' \subseteq watched \cup {c} /\ (~apiUp => watched' = watched)
          /\ (outgoing' = outgoing \/ outgoing' = Append(outgoing, c))
    BY <1>1 DEF SetRelay, history
  <2>3. Handled' = Handled
    BY <2>2 DEF Handled
  <2>4. Range(outgoing') \subseteq Range(outgoing) \cup {c}
          /\ \A d : Once(outgoing, d) => Once(outgoing', d)
    <3>1. CASE outgoing' = Append(outgoing, c)
      <4>1. outgoing \in Seq(Calls)
        BY DEF DataTypes
      <4> QED
        BY <2>1, <3>1, <4>1, CommandsInAppend
    <3> QED
      BY <2>2, <3>1
  <2>5. Once(outgoing, c) /\ Once(toDevice, c)
    BY <2>1 DEF Once, Range
  <2> QED
    BY <2>1, <2>2, <2>3, <2>4, <2>5 DEF CommandsInv
<1>2. ASSUME UNCHANGED <<apiUp, watched, carriedOut, refused, outgoing, toDevice>>
      PROVE  CommandsInv'
  BY <1>2 DEF CommandsInv, Handled
<1>3. CASE watched' = {}
  BY <1>3 DEF CommandsInv
<1>4. CASE TakeCommand
  <2> DEFINE c == Head(outgoing)
  <2>1. c \in Calls /\ c \in Range(outgoing)
          /\ Range(outgoing') \subseteq Range(outgoing)
          /\ (\A d : Once(outgoing, d) => Once(outgoing', d))
          /\ (Once(outgoing, c) => c \notin Range(outgoing'))
    BY <1>4, CommandsInTail, TailFacts DEF TakeCommand, DataTypes
  <2>2. PassOn(c) /\ UNCHANGED <<apiUp, watched, carriedOut, refused>>
    BY <1>4 DEF TakeCommand, history
  <2> HIDE DEF c
  <2>3. Range(toDevice') \subseteq Range(toDevice) \cup {c}
         /\ \A d : Once(toDevice, d) /\ (d = c => d \notin Range(toDevice)) => Once(toDevice', d)
    BY <2>1, <2>2, PassOnFacts
  <2>4. Handled' = Handled
    BY <2>2 DEF Handled
  <2> QED
    BY <2>1, <2>2, <2>3, <2>4 DEF CommandsInv
<1>5. CASE LoseDevice
  <2>1. UNCHANGED <<apiUp, watched, carriedOut, refused, outgoing>> /\ toDevice' = <<>>
    BY <1>5 DEF LoseDevice, api, apiClient, history
  <2> QED
    BY <2>1, EmptyFacts DEF CommandsInv, Handled
<1>6. CASE HandleCommand
  <2> DEFINE c == Head(toDevice)
  <2>1. c \in Range(toDevice) /\ Range(toDevice') \subseteq Range(toDevice)
          /\ (\A d : Once(toDevice, d) => Once(toDevice', d))
          /\ (Once(toDevice, c) => c \notin Range(toDevice'))
    BY <1>6, CommandsInTail DEF HandleCommand, DataTypes
  <2>2. Handled' \subseteq Handled \cup {c}
    <3>1. \/ Refuse(Head(toDevice))
          \/ Switch(Head(toDevice), charging /\ ~call[Head(toDevice)].on)
      BY <1>6, Zenon DEF HandleCommand
    <3> QED
      BY <3>1 DEF Refuse, Switch, Handled
  <2>3. UNCHANGED <<apiUp, watched, outgoing>>
    BY <1>6 DEF HandleCommand, apiClient
  <2> HIDE DEF c
  <2> QED
    BY <2>1, <2>2, <2>3 DEF CommandsInv
<1>7. CASE \/ \E c \in Calls : Timeout(c)
           \/ Receive \/ TakeReport \/ DeviceConnect \/ StartSession \/ EndSession
           \/ UNCHANGED vars
  BY <1>2, <1>7 DEF Timeout, Receive, TakeReport, DeviceConnect, StartSession,
    EndSession, vars,
     apiClient, history
<1>8. CASE ApiConnect
  BY <1>8 DEF ApiConnect, history, Handled, CommandsInv
<1>9. CASE ApiDisconnect \/ ApiRestart
  BY <1>3, <1>9 DEF ApiDisconnect, ApiRestart, LoseApiLink
<1> QED
  BY <1>1, <1>4, <1>5, <1>6, <1>7, <1>8, <1>9
  DEF Next, Api, Broker, Device, DeviceDisconnect, DeviceReset

----------------------------------------------------------------------------
(* Calls that wait, and calls that resolved                                 *)

\* The arguments of a call that was made stay.
LEMMA ArgumentsKept ==
  ASSUME DataTypes, NEW c \in Calls, call[c].stage # "new", [Next]_vars
  PROVE  call'[c].on = call[c].on
<1>1. ASSUME NEW d \in Calls, NEW on, NEW force, SetRelay(d, on, force)
      PROVE  call'[c].on = call[c].on
  BY <1>1 DEF SetRelay, DataTypes
<1>2. ASSUME NEW d, NEW how, Settle(d, how)
      PROVE  call'[c].on = call[c].on
  BY <1>2 DEF Settle, DataTypes, Call
<1>3. CASE ApiRestart
  BY <1>3 DEF ApiRestart, DataTypes, Call
<1>4. CASE \E d \in Calls : Timeout(d)
  BY <1>2, <1>4 DEF Timeout
<1>5. CASE Receive
  BY <1>2, <1>5 DEF Receive
<1>6. CASE \/ ApiConnect \/ ApiDisconnect \/ Broker \/ Device \/ UNCHANGED vars
  BY <1>6 DEF ApiConnect, ApiDisconnect, Broker, Device, TakeCommand, TakeReport,
    DeviceConnect,
     DeviceDisconnect, DeviceReset, LoseDevice, HandleCommand, StartSession, EndSession, api, vars
<1> QED
  BY <1>1, <1>3, <1>4, <1>5, <1>6 DEF Next, Api

LEMMA OwnGrows ==
  ASSUME DataTypes, CallInv, [Next]_vars, NEW c \in watched
  PROVE  /\ Own(c) \subseteq Own(c)'
         /\ \A s : FirstIsIn(s, c, Own(c)) => FirstIsIn(s, c, Own(c)')
<1>1. c \in Calls /\ call[c].stage # "new"
  BY DEF CallInv, DataTypes
<1>2. Own(c) \subseteq Own(c)'
  BY <1>1, ArgumentsKept, HandledGrows DEF Own
<1> QED
  BY <1>2, LargerSet

\* Nothing names a call whose command was not handled.
LEMMA Unheard ==
  ASSUME DataTypes, IdInv, NEW c \in Calls, c \notin Handled
  PROVE  Quiet(inbox, c) /\ Quiet(outbox, c) /\ requestId # c
<1>1. c # NoCall
  BY DEF Calls, NoCall
<1>2. \A m \in Honest : ~Names(m, c)
  BY <1>1 DEF Honest, Names
<1>3. \A s \in Seq(Honest) : \A i \in DOMAIN s : s[i] \in Honest
  OBVIOUS
<1> QED
  BY <1>1, <1>2, <1>3 DEF Quiet, IdInv

\* The charger may speak under the id it keeps: that call has been answered.
LEMMA SaysKeeps ==
  ASSUME DataTypes, CallInv, [Next]_vars, NEW c \in watched, Waits(c),
         NEW messages \in Seq(Message), Says(messages), UNCHANGED inbox,
         requestId # c => Quiet(messages, c) /\ requestId' # c
  PROVE  Waits(c)'
<1>1. outbox' = outbox \o messages /\ outbox \in Seq(Message)
  BY DEF Says, DataTypes
<1>2. FirstIsIn(inbox, c, Own(c)')
  BY OwnGrows DEF Waits
<1>3. ASSUME Quiet(inbox, c) PROVE FirstIsIn(outbox', c, Own(c)')
  <2>1. FirstIsIn(outbox, c, Own(c)')
    BY <1>3, OwnGrows DEF Waits
  <2>2. CASE Quiet(outbox, c)
    <3>1. Quiet(messages, c)
      BY <1>3, <2>2 DEF Waits
    <3> QED
      BY <1>1, <2>2, <3>1, QuietFacts, FirstInConcat
  <2>3. CASE ~Quiet(outbox, c)
    BY <1>1, <2>1, <2>3, FirstInConcat
  <2> QED
    BY <2>2, <2>3
<1>4. requestId' = c => ~Quiet(inbox, c) \/ ~Quiet(outbox', c)
  BY <1>1, FirstInConcat DEF Waits
<1> QED
  BY <1>2, <1>3, <1>4 DEF Waits

\* Messages arrive at the API.
LEMMA ArrivesKeeps ==
  ASSUME DataTypes, CallInv, [Next]_vars, NEW c \in watched, Waits(c),
         NEW messages \in Seq(Message), inbox' = inbox \o messages,
         Quiet(inbox, c) => /\ FirstIsIn(messages, c, Own(c))
                            /\ Quiet(messages, c) => FirstIsIn(outbox', c, Own(c))
                            /\ requestId' = c => ~Quiet(messages, c) \/ ~Quiet(outbox', c)
  PROVE  Waits(c)'
<1>1. inbox \in Seq(Message)
  BY DEF DataTypes
<1>2. FirstIsIn(inbox', c, Own(c)')
  <2>1. CASE Quiet(inbox, c)
    BY <1>1, <2>1, OwnGrows, FirstInConcat
  <2>2. CASE ~Quiet(inbox, c)
    <3>1. FirstIsIn(inbox, c, Own(c)')
      BY OwnGrows DEF Waits
    <3> QED
      BY <1>1, <2>2, <3>1, FirstInConcat
  <2> QED
    BY <2>1, <2>2
<1>3. Quiet(inbox', c) <=> Quiet(inbox, c) /\ Quiet(messages, c)
  BY <1>1, FirstInConcat
<1>4. Quiet(inbox', c) => FirstIsIn(outbox', c, Own(c)')
  BY <1>3, OwnGrows
<1>5. requestId' = c => ~Quiet(inbox', c) \/ ~Quiet(outbox', c)
  BY <1>3
<1> QED
  BY <1>2, <1>4, <1>5 DEF Waits

LEMMA WaitsStep ==
  ASSUME DataTypes, Switches, IdInv, CallInv, CommandsInv, WaitsInv, [Next]_vars
  PROVE  WaitsInv'
<1>1. SUFFICES ASSUME NEW c \in watched', c \in pending' PROVE Waits(c)'
  BY DEF WaitsInv
<1>2. ASSUME NEW d \in Calls, NEW on, NEW force, SetRelay(d, on, force)
      PROVE  Waits(c)'
  <2>1. UNCHANGED <<inbox, outbox, requestId>>
    BY <1>2 DEF SetRelay, contactor
  <2>2. CASE c = d
    <3>1. d \notin Handled
      BY <1>2 DEF SetRelay, CallInv
    <3>2. Quiet(inbox, d) /\ Quiet(outbox, d) /\ requestId # d
      BY <3>1, Unheard
    <3> QED
      BY <2>1, <2>2, <3>2, QuietFacts DEF Waits
  <2>3. CASE c # d
    <3>1. c \in watched /\ c \in pending
      BY <1>1, <1>2, <2>3 DEF SetRelay
    <3>2. Waits(c)
      BY <3>1 DEF WaitsInv
    <3> QED
      BY <2>1, <3>1, <3>2, OwnGrows DEF Waits
  <2> QED
    BY <2>2, <2>3
<1>3. ASSUME watched' \subseteq watched, pending' \subseteq pending,
             UNCHANGED <<inbox, outbox, requestId>>
      PROVE  Waits(c)'
  <2>1. c \in watched /\ Waits(c)
    BY <1>1, <1>3 DEF WaitsInv
  <2> QED
    BY <1>3, <2>1, OwnGrows DEF Waits
<1>4. CASE \/ \E d \in Calls : Timeout(d)
           \/ TakeCommand \/ UNCHANGED vars
  BY <1>3, <1>4 DEF Timeout, Settle, TakeCommand, api, contactor, vars
<1>5. CASE Receive
  <2>1. inbox # <<>> /\ inbox' = Tail(inbox) /\ UNCHANGED <<watched, outbox, requestId>>
    BY <1>5 DEF Receive, contactor
  <2>2. /\ pending' \subseteq pending
        /\ Names(Head(inbox), c) /\ c \in pending => c \notin pending'
    BY <1>5 DEF Receive, Settle, Names
  <2>3. c \in watched /\ Waits(c) /\ ~Names(Head(inbox), c)
    BY <1>1, <2>1, <2>2 DEF WaitsInv
  <2>4. FirstIsIn(inbox', c, Own(c)) /\ (Quiet(inbox', c) <=> Quiet(inbox, c))
    BY <2>1, <2>3, FirstInTail DEF Waits, DataTypes
  <2> QED
    BY <2>1, <2>3, <2>4, OwnGrows DEF Waits
<1>6. CASE ApiConnect
  BY <1>1, <1>6 DEF ApiConnect, CommandsInv
<1>7. CASE ApiDisconnect \/ ApiRestart
  BY <1>1, <1>7 DEF ApiDisconnect, ApiRestart, LoseApiLink
<1>8. ASSUME UNCHANGED <<watched, pending, apiUp>>
      PROVE  c \in watched /\ Waits(c) /\ apiUp
  BY <1>1, <1>8 DEF WaitsInv, CommandsInv
<1>9. CASE TakeReport
  <2>1. c \in watched /\ Waits(c) /\ apiUp
    BY <1>8, <1>9 DEF TakeReport, api, apiClient
  <2> DEFINE m == Head(outbox)
  <2>2. m \in Message /\ outbox # <<>> /\ outbox' = Tail(outbox) /\ outbox \in Seq(Message)
    BY <1>9, TailFacts DEF TakeReport, DataTypes
  <2>3. inbox' = inbox \o <<m>> /\ UNCHANGED requestId
    BY <1>9, <2>1 DEF TakeReport, Publish, contactor
  <2> HIDE DEF m
  <2>4. <<m>> \in Seq(Message) /\ (Quiet(<<m>>, c) <=> ~Names(m, c))
    BY <2>2, OneMessage, LiteralFacts
  <2>5. ASSUME Quiet(inbox, c)
        PROVE  /\ FirstIsIn(<<m>>, c, Own(c))
               /\ Quiet(<<m>>, c) => FirstIsIn(outbox', c, Own(c))
               /\ requestId' = c => ~Quiet(<<m>>, c) \/ ~Quiet(outbox', c)
    <3>1. FirstIsIn(outbox, c, Own(c)) /\ (requestId = c => ~Quiet(outbox, c))
      BY <2>1, <2>5 DEF Waits
    <3>2. /\ Names(m, c) => m \in Own(c)
          /\ ~Names(m, c) => FirstIsIn(outbox', c, Own(c)) /\ (Quiet(outbox', c) <=> Quiet(outbox, c))
      BY <2>2, <3>1, FirstInTail DEF m
    <3>3. FirstIsIn(<<m>>, c, Own(c))
      BY <2>2, <3>2, OneMessage
    <3> QED
      BY <2>3, <2>4, <3>1, <3>2, <3>3
  <2> QED
    BY <2>1, <2>3, <2>4, <2>5, ArrivesKeeps
<1>10. CASE LoseDevice /\ (UNCHANGED <<outbox, requestId>> \/ (outbox' = <<>> /\ requestId' = NoCall))
  <2>1. c \in watched /\ Waits(c) /\ apiUp
    BY <1>8, <1>10 DEF LoseDevice, api, apiClient
  <2>2. PICK words \in LastWords(outbox) : Publish(words)
    BY <1>10 DEF LoseDevice
  <2>3. words \in Seq(Message) /\ inbox' = inbox \o words
    BY <2>1, <2>2, LastWordsTyped DEF Publish, DataTypes
  <2>4. Status(FALSE) \in Message /\ ~Names(Status(FALSE), c)
    BY MessagesTyped DEF Status, Names, NoCall
  <2>5. ASSUME Quiet(inbox, c)
        PROVE  /\ FirstIsIn(words, c, Own(c))
               /\ Quiet(words, c) => FirstIsIn(outbox', c, Own(c))
               /\ requestId' = c => ~Quiet(words, c) \/ ~Quiet(outbox', c)
    <3>1. FirstIsIn(outbox, c, Own(c)) /\ (requestId = c => ~Quiet(outbox, c))
      BY <2>1, <2>5 DEF Waits
    <3>2. FirstIsIn(words, c, Own(c))
      <4>1. CASE words = <<Status(FALSE)>>
        BY <2>4, <4>1, OneMessage
      <4>2. CASE outbox # <<>> /\ words = <<Head(outbox), Status(FALSE)>>
        <5>1. Head(outbox) \in Message /\ (Names(Head(outbox), c) => Head(outbox) \in Own(c))
          BY <3>1, <4>2, TailFacts, FirstInTail DEF DataTypes
        <5>2. words = <<Head(outbox)>> \o <<Status(FALSE)>>
                /\ <<Head(outbox)>> \in Seq(Message) /\ <<Status(FALSE)>> \in Seq(Message)
          BY <2>4, <4>2, <5>1, LiteralParts
        <5>3. FirstIsIn(<<Head(outbox)>>, c, Own(c)) /\ FirstIsIn(<<Status(FALSE)>>, c, Own(c))
          BY <2>4, <5>1, OneMessage
        <5> QED
          BY <5>2, <5>3, FirstInConcat
      <4> QED
        BY <2>2, <4>1, <4>2 DEF LastWords
    <3>3. FirstIsIn(<<>>, c, Own(c)) /\ NoCall # c
      BY <2>1 DEF FirstIsIn, NoCall, Calls, DataTypes
    <3> QED
      BY <1>10, <3>1, <3>2, <3>3
  <2> QED
    BY <2>1, <2>3, <2>5, ArrivesKeeps
<1>11. CASE DeviceConnect
  <2>1. c \in watched /\ Waits(c)
    BY <1>8, <1>11 DEF DeviceConnect, api, apiClient
  <2> DEFINE a == Status(TRUE)
  <2> DEFINE b == RelayState(relay, requestId)
  <2> DEFINE d == ThisTx
  <2>2. /\ a \in Message /\ b \in Message /\ d \in Message
        /\ ~Names(a, c) /\ ~Names(d, c) /\ (requestId # c => ~Names(b, c))
    <3>1. a \in Message /\ b \in Message /\ d \in Message
      BY MessagesTyped DEF DataTypes, Switches
    <3> QED
      BY <3>1 DEF Status, ThisTx, TxState, RelayState, RelayMessage, Names
  <2>3. Says(<<a, b, d>>) /\ UNCHANGED <<inbox, requestId>>
    BY <1>11 DEF DeviceConnect, Says, contactor
  <2> HIDE DEF a, b, d
  <2>4. <<a, b, d>> \in Seq(Message) /\ (requestId # c => Quiet(<<a, b, d>>, c))
    <3>1. /\ <<a>> \in Seq(Message) /\ <<b>> \in Seq(Message) /\ <<d>> \in Seq(Message)
          /\ <<a>> \o <<b>> \in Seq(Message) /\ <<a, b, d>> = (<<a>> \o <<b>>) \o <<d>>
      BY <2>2, LiteralParts
    <3>2. Quiet(<<a>>, c) /\ Quiet(<<d>>, c) /\ (requestId # c => Quiet(<<b>>, c))
      BY <2>2, OneMessage
    <3>3. requestId # c => Quiet(<<a>> \o <<b>>, c)
      BY <3>1, <3>2, FirstInConcat
    <3>4. requestId # c => Quiet((<<a>> \o <<b>>) \o <<d>>, c)
      BY <3>1, <3>2, <3>3, FirstInConcat
    <3> QED
      BY <2>2, <3>1, <3>4, LiteralFacts
  <2> QED
    BY <2>1, <2>3, <2>4, SaysKeeps
<1>12. ASSUME NEW a \in Message, NEW b \in Message, Says(<<a, b>>),
              requestId # c => ~Names(a, c) /\ ~Names(b, c),
              UNCHANGED <<inbox, requestId, watched, pending, apiUp>>
       PROVE  Waits(c)'
  <2>1. c \in watched /\ Waits(c)
    BY <1>8, <1>12
  <2>2. <<a>> \in Seq(Message) /\ <<b>> \in Seq(Message) /\ <<a, b>> = <<a>> \o <<b>>
          /\ <<a, b>> \in Seq(Message)
    BY LiteralParts
  <2>3. requestId # c => Quiet(<<a>>, c) /\ Quiet(<<b>>, c)
    BY <1>12, OneMessage
  <2>4. requestId # c => Quiet(<<a, b>>, c)
    BY <2>2, <2>3, FirstInConcat
  <2> QED
    BY <1>12, <2>1, <2>2, <2>4, SaysKeeps
<1>13. CASE StartSession \/ EndSession
  <2>1. /\ \A on \in BOOLEAN : /\ RelayState(on, requestId) \in Message
                               /\ requestId # c => ~Names(RelayState(on, requestId), c)
        /\ TxState(Session) \in Message /\ TxState(NoTx) \in Message
        /\ ~Names(TxState(Session), c) /\ ~Names(TxState(NoTx), c)
    <3>1. \A on \in BOOLEAN : /\ RelayState(on, requestId) \in Message
                              /\ TxState(Session) \in Message /\ TxState(NoTx) \in Message
      BY MessagesTyped DEF DataTypes
    <3> QED
      BY <3>1 DEF TxState, RelayState, RelayMessage, Names
  <2>2. UNCHANGED <<inbox, requestId, watched, pending, apiUp>>
    BY <1>13 DEF StartSession, EndSession, api, apiClient
  <2> QED
    BY <1>12, <1>13, <2>1, <2>2 DEF StartSession, EndSession
<1>14. CASE HandleCommand
  <2>1. UNCHANGED <<inbox, watched, pending, apiUp>> /\ c \in watched /\ Waits(c)
    BY <1>8, <1>14 DEF HandleCommand, api, apiClient
  <2>2. PICK h \in Calls : h = Head(toDevice) /\ h \in Range(toDevice)
    BY <1>14, TailFacts, CommandsInTail DEF HandleCommand, DataTypes
  <2>3. c = h => c \notin Handled
    BY <2>1, <2>2 DEF CommandsInv
  <2>4. c = h => Quiet(inbox, c) /\ Quiet(outbox, c) /\ requestId # c
    BY <2>2, <2>3, Unheard
  <2>5. outbox \in Seq(Message)
    BY DEF DataTypes
  <2>6. CASE Refuse(h)
    <3> DEFINE m == RelayMessage(relay, h, TRUE)
    <3>1. m \in Message
      BY MessagesTyped DEF Switches
    <3>2. Says(<<m>>) /\ requestId' = h
      BY <2>6 DEF Refuse
    <3>3. (Names(m, c) <=> c = h) /\ m.kind = "relay" /\ m.rejected = TRUE
      BY DEF RelayMessage, Names
    <3>4. m \in Own(c)'
      BY <3>1, <3>3 DEF Own
    <3> HIDE DEF m
    <3>5. <<m>> \in Seq(Message) /\ FirstIsIn(<<m>>, c, Own(c)') /\ (Quiet(<<m>>, c) <=> c # h)
      BY <3>1, <3>3, <3>4, OneMessage, LiteralFacts
    <3>6. CASE c = h
      <4>1. outbox' = outbox \o <<m>>
        BY <3>2 DEF Says
      <4>2. FirstIsIn(outbox', c, Own(c)') /\ ~Quiet(outbox', c)
        BY <2>4, <2>5, <3>5, <3>6, <4>1, FirstInConcat
      <4> QED
        BY <2>1, <2>4, <3>6, <4>2, OwnGrows DEF Waits
    <3>7. CASE c # h
      BY <2>1, <3>2, <3>5, <3>7, SaysKeeps
    <3> QED
      BY <3>6, <3>7
  <2>7. ASSUME NEW ends, Switch(h, ends)
        PROVE  Waits(c)'
    <3> DEFINE m == RelayState(call[h].on, h)
    <3> DEFINE first == IF ends THEN <<RelayState(FALSE, requestId)>> ELSE <<>>
    <3>1. m \in Message /\ RelayState(FALSE, requestId) \in Message
      BY MessagesTyped, CallsTyped DEF DataTypes
    <3>2. Says(first \o <<m>>) /\ requestId' = h /\ h \in carriedOut'
      BY <2>7 DEF Switch
    <3>3. (Names(m, c) <=> c = h) /\ m.kind = "relay" /\ m.on = call[h].on
            /\ (requestId # c => ~Names(RelayState(FALSE, requestId), c))
      BY DEF RelayState, RelayMessage, Names
    <3>4. call' = call
      BY <1>14 DEF HandleCommand, api
    <3>5. c = h => m \in Own(c)'
      BY <3>1, <3>2, <3>3, <3>4 DEF Own
    <3>6. first \in Seq(Message) /\ (requestId # c => Quiet(first, c))
      <4>1. CASE first = <<RelayState(FALSE, requestId)>>
        BY <3>1, <3>3, <4>1, OneMessage, LiteralFacts
      <4>2. CASE first = <<>>
        <5> HIDE DEF first
        <5>1. <<>> \in Seq(Message) /\ Quiet(<<>>, c)
          BY DEF Quiet
        <5> QED
          BY <4>2, <5>1
      <4>3. first = <<RelayState(FALSE, requestId)>> \/ first = <<>>
        BY Zenon
      <4> HIDE DEF first
      <4> QED
        BY <4>1, <4>2, <4>3
    <3> HIDE DEF m, first
    <3>7. <<m>> \in Seq(Message) /\ FirstIsIn(<<m>>, c, Own(c)') /\ (Quiet(<<m>>, c) <=> c # h)
      BY <3>1, <3>3, <3>5, OneMessage, LiteralFacts
    <3>8. first \o <<m>> \in Seq(Message)
      BY <3>6, <3>7, ConcatFacts
    <3>9. CASE c = h
      <4>1. outbox' = outbox \o (first \o <<m>>)
        BY <3>2 DEF Says
      <4>2. FirstIsIn(first \o <<m>>, c, Own(c)') /\ ~Quiet(first \o <<m>>, c)
        BY <2>4, <3>6, <3>7, <3>9, FirstInConcat
      <4>3. FirstIsIn(outbox', c, Own(c)') /\ ~Quiet(outbox', c)
        BY <2>4, <2>5, <3>8, <3>9, <4>1, <4>2, FirstInConcat
      <4> QED
        BY <2>1, <2>4, <3>9, <4>3, OwnGrows DEF Waits
    <3>10. CASE c # h
      <4>1. requestId # c => Quiet(first \o <<m>>, c)
        BY <3>6, <3>7, <3>10, FirstInConcat
      <4> QED
        BY <2>1, <3>2, <3>8, <3>10, <4>1, SaysKeeps
    <3> QED
      BY <3>9, <3>10
  <2>8. Refuse(h) \/ \E ends \in BOOLEAN : Switch(h, ends)
    <3>1. Refuse(h) \/ Switch(h, charging /\ ~call[h].on)
      BY <1>14, <2>2, Zenon DEF HandleCommand
    <3> QED
      BY <3>1, Zenon
  <2> QED
    BY <2>6, <2>7, <2>8
<1> QED
  BY <1>2, <1>4, <1>5, <1>6, <1>7, <1>9, <1>10, <1>11, <1>13, <1>14
  DEF Next, Api, Broker, Device, DeviceDisconnect, DeviceReset

LEMMA SwitchedStep ==
  ASSUME DataTypes, IdInv, CallInv, CommandsInv, WaitsInv, SwitchedInv, [Next]_vars
  PROVE  SwitchedInv'
<1>0. carriedOut \subseteq carriedOut'
  BY HandledGrows
<1>1. ASSUME NEW d \in Calls, NEW on, NEW force, SetRelay(d, on, force)
      PROVE  SwitchedInv'
  <2>1. /\ \A c \in Calls : c # d => call'[c] = call[c]
        /\ call'[d].answer \notin {"on", "off"}
    BY <1>1 DEF SetRelay, DataTypes
  <2>2. watched' \subseteq watched \cup {d}
    BY <1>1 DEF SetRelay
  <2> QED
    BY <1>0, <2>1, <2>2 DEF SwitchedInv, DataTypes
<1>2. ASSUME NEW d \in Calls, NEW how, Settle(d, how), UNCHANGED watched,
             d \in watched /\ how = "on" => d \in carriedOut /\ call[d].on = TRUE,
             d \in watched /\ how = "off" => d \in carriedOut /\ call[d].on = FALSE
      PROVE  SwitchedInv'
  <2>1. \A c \in Calls : /\ call'[c].on = call[c].on
                         /\ call'[c].answer = IF c = d THEN how ELSE call[c].answer
    BY <1>2 DEF Settle, DataTypes, Call
  <2> QED
    BY <1>0, <1>2, <2>1 DEF SwitchedInv, DataTypes
<1>3. CASE \E d \in Calls : Timeout(d)
  BY <1>2, <1>3 DEF Timeout
<1>4. CASE Receive
  <2> DEFINE m == Head(inbox)
  <2>1. inbox # <<>> /\ UNCHANGED watched /\ m \in Message
    BY <1>4, TailFacts DEF Receive, DataTypes
  <2>2. CASE UNCHANGED call
    BY <1>0, <2>1, <2>2 DEF SwitchedInv
  <2>3. CASE m.kind = "relay" /\ m.id \in pending /\ Settle(m.id, Answer(m))
    <3>1. m.id \in watched => m \in Own(m.id)
      <4>1. Names(m, m.id)
        BY <2>3 DEF Names
      <4>2. m.id \in watched => FirstIsIn(inbox, m.id, Own(m.id))
        BY <2>3 DEF WaitsInv, Waits
      <4>3. inbox \in Seq(Message)
        BY DEF DataTypes
      <4> HIDE DEF m
      <4> QED
        BY <2>1, <4>1, <4>2, <4>3, FirstInTail DEF m
    <3>2. m.on \in BOOLEAN /\ m.rejected \in BOOLEAN
      BY <2>1, <2>3, KindsOfMessages
    <3>3. /\ m.rejected = FALSE \/ Answer(m) = "rejected"
          /\ Answer(m) = "on" => m.on = TRUE
          /\ Answer(m) = "off" => m.on = FALSE
      BY <3>2 DEF Answer
    <3>4. m.id \in watched /\ Answer(m) # "rejected" => m.id \in carriedOut /\ m.on = call[m.id].on
      BY <3>1, <3>3 DEF Own
    <3>5. m.id \in Calls
      BY <2>3 DEF DataTypes
    <3> HIDE DEF m
    <3> QED
      BY <1>2, <2>1, <2>3, <3>3, <3>4, <3>5
  <2> QED
    BY <1>4, <2>2, <2>3 DEF Receive
<1>5. CASE watched' = {}
  BY <1>5 DEF SwitchedInv
<1>6. CASE ApiDisconnect \/ ApiRestart
  BY <1>5, <1>6 DEF ApiDisconnect, ApiRestart, LoseApiLink
<1>7. CASE UNCHANGED <<call, watched>>
  BY <1>0, <1>7 DEF SwitchedInv
<1>8. CASE ApiConnect \/ Broker \/ Device \/ UNCHANGED vars
  BY <1>7, <1>8 DEF ApiConnect, Broker, Device, TakeCommand, TakeReport, DeviceConnect,
     DeviceDisconnect, DeviceReset, LoseDevice, HandleCommand, StartSession, EndSession, api, vars
<1> QED
  BY <1>1, <1>3, <1>4, <1>6, <1>8 DEF Next, Api

----------------------------------------------------------------------------
(* What the API believes                                                    *)

\* The charger says the last word about the kind, or what was said stays true.
LEMMA KindSpoken ==
  ASSUME DataTypes, NEW k \in RetainedKinds, KindInv(k),
         NEW messages \in Seq(Message), Says(messages),
         UNCHANGED <<inbox, retained, apiUp>>,
         \/ LastIsIn(messages, k, TrueOf(k)')
         \/ Silent(messages, k) /\ TrueOf(k) \subseteq TrueOf(k)' /\ (Believed(k) => Believed(k)')
  PROVE  KindInv(k)'
<1>1. outbox \in Seq(Message) /\ outbox' = outbox \o messages
  BY DEF DataTypes, Says
<1>2. CASE LastIsIn(messages, k, TrueOf(k)')
  BY <1>1, <1>2, LastInConcat DEF KindInv
<1>3. CASE Silent(messages, k) /\ TrueOf(k) \subseteq TrueOf(k)' /\ (Believed(k) => Believed(k)')
  <2>1. \A s : LastIsIn(s, k, TrueOf(k)) => LastIsIn(s, k, TrueOf(k)')
    BY <1>3, LargerSet
  <2>2. LastIsIn(outbox, k, TrueOf(k)) => LastIsIn(outbox', k, TrueOf(k)')
    BY <1>1, <1>3, <2>1, LastInConcat
  <2>3. Silent(outbox, k) => Silent(outbox', k)
    BY <1>1, <1>3, LastInConcat
  <2> QED
    BY <1>3, <2>1, <2>2, <2>3 DEF KindInv
<1> QED
  BY <1>2, <1>3

\* What is retained keeps its kind.
LEMMA PublishedKinds ==
  ASSUME DataTypes, KnownInv, NEW messages \in Seq(Message), Len(messages) \in {1, 2},
         Publish(messages)
  PROVE  \A k \in RetainedKinds : \A i \in DOMAIN retained'[k] : retained'[k][i].kind = k
<1> SUFFICES ASSUME NEW k \in RetainedKinds
             PROVE  \A i \in DOMAIN retained'[k] : retained'[k][i].kind = k
  OBVIOUS
<1>1. retained' = RetainAll(retained, messages) /\ retained \in [RetainedKinds -> Seq(Message)]
  BY DEF Publish, DataTypes
<1>2. CASE retained'[k] = retained[k]
  BY <1>2 DEF KnownInv
<1>3. ASSUME NEW i \in DOMAIN messages, messages[i].kind = k, retained'[k] = <<messages[i]>>
      PROVE  \A j \in DOMAIN retained'[k] : retained'[k][j].kind = k
  BY <1>3
<1> QED
  BY <1>1, <1>2, <1>3, RetainsLast

LEMMA KnownStep ==
  ASSUME DataTypes, Switches, KnownInv, [Next]_vars
  PROVE  KnownInv'
<1> DEFINE Kinds == \A k \in RetainedKinds : \A i \in DOMAIN retained[k] : retained[k][i].kind = k
<1>1. ASSUME UNCHANGED <<inbox, known, outbox, retained, relay, charging, deviceUp>>,
             apiUp' => apiUp
      PROVE  KnownInv'
  <2>1. \A k : TrueOf(k)' = TrueOf(k) /\ (Believed(k)' <=> Believed(k))
    BY <1>1 DEF TrueOf, Believed
  <2> QED
    BY <1>1, <2>1 DEF KnownInv, KindInv
<1>2. ASSUME UNCHANGED <<outbox, retained, relay, charging, deviceUp>>, ~apiUp'
      PROVE  KnownInv'
  <2>1. \A k : TrueOf(k)' = TrueOf(k)
    BY <1>2 DEF TrueOf
  <2> QED
    BY <1>2, <2>1 DEF KnownInv, KindInv
<1>3. CASE \/ \E c \in Calls, on, force \in BOOLEAN : SetRelay(c, on, force)
           \/ \E c \in Calls : Timeout(c)
           \/ TakeCommand \/ UNCHANGED vars
  BY <1>1, <1>3 DEF SetRelay, Timeout, TakeCommand, api, apiClient, contactor, vars
<1>4. CASE ApiDisconnect \/ ApiRestart
  BY <1>2, <1>4 DEF ApiDisconnect, ApiRestart, LoseApiLink, contactor
<1>5. CASE Receive
  <2> DEFINE m == Head(inbox)
  <2>1. inbox # <<>> /\ inbox' = Tail(inbox) /\ inbox \in Seq(Message) /\ m \in Message
          /\ known' = applyMessage(known, m)
          /\ UNCHANGED <<apiUp, outbox, retained, relay, charging, deviceUp>>
    BY <1>5, TailFacts DEF Receive, DataTypes, apiClient, contactor
  <2>2. \A k : TrueOf(k)' = TrueOf(k)
    BY <2>1 DEF TrueOf
  <2>3. ASSUME NEW k \in RetainedKinds, m.kind = k, m \in TrueOf(k)
        PROVE  Believed(k)'
    <3> HIDE DEF m
    <3> QED
      BY <2>1, <2>3 DEF TrueOf, Believed, applyMessage, RetainedKinds, DataTypes, Views
  <2>4. ASSUME NEW k \in RetainedKinds, m.kind # k, Believed(k)
        PROVE  Believed(k)'
    <3> HIDE DEF m
    <3>1. m.kind \in RetainedKinds
      BY <2>1, KindsOfMessages
    <3> QED
      BY <2>1, <2>4, <3>1 DEF Believed, applyMessage, RetainedKinds, DataTypes, Views
  <2>5. ASSUME NEW k \in RetainedKinds, KindInv(k)
        PROVE  KindInv(k)'
    <3>1. Silent(inbox, k) => m.kind # k /\ Silent(inbox', k)
      BY <2>1, LastInTail
    <3>2. LastIsIn(inbox, k, TrueOf(k)) =>
            LastIsIn(inbox', k, TrueOf(k)) \/ (m.kind = k /\ m \in TrueOf(k) /\ Silent(inbox', k))
      BY <2>1, LastInTail
    <3> HIDE DEF m
    <3> QED
      BY <2>1, <2>2, <2>3, <2>4, <2>5, <3>1, <3>2 DEF KindInv
  <2> QED
    BY <2>1, <2>5 DEF KnownInv
<1>6. CASE ApiConnect
  <2>1. inbox' = OnSubscribe(retained) /\ UNCHANGED <<outbox, retained, relay, charging,
                                                      deviceUp>>
    BY <1>6 DEF ApiConnect, contactor
  <2>2. \A k : TrueOf(k)' = TrueOf(k)
    BY <2>1 DEF TrueOf
  <2> DEFINE a == retained["status"]
  <2> DEFINE b == retained["relay"]
  <2> DEFINE d == retained["tx"]
  <2>3. a \in Seq(Message) /\ b \in Seq(Message) /\ d \in Seq(Message) /\ a \o b \in Seq(Message)
          /\ inbox' = (a \o b) \o d
    BY <2>1, ConcatFacts DEF DataTypes, RetainedKinds, OnSubscribe
  <2>4. /\ \A k : k # "status" => Silent(a, k)
        /\ \A k : k # "relay" => Silent(b, k)
        /\ \A k : k # "tx" => Silent(d, k)
    BY DEF KnownInv, Silent, RetainedKinds
  <2>5. ASSUME NEW k \in RetainedKinds, LastIsIn(retained[k], k, TrueOf(k))
        PROVE  LastIsIn(inbox', k, TrueOf(k))
    <3> HIDE DEF a, b, d
    <3>1. CASE k = "status"
      <4>1. LastIsIn(a, k, TrueOf(k)) /\ Silent(b, k) /\ Silent(d, k)
        BY <2>4, <2>5, <3>1 DEF a
      <4>2. LastIsIn(a \o b, k, TrueOf(k))
        BY <2>3, <4>1, LastInConcat
      <4> QED
        BY <2>3, <4>1, <4>2, LastInConcat
    <3>2. CASE k = "relay"
      <4>1. LastIsIn(b, k, TrueOf(k)) /\ Silent(d, k)
        BY <2>4, <2>5, <3>2 DEF b
      <4>2. LastIsIn(a \o b, k, TrueOf(k))
        BY <2>3, <4>1, LastInConcat
      <4> QED
        BY <2>3, <4>1, <4>2, LastInConcat
    <3>3. CASE k = "tx"
      <4>1. LastIsIn(d, k, TrueOf(k))
        BY <2>5, <3>3 DEF d
      <4> QED
        BY <2>3, <4>1, LastInConcat
    <3> QED
      BY <3>1, <3>2, <3>3 DEF RetainedKinds
  <2> HIDE DEF a, b, d
  <2> QED
    BY <2>1, <2>2, <2>5 DEF KnownInv, KindInv
<1>7. CASE TakeReport
  <2> DEFINE m == Head(outbox)
  <2>1. outbox # <<>> /\ outbox' = Tail(outbox) /\ outbox \in Seq(Message) /\ inbox \in Seq(Message)
          /\ m \in Message /\ Publish(<<m>>)
          /\ UNCHANGED <<apiUp, known, relay, charging, deviceUp>>
    BY <1>7, TailFacts DEF TakeReport, DataTypes, api, apiClient, contactor
  <2>2. \A k : TrueOf(k)' = TrueOf(k) /\ (Believed(k)' <=> Believed(k))
    BY <2>1 DEF TrueOf, Believed
  <2> HIDE DEF m
  <2>3. <<m>> \in Seq(Message) /\ Len(<<m>>) \in {1, 2} /\ DOMAIN <<m>> = {1} /\ <<m>>[1] = m
    BY <2>1, LiteralFacts
  <2>4. Kinds'
    BY <2>1, <2>3, PublishedKinds
  <2>5. ASSUME NEW k \in RetainedKinds
        PROVE  IF m.kind = k THEN retained'[k] = <<m>> ELSE retained'[k] = retained[k]
    <3>1. retained' = RetainAll(retained, <<m>>) /\ retained \in [RetainedKinds -> Seq(Message)]
      BY <2>1 DEF Publish, DataTypes
    <3>2. \/ /\ RetainAll(retained, <<m>>)[k] = retained[k]
             /\ \A i \in DOMAIN <<m>> : <<m>>[i].kind # k
          \/ \E i \in DOMAIN <<m>> :
               <<m>>[i].kind = k /\ RetainAll(retained, <<m>>)[k] = <<(<<m>>[i])>>
      BY <2>3, <3>1, RetainsLast
    <3> QED
      BY <2>3, <3>1, <3>2
  <2>6. apiUp => inbox' = inbox \o <<m>>
    BY <2>1 DEF Publish
  <2>7. ASSUME NEW k \in RetainedKinds, KindInv(k)
        PROVE  KindInv(k)'
    <3>1. /\ Silent(outbox, k) => m.kind # k /\ Silent(outbox', k)
          /\ LastIsIn(outbox, k, TrueOf(k)) =>
               LastIsIn(outbox', k, TrueOf(k)) \/ (m.kind = k /\ m \in TrueOf(k) /\ Silent(outbox', k))
      BY <2>1, LastInTail DEF m
    <3>2. CASE LastIsIn(outbox', k, TrueOf(k))
      BY <2>2, <3>2 DEF KindInv
    <3>3. CASE m.kind = k /\ m \in TrueOf(k) /\ Silent(outbox', k)
      <4>1. LastIsIn(<<m>>, k, TrueOf(k)) /\ retained'[k] = <<m>>
        BY <2>1, <2>5, <3>3, OneMessage
      <4>2. apiUp => LastIsIn(inbox', k, TrueOf(k))
        BY <2>1, <2>3, <2>6, <4>1, LastInConcat
      <4> QED
        BY <2>1, <2>2, <3>3, <4>1, <4>2 DEF KindInv
    <3>4. CASE Silent(outbox, k) /\ LastIsIn(retained[k], k, TrueOf(k)) /\
               (apiUp => LastIsIn(inbox, k, TrueOf(k)) \/ (Silent(inbox, k) /\ Believed(k)))
      <4>1. m.kind # k /\ Silent(outbox', k) /\ retained'[k] = retained[k] /\ Silent(<<m>>, k)
        BY <2>1, <2>5, <3>1, <3>4, OneMessage
      <4>2. apiUp => LastIsIn(inbox', k, TrueOf(k)) \/ (Silent(inbox', k) /\ Believed(k))
        <5>1. /\ LastIsIn(inbox, k, TrueOf(k)) => LastIsIn(inbox \o <<m>>, k, TrueOf(k))
              /\ Silent(inbox, k) => Silent(inbox \o <<m>>, k)
          BY <2>1, <2>3, <4>1, LastInConcat
        <5> QED
          BY <2>6, <3>4, <5>1
      <4> QED
        BY <2>1, <2>2, <3>4, <4>1, <4>2 DEF KindInv
    <3> QED
      BY <2>7, <3>1, <3>2, <3>3, <3>4 DEF KindInv
  <2> QED
    BY <2>1, <2>4, <2>7 DEF KnownInv
<1>8. CASE LoseDevice
  <2>1. PICK words \in LastWords(outbox) : Publish(words)
    BY <1>8 DEF LoseDevice
  <2>2. words \in Seq(Message) /\ Len(words) \in {1, 2}
    BY LastWordsTyped DEF DataTypes
  <2>3. Kinds'
    BY <2>1, <2>2, PublishedKinds
  <2> QED
    BY <1>8, <2>3 DEF LoseDevice, KnownInv
<1>9. ASSUME UNCHANGED retained, \A k \in RetainedKinds : deviceUp' => KindInv(k)'
      PROVE  KnownInv'
  BY <1>9 DEF KnownInv
<1>10. CASE DeviceConnect
  <2> DEFINE a == Status(TRUE)
  <2> DEFINE b == RelayState(relay, requestId)
  <2> DEFINE d == ThisTx
  <2>1. a \in Message /\ b \in Message /\ d \in Message
    BY MessagesTyped DEF DataTypes, Switches
  <2>2. UNCHANGED <<relay, charging>> /\ outbox' = outbox \o <<a, b, d>> /\ UNCHANGED retained
    BY <1>10 DEF DeviceConnect, contactor
  <2>3. a.kind = "status" /\ b.kind = "relay" /\ d.kind = "tx"
    BY DEF Status, RelayState, RelayMessage, ThisTx, TxState
  <2>4. a \in TrueOf("status")' /\ b \in TrueOf("relay")' /\ d \in TrueOf("tx")'
    <3>1. a.online = TRUE /\ b.on = relay /\ (charging => d.tx = Session)
      BY DEF Status, RelayState, RelayMessage, ThisTx, TxState
    <3> HIDE DEF a, b, d
    <3> QED
      BY <2>1, <2>2, <2>3, <3>1 DEF TrueOf
  <2> HIDE DEF a, b, d
  <2>5. /\ <<a>> \in Seq(Message) /\ <<b>> \in Seq(Message) /\ <<d>> \in Seq(Message)
        /\ <<a>> \o <<b>> \in Seq(Message) /\ <<a, b, d>> = (<<a>> \o <<b>>) \o <<d>>
    BY <2>1, LiteralParts
  <2>6. /\ LastIsIn(<<a>>, "status", TrueOf("status")') /\ LastIsIn(<<b>>, "relay", TrueOf("relay")')
        /\ LastIsIn(<<d>>, "tx", TrueOf("tx")')
        /\ Silent(<<b>>, "status") /\ Silent(<<d>>, "status") /\ Silent(<<d>>, "relay")
    BY <2>1, <2>3, <2>4, OneMessage
  <2>7. /\ LastIsIn(<<a>> \o <<b>>, "status", TrueOf("status")')
        /\ LastIsIn(<<a>> \o <<b>>, "relay", TrueOf("relay")')
    BY <2>5, <2>6, LastInConcat
  <2>8. /\ LastIsIn(<<a, b, d>>, "status", TrueOf("status")')
        /\ LastIsIn(<<a, b, d>>, "relay", TrueOf("relay")')
        /\ LastIsIn(<<a, b, d>>, "tx", TrueOf("tx")')
    BY <2>5, <2>6, <2>7, LastInConcat
  <2>9. outbox \in Seq(Message) /\ <<a, b, d>> \in Seq(Message)
    BY <2>1, LiteralFacts DEF DataTypes
  <2>10. \A k \in RetainedKinds : LastIsIn(outbox', k, TrueOf(k)')
    BY <2>2, <2>8, <2>9, LastInConcat DEF RetainedKinds
  <2> QED
    BY <1>9, <2>2, <2>10 DEF KindInv
<1>11. ASSUME NEW a \in Message, NEW b \in Message, Says(<<a, b>>),
              UNCHANGED <<inbox, retained, apiUp, deviceUp, known>>,
              NEW x \in {"relay", "tx"}, NEW y \in {"relay", "tx"}, x # y,
              a \in TrueOf(x)', b \in TrueOf(y)'
       PROVE  KnownInv'
  <2>1. <<a>> \in Seq(Message) /\ <<b>> \in Seq(Message) /\ <<a, b>> = <<a>> \o <<b>>
          /\ <<a, b>> \in Seq(Message)
    BY LiteralParts
  <2>2. a.kind = x /\ b.kind = y
    BY <1>11 DEF TrueOf
  <2>3. /\ LastIsIn(<<a>>, x, TrueOf(x)') /\ LastIsIn(<<b>>, y, TrueOf(y)')
        /\ Silent(<<a>>, "status") /\ Silent(<<b>>, "status") /\ Silent(<<b>>, x)
    BY <1>11, <2>2, OneMessage
  <2>4. /\ LastIsIn(<<a, b>>, x, TrueOf(x)') /\ LastIsIn(<<a, b>>, y, TrueOf(y)')
        /\ Silent(<<a, b>>, "status")
    <3>1. LastIsIn(<<a>> \o <<b>>, x, TrueOf(x)')
      BY <2>1, <2>3, LastInConcat
    <3>2. LastIsIn(<<a>> \o <<b>>, y, TrueOf(y)')
      BY <2>1, <2>3, LastInConcat
    <3>3. Silent(<<a>> \o <<b>>, "status")
      BY <2>1, <2>3, LastInConcat
    <3> QED
      BY <2>1, <3>1, <3>2, <3>3
  <2>5. TrueOf("status") \subseteq TrueOf("status")' /\ (Believed("status") => Believed("status")')
    BY <1>11 DEF TrueOf, Believed
  <2>6. ASSUME NEW k \in RetainedKinds, KindInv(k) PROVE KindInv(k)'
    <3>1. k \in {x, y, "status"}
      BY <1>11 DEF RetainedKinds
    <3> QED
      BY <1>11, <2>1, <2>4, <2>5, <2>6, <3>1, KindSpoken DEF RetainedKinds
  <2> QED
    BY <1>9, <1>11, <2>6 DEF KnownInv
<1>12. CASE StartSession
  <2>1. /\ Says(<<TxState(Session), RelayState(TRUE, requestId)>>)
        /\ relay' = TRUE
        /\ UNCHANGED <<inbox, retained, apiUp, deviceUp, known>>
    BY <1>12 DEF StartSession, api, apiClient
  <2>2. RelayState(TRUE, requestId) \in Message /\ TxState(Session) \in Message
    BY MessagesTyped DEF DataTypes
  <2>3. RelayState(TRUE, requestId) \in TrueOf("relay")' /\ TxState(Session) \in TrueOf("tx")'
    BY <2>1, <2>2 DEF TrueOf, RelayState, RelayMessage, TxState
  <2> QED
    BY <1>11, <2>1, <2>2, <2>3
<1>13. CASE EndSession
  <2>1. /\ Says(<<RelayState(FALSE, requestId), TxState(NoTx)>>)
        /\ relay' = FALSE /\ charging' = FALSE
        /\ UNCHANGED <<inbox, retained, apiUp, deviceUp, known>>
    BY <1>13 DEF EndSession, api, apiClient
  <2>2. RelayState(FALSE, requestId) \in Message /\ TxState(NoTx) \in Message
    BY MessagesTyped DEF DataTypes
  <2>3. RelayState(FALSE, requestId) \in TrueOf("relay")' /\ TxState(NoTx) \in TrueOf("tx")'
    BY <2>1, <2>2 DEF TrueOf, RelayState, RelayMessage, TxState
  <2> QED
    BY <1>11, <2>1, <2>2, <2>3
<1>14. CASE HandleCommand
  <2>1. UNCHANGED <<inbox, retained, apiUp, deviceUp, known, call>>
    BY <1>14 DEF HandleCommand, api, apiClient
  <2>2. PICK c \in Calls : c = Head(toDevice)
    BY <1>14, TailFacts DEF HandleCommand, DataTypes
  <2>3. ASSUME NEW first \in Seq(Message), NEW m \in Message, Says(first \o <<m>>),
               Silent(first, "status"), Silent(first, "tx"),
               m \in TrueOf("relay")', charging' => charging
        PROVE  KnownInv'
    <3>1. m.kind = "relay" /\ <<m>> \in Seq(Message)
      BY <2>3, LiteralFacts DEF TrueOf
    <3>2. /\ LastIsIn(<<m>>, "relay", TrueOf("relay")')
          /\ Silent(<<m>>, "status") /\ Silent(<<m>>, "tx")
      BY <2>3, <3>1, OneMessage
    <3>3. /\ LastIsIn(first \o <<m>>, "relay", TrueOf("relay")')
          /\ Silent(first \o <<m>>, "status") /\ Silent(first \o <<m>>, "tx")
          /\ first \o <<m>> \in Seq(Message)
      BY <2>3, <3>1, <3>2, LastInConcat, ConcatFacts
    <3>4. /\ TrueOf("status") \subseteq TrueOf("status")' /\ (Believed("status") => Believed("status")')
          /\ TrueOf("tx") \subseteq TrueOf("tx")' /\ (Believed("tx") => Believed("tx")')
      BY <2>1, <2>3 DEF TrueOf, Believed
    <3>5. ASSUME NEW k \in RetainedKinds, KindInv(k) PROVE KindInv(k)'
      BY <2>1, <2>3, <3>3, <3>4, <3>5, KindSpoken DEF RetainedKinds
    <3> QED
      BY <1>9, <2>1, <3>5 DEF KnownInv
  <2>4. CASE Refuse(c)
    <3>1. RelayMessage(relay, c, TRUE) \in Message
      BY MessagesTyped DEF Switches
    <3>2. Says(<<RelayMessage(relay, c, TRUE)>>) /\ UNCHANGED <<relay, charging>>
      BY <2>4 DEF Refuse
    <3>3. RelayMessage(relay, c, TRUE) \in TrueOf("relay")'
      BY <3>1, <3>2 DEF TrueOf, RelayMessage
    <3>4. <<>> \in Seq(Message) /\ Silent(<<>>, "status") /\ Silent(<<>>, "tx")
      BY DEF Silent
    <3>5. <<>> \o <<RelayMessage(relay, c, TRUE)>> = <<RelayMessage(relay, c, TRUE)>>
      BY <3>1, LiteralFacts, ConcatEmptySeq
    <3> QED
      BY <2>3, <3>1, <3>2, <3>3, <3>4, <3>5
  <2>5. ASSUME NEW ends \in BOOLEAN, Switch(c, ends)
        PROVE  KnownInv'
    <3> DEFINE m == RelayState(call[c].on, c)
    <3> DEFINE first == IF ends THEN <<RelayState(FALSE, requestId)>> ELSE <<>>
    <3>1. m \in Message /\ RelayState(FALSE, requestId) \in Message
      BY MessagesTyped, CallsTyped DEF DataTypes
    <3>2. Says(first \o <<m>>) /\ relay' = call[c].on
      BY <2>5 DEF Switch
    <3>3. charging' => charging
      BY <2>5, Zenon DEF Switch
    <3>4. m.kind = "relay" /\ m.on = call[c].on /\ RelayState(FALSE, requestId).kind = "relay"
      BY DEF RelayState, RelayMessage
    <3>5. m \in TrueOf("relay")'
      BY <3>1, <3>2, <3>4 DEF TrueOf
    <3>6. first \in Seq(Message) /\ Silent(first, "status") /\ Silent(first, "tx")
      <4>1. <<RelayState(FALSE, requestId)>> \in Seq(Message)
              /\ Silent(<<RelayState(FALSE, requestId)>>, "status")
              /\ Silent(<<RelayState(FALSE, requestId)>>, "tx")
        BY <3>1, <3>4, OneMessage, LiteralFacts
      <4>2. <<>> \in Seq(Message) /\ Silent(<<>>, "status") /\ Silent(<<>>, "tx")
        BY DEF Silent
      <4> QED
        BY <4>1, <4>2, Zenon
    <3> HIDE DEF m, first
    <3> QED
      BY <2>3, <3>1, <3>2, <3>3, <3>5, <3>6
  <2>6. Refuse(c) \/ \E ends \in BOOLEAN : Switch(c, ends)
    <3>1. Refuse(c) \/ Switch(c, charging /\ ~call[c].on)
      BY <1>14, <2>2, Zenon DEF HandleCommand
    <3> QED
      BY <3>1, Zenon
  <2> QED
    BY <2>4, <2>5, <2>6
<1> QED
  BY <1>3, <1>4, <1>5, <1>6, <1>7, <1>8, <1>10, <1>12, <1>13, <1>14
  DEF Next, Api, Broker, Device, DeviceDisconnect, DeviceReset

----------------------------------------------------------------------------
(* The theorems                                                             *)

\* The invariant, for every number of calls, faults and sessions.
THEOREM InvariantHolds == Spec => []IInv
<1>1. Init => IInv
  <2> SUFFICES ASSUME Init PROVE IInv
    OBVIOUS
  <2>1. TypeOK
    BY TypesAtStart
  <2>2. IdInv
    BY DEF Init, IdInv, NothingRetained
  <2>3. CallInv
    BY EmptyFacts DEF Init, CallInv, NewCall, Handled
  <2>4. CommandsInv
    BY DEF Init, CommandsInv
  <2>5. WaitsInv /\ SwitchedInv
    BY DEF Init, WaitsInv, SwitchedInv
  <2>6. KnownInv
    BY DEF Init, KnownInv, NothingRetained
  <2> QED
    BY <2>1, <2>2, <2>3, <2>4, <2>5, <2>6 DEF IInv
<1>2. IInv /\ [Next]_vars => IInv'
  <2> SUFFICES ASSUME IInv, [Next]_vars PROVE IInv'
    OBVIOUS
  <2>1. DataTypes /\ Switches
    BY TypesSplit DEF IInv
  <2>2. TypeOK'
    BY TypesKept DEF IInv
  <2> QED
    BY <2>1, <2>2, IdStep, CallStep, CommandsStep, WaitsStep, SwitchedStep, KnownStep
      DEF IInv
<1> QED
  BY <1>1, <1>2, PTL DEF Spec

\* ResolvedIsSwitched: a call that missed nothing resolves only if the charger
\* switched on its command, to what it asked for.
THEOREM CallsResolveTruly == Spec => []ResolvedIsSwitched
<1>1. IInv => ResolvedIsSwitched
  <2> SUFFICES ASSUME IInv, NEW c \in watched, Resolved(c)
               PROVE  c \in carriedOut /\ (call[c].answer = "on") = call[c].on
    BY DEF ResolvedIsSwitched
  <2>1. c \in Calls /\ call[c].answer \in Answers
    BY TypesSplit DEF IInv, DataTypes, Call
  <2>2. call[c].answer \in {"on", "off"}
    BY <2>1 DEF Resolved, StatusOf, Answers
  <2>3. CASE call[c].answer = "on"
    <3>1. c \in carriedOut /\ call[c].on = TRUE
      BY <2>3 DEF IInv, SwitchedInv
    <3> QED
      BY <2>3, <3>1, Zenon
  <2>4. CASE call[c].answer = "off"
    <3>1. c \in carriedOut /\ call[c].on = FALSE /\ call[c].answer # "on"
      BY <2>4 DEF IInv, SwitchedInv
    <3> QED
      BY <3>1, Zenon
  <2> QED
    BY <2>2, <2>3, <2>4
<1> QED
  BY <1>1, InvariantHolds, PTL

\* AnswersAreTheDevices: no caller is told of a refusal, or of a switch, unless
\* the charger refused its command, or handled it.
THEOREM AnswersComeFromTheDevice == Spec => []AnswersAreTheDevices
<1>1. IInv => AnswersAreTheDevices
  <2> SUFFICES ASSUME IInv, NEW c \in Calls
               PROVE  /\ StatusOf(call[c].answer) = 409 => c \in refused \/ call[c].answer = "offline"
                      /\ Resolved(c) => c \in carriedOut \cup refused
    BY DEF AnswersAreTheDevices
  <2>1. call[c].answer \in Answers
    BY TypesSplit DEF IInv, DataTypes, Call
  <2>2. /\ StatusOf(call[c].answer) = 409 => call[c].answer \in {"offline", "rejected"}
        /\ Resolved(c) => call[c].answer \in {"on", "off"}
    BY <2>1 DEF Resolved, StatusOf, Answers
  <2> QED
    BY <2>2 DEF IInv, CallInv, Handled
<1> QED
  BY <1>1, InvariantHolds, PTL

\* NobodyWaitsForNothing: whoever waits has a timer, or a command under way.
THEOREM WaitsEndSomewhere == Spec => []NobodyWaitsForNothing
<1>1. IInv => NobodyWaitsForNothing
  BY DEF IInv, CallInv, NobodyWaitsForNothing, Returned
<1> QED
  BY <1>1, InvariantHolds, PTL

\* KnownIsTrue: when all has arrived, the API's picture of the charger is true.
THEOREM PictureIsTrue == Spec => []KnownIsTrue
<1>1. IInv => KnownIsTrue
  <2> SUFFICES ASSUME IInv, Arrived, deviceUp
               PROVE  /\ known.online = TRUE
                      /\ known.relay = relay
                      /\ charging => known.transaction = Session
    BY DEF KnownIsTrue
  <2>1. ASSUME NEW k \in RetainedKinds PROVE Believed(k)
    <3>1. outbox = <<>> /\ inbox = <<>> /\ apiUp /\ KindInv(k)
      BY DEF IInv, KnownInv, Arrived
    <3>2. ~LastIsIn(<<>>, k, TrueOf(k))
      BY DEF LastIsIn
    <3> QED
      BY <3>1, <3>2 DEF KindInv
  <2> QED
    BY <2>1 DEF Believed, RetainedKinds
<1> QED
  BY <1>1, InvariantHolds, PTL
================================================================================
