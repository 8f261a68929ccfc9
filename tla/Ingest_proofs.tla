------------------------------ MODULE Ingest_proofs ------------------------------
(***************************************************************************)
(* Proofs about Ingest, for any transactions, faults and messages waiting. *)
(***************************************************************************)
EXTENDS Ingest, SequenceTheorems, TLAPS

----------------------------------------------------------------------------
(* Sequences                                                                *)

LEMMA TailFacts ==
  ASSUME NEW S, NEW s \in Seq(S), s # <<>>
  PROVE  /\ Head(s) = s[1] /\ s[1] \in S /\ Tail(s) \in Seq(S)
         /\ Len(s) \in Nat /\ Len(s) > 0 /\ DOMAIN s = 1..Len(s)
         /\ Len(Tail(s)) = Len(s) - 1 /\ DOMAIN Tail(s) = 1..(Len(s) - 1)
         /\ \A i \in 1..(Len(s) - 1) : Tail(s)[i] = s[i + 1]
  OBVIOUS

LEMMA ConcatFacts ==
  ASSUME NEW S, NEW s \in Seq(S), NEW t \in Seq(S)
  PROVE  /\ s \o t \in Seq(S) /\ Len(s) \in Nat /\ Len(t) \in Nat
         /\ Len(s \o t) = Len(s) + Len(t)
         /\ DOMAIN s = 1..Len(s) /\ DOMAIN t = 1..Len(t) /\ DOMAIN (s \o t) = 1..(Len(s) + Len(t))
         /\ \A i \in 1..Len(s) : (s \o t)[i] = s[i]
         /\ \A i \in 1..Len(t) : (s \o t)[Len(s) + i] = t[i]
  OBVIOUS

LEMMA LiteralFacts ==
  ASSUME NEW S, NEW a \in S, NEW b \in S, NEW c \in S
  PROVE  /\ <<>> \in Seq(S)
         /\ <<a>> \in Seq(S) /\ Len(<<a>>) = 1 /\ DOMAIN <<a>> = {1} /\ <<a>>[1] = a
         /\ <<a, b>> \in Seq(S) /\ Len(<<a, b>>) = 2 /\ DOMAIN <<a, b>> = {1, 2}
         /\ <<a, b>>[1] = a /\ <<a, b>>[2] = b
         /\ <<a, b, c>> \in Seq(S) /\ Len(<<a, b, c>>) = 3 /\ DOMAIN <<a, b, c>> = {1, 2, 3}
         /\ <<a, b, c>>[1] = a /\ <<a, b, c>>[2] = b /\ <<a, b, c>>[3] = c
  OBVIOUS

----------------------------------------------------------------------------
(* Messages                                                                 *)

Sessions == Tx \union {NoTx}
Readings == [during : Sessions, announced : BOOLEAN]

StatusMessages == {Status(on) : on \in BOOLEAN}
RelayMessages == {Relay(on) : on \in BOOLEAN}
TxMessages == {TxState(t) : t \in Sessions}
MeterMessages == {Meter(r) : r \in Readings}
Message == StatusMessages \union RelayMessages \union TxMessages \union MeterMessages
Lives ==
  [online : BOOLEAN \union {Unknown}, relay : BOOLEAN \union {Unknown},
   meter : Readings \union {Unknown}, transaction : Sessions \union {Unknown}]

LEMMA MessagesTyped ==
  /\ \A on \in BOOLEAN : Status(on) \in Message /\ Relay(on) \in Message
  /\ \A t \in Sessions : TxState(t) \in Message
  /\ \A r \in Readings : Meter(r) \in Message
  /\ \A on : Status(on).kind = "status" /\ Relay(on).kind = "relay" /\ Relay(on).on = on
  /\ \A t : TxState(t).kind = "tx" /\ TxState(t).tx = t
  /\ \A r : Meter(r).kind = "meter" /\ Meter(r).values = r
<1>1. \A on \in BOOLEAN : Status(on) \in Message /\ Relay(on) \in Message
  BY DEF Message, StatusMessages, RelayMessages
<1>2. \A t \in Sessions : TxState(t) \in Message
  BY DEF Message, TxMessages
<1>3. \A r \in Readings : Meter(r) \in Message
  BY DEF Message, MeterMessages
<1>4. /\ \A on : Status(on).kind = "status" /\ Relay(on).kind = "relay" /\ Relay(on).on = on
      /\ \A t : TxState(t).kind = "tx" /\ TxState(t).tx = t
      /\ \A r : Meter(r).kind = "meter" /\ Meter(r).values = r
  BY DEF Status, Relay, TxState, Meter
<1> QED
  BY <1>1, <1>2, <1>3, <1>4

LEMMA KindsOfMessages ==
  ASSUME NEW m \in Message
  PROVE  /\ m.kind \in {"status", "relay", "tx", "meter"}
         /\ m.kind = "status" => m \in StatusMessages /\ m.online \in BOOLEAN
         /\ m.kind = "relay" => m \in RelayMessages /\ m.on \in BOOLEAN
         /\ m.kind = "tx" => m \in TxMessages /\ m.tx \in Sessions /\ m = TxState(m.tx)
         /\ m.kind = "meter" => m \in MeterMessages /\ m.values \in Readings
  BY DEF Message, StatusMessages, RelayMessages, TxMessages, MeterMessages,
         Status, Relay, TxState, Meter

\* What a message leaves of what is believed, and what it adds.
LEMMA LiveTyped ==
  ASSUME NEW v \in Lives, NEW m \in Message
  PROVE  /\ applyMessage(v, m) \in Lives
         /\ m.kind = "relay" => applyMessage(v, m).relay = m.on
         /\ m.kind # "relay" => applyMessage(v, m).relay = v.relay
         /\ m.kind = "tx" => applyMessage(v, m).transaction = m.tx
         /\ m.kind # "tx" => applyMessage(v, m).transaction = v.transaction
         /\ m.kind = "meter" => applyMessage(v, m).meter = m.values
         /\ m.kind # "meter" => applyMessage(v, m).meter = v.meter
         /\ m.kind \in {"tx", "meter"} \/ m = Status(TRUE) => applyMessage(v, m).online = TRUE
         /\ m.kind = "relay" => applyMessage(v, m).online = v.online
<1>1. CASE m.kind = "status"
  <2>1. m = Status(TRUE) => m.online = TRUE
    BY DEF Status
  <2> QED
    BY <1>1, <2>1, KindsOfMessages DEF applyMessage, Lives
<1>2. CASE m.kind = "relay"
  <2>1. m # Status(TRUE)
    BY <1>2 DEF Status
  <2> QED
    BY <1>2, <2>1, KindsOfMessages DEF applyMessage, Lives
<1>3. CASE m.kind = "tx"
  BY <1>3, KindsOfMessages DEF applyMessage, Lives
<1>4. CASE m.kind = "meter"
  BY <1>4, KindsOfMessages DEF applyMessage, Lives
<1> QED
  BY <1>1, <1>2, <1>3, <1>4, KindsOfMessages

----------------------------------------------------------------------------
(* What a sequence of messages says                                         *)

Silent(s, K) == \A i \in DOMAIN s : s[i].kind \notin K

\* There is a message in S, and later ones of these kinds are in S, too.
LastIsIn(s, K, S) ==
  \E i \in DOMAIN s :
    s[i] \in S /\ \A j \in DOMAIN s : j >= i /\ s[j].kind \in K => s[j] \in S

LEMMA SaidInConcat ==
  ASSUME NEW s \in Seq(Message), NEW t \in Seq(Message), NEW K, NEW S
  PROVE  /\ LastIsIn(t, K, S) => LastIsIn(s \o t, K, S)
         /\ Silent(t, K) /\ LastIsIn(s, K, S) => LastIsIn(s \o t, K, S)
         /\ Silent(t, K) /\ Silent(s, K) => Silent(s \o t, K)
<1> DEFINE u == s \o t
<1>1. /\ Len(s) \in Nat /\ Len(t) \in Nat
      /\ DOMAIN s = 1..Len(s) /\ DOMAIN t = 1..Len(t) /\ DOMAIN u = 1..(Len(s) + Len(t))
      /\ \A i \in 1..Len(s) : u[i] = s[i]
      /\ \A i \in 1..Len(t) : u[Len(s) + i] = t[i]
  BY ConcatFacts
<1> HIDE DEF u
<1>2. ASSUME NEW i \in DOMAIN u
      PROVE  i \in 1..Len(s) \/ \E j \in 1..Len(t) : i = Len(s) + j /\ u[i] = t[j]
  <2> SUFFICES ASSUME i \notin 1..Len(s) PROVE \E j \in 1..Len(t) : i = Len(s) + j /\ u[i] = t[j]
    OBVIOUS
  <2>1. i - Len(s) \in 1..Len(t) /\ i = Len(s) + (i - Len(s))
    BY <1>1
  <2> QED
    BY <1>1, <2>1
<1>3. ASSUME LastIsIn(t, K, S) PROVE LastIsIn(u, K, S)
  <2>1. PICK i \in DOMAIN t :
          t[i] \in S /\ \A j \in DOMAIN t : j >= i /\ t[j].kind \in K => t[j] \in S
    BY <1>3 DEF LastIsIn
  <2>2. Len(s) + i \in DOMAIN u /\ u[Len(s) + i] \in S
    BY <1>1, <2>1
  <2>3. ASSUME NEW j \in DOMAIN u, j >= Len(s) + i, u[j].kind \in K PROVE u[j] \in S
    <3>1. j \notin 1..Len(s)
      BY <1>1, <2>3
    <3>2. PICK n \in 1..Len(t) : j = Len(s) + n /\ u[j] = t[n]
      BY <1>2, <3>1
    <3> QED
      BY <1>1, <2>1, <2>3, <3>2
  <2> QED
    BY <2>2, <2>3 DEF LastIsIn
<1>4. ASSUME Silent(t, K), LastIsIn(s, K, S) PROVE LastIsIn(u, K, S)
  <2>1. PICK i \in DOMAIN s :
          s[i] \in S /\ \A j \in DOMAIN s : j >= i /\ s[j].kind \in K => s[j] \in S
    BY <1>4 DEF LastIsIn
  <2>2. i \in DOMAIN u /\ u[i] \in S
    BY <1>1, <2>1
  <2>3. ASSUME NEW j \in DOMAIN u, j >= i, u[j].kind \in K PROVE u[j] \in S
    BY <1>1, <1>2, <1>4, <2>1, <2>3 DEF Silent
  <2> QED
    BY <2>2, <2>3 DEF LastIsIn
<1>5. ASSUME Silent(t, K), Silent(s, K) PROVE Silent(u, K)
  BY <1>1, <1>2, <1>5 DEF Silent
<1> QED
  BY <1>3, <1>4, <1>5 DEF u

LEMMA SaidInTail ==
  ASSUME NEW s \in Seq(Message), s # <<>>, NEW K, NEW S
  PROVE  /\ Silent(s, K) => Head(s).kind \notin K /\ Silent(Tail(s), K)
         /\ LastIsIn(s, K, S) =>
              LastIsIn(Tail(s), K, S) \/ (Head(s) \in S /\ Silent(Tail(s), K))
<1> DEFINE u == Tail(s)
<1>1. /\ Head(s) = s[1] /\ Len(s) \in Nat /\ Len(s) > 0 /\ DOMAIN s = 1..Len(s)
      /\ DOMAIN u = 1..(Len(s) - 1)
      /\ \A i \in 1..(Len(s) - 1) : u[i] = s[i + 1]
  BY TailFacts
<1> HIDE DEF u
<1>2. \A i \in DOMAIN u : i + 1 \in DOMAIN s /\ u[i] = s[i + 1]
  BY <1>1
<1>3. Silent(s, K) => Head(s).kind \notin K /\ Silent(u, K)
  BY <1>1, <1>2 DEF Silent
<1>4. ASSUME LastIsIn(s, K, S), ~LastIsIn(u, K, S) PROVE Head(s) \in S /\ Silent(u, K)
  <2>1. PICK i \in DOMAIN s :
          s[i] \in S /\ \A j \in DOMAIN s : j >= i /\ s[j].kind \in K => s[j] \in S
    BY <1>4 DEF LastIsIn
  <2>2. i = 1
    <3>1. SUFFICES ASSUME i # 1 PROVE FALSE
      OBVIOUS
    <3>2. i - 1 \in DOMAIN u /\ u[i - 1] = s[i]
      BY <1>1, <3>1
    <3>3. \A j \in DOMAIN u : j >= i - 1 /\ u[j].kind \in K => u[j] \in S
      BY <1>1, <1>2, <2>1
    <3> QED
      BY <1>4, <2>1, <3>2, <3>3 DEF LastIsIn
  <2>3. \A j \in DOMAIN u : u[j].kind \in K => u[j] \in S
    BY <1>1, <1>2, <2>1, <2>2
  <2>4. Silent(u, K)
    <3> SUFFICES ASSUME NEW j \in DOMAIN u, u[j].kind \in K PROVE FALSE
      BY DEF Silent
    <3> QED
      BY <1>4, <2>3 DEF LastIsIn
  <2> QED
    BY <1>1, <2>1, <2>2, <2>4
<1> QED
  BY <1>3, <1>4 DEF u

LEMMA LastOfTwo ==
  ASSUME NEW a, NEW b, a.kind # b.kind
  PROVE  LastIsIn(<<a, b>>, {a.kind}, {a}) /\ LastIsIn(<<a, b>>, {b.kind}, {b})
<1>1. DOMAIN <<a, b>> = {1, 2} /\ <<a, b>>[1] = a /\ <<a, b>>[2] = b
  OBVIOUS
<1> QED
  BY <1>1 DEF LastIsIn

LEMMA MaxIsLargest ==
  ASSUME NEW S, S \subseteq {1, 2, 3}, S # {}
  PROVE  Max(S) \in S /\ \A y \in S : Max(S) >= y
<1>1. \E x \in S : \A y \in S : x >= y
  <2>1. CASE 3 \in S
    BY <2>1
  <2>2. CASE 3 \notin S /\ 2 \in S
    BY <2>2
  <2>3. CASE 3 \notin S /\ 2 \notin S
    <3>1. S = {1}
      BY <2>3
    <3> QED
      BY <3>1
  <2> QED
    BY <2>1, <2>2, <2>3
<1> QED
  BY <1>1 DEF Max

\* What is retained: of one to three messages the last of each kind.
LEMMA RetainsLast ==
  ASSUME NEW r \in [RetainedKinds -> Seq(Message)], NEW messages \in Seq(Message),
         Len(messages) \in {1, 2, 3}
  PROVE  /\ RetainAll(r, messages) \in [RetainedKinds -> Seq(Message)]
         /\ \A k \in RetainedKinds :
              \/ RetainAll(r, messages)[k] = r[k] /\ Silent(messages, {k})
              \/ \E m \in Message : /\ m.kind = k /\ RetainAll(r, messages)[k] = <<m>>
                                    /\ LastIsIn(messages, {k}, {m})
<1> DEFINE OfKind(k) == {i \in DOMAIN messages : messages[i].kind = k}
<1>1. ASSUME NEW k \in RetainedKinds, OfKind(k) # {}
      PROVE  Max(OfKind(k)) \in OfKind(k) /\ \A j \in OfKind(k) : Max(OfKind(k)) >= j
  <2>1. OfKind(k) \subseteq {1, 2, 3}
    OBVIOUS
  <2> HIDE DEF OfKind
  <2> QED
    BY <1>1, <2>1, MaxIsLargest
<1>2. /\ \A k \in RetainedKinds :
           RetainAll(r, messages)[k] =
             IF OfKind(k) = {} THEN r[k] ELSE <<messages[Max(OfKind(k))]>>
      /\ RetainAll(r, messages) = [k \in RetainedKinds |-> RetainAll(r, messages)[k]]
  BY DEF RetainAll
<1>3. \A i \in DOMAIN messages : messages[i] \in Message /\ <<messages[i]>> \in Seq(Message)
  OBVIOUS
<1>4. DOMAIN messages \subseteq Int
  OBVIOUS
<1>5. ASSUME NEW k \in RetainedKinds, OfKind(k) # {}
      PROVE  \E m \in Message : /\ m.kind = k /\ RetainAll(r, messages)[k] = <<m>>
                                /\ LastIsIn(messages, {k}, {m})
  <2>1. PICK n \in OfKind(k) : n = Max(OfKind(k)) /\ \A j \in OfKind(k) : n >= j
    BY <1>1, <1>5
  <2>2. /\ n \in DOMAIN messages /\ messages[n] \in Message /\ messages[n].kind = k
        /\ RetainAll(r, messages)[k] = <<messages[n]>>
    <3>1. RetainAll(r, messages)[k] = <<messages[n]>>
      <4> HIDE DEF OfKind
      <4> QED
        BY <1>2, <1>5, <2>1
    <3> QED
      BY <1>3, <3>1
  <2>3. ASSUME NEW j \in DOMAIN messages, j >= n, messages[j].kind \in {k} PROVE j = n
    <3>1. j \in OfKind(k) /\ j \in Int /\ n \in Int
      BY <1>4, <2>2, <2>3
    <3>2. n >= j
      BY <2>1, <3>1
    <3> QED
      BY <2>3, <3>1, <3>2
  <2>4. LastIsIn(messages, {k}, {messages[n]})
    BY <2>2, <2>3 DEF LastIsIn
  <2> QED
    BY <2>2, <2>4
<1>6. ASSUME NEW k \in RetainedKinds, OfKind(k) = {}
      PROVE  RetainAll(r, messages)[k] = r[k] /\ Silent(messages, {k})
  BY <1>2, <1>6 DEF Silent
<1>7. ASSUME NEW k \in RetainedKinds PROVE RetainAll(r, messages)[k] \in Seq(Message)
  <2> HIDE DEF OfKind
  <2>1. \A m \in Message : <<m>> \in Seq(Message)
    OBVIOUS
  <2> QED
    BY <1>5, <1>6, <2>1
<1> QED
  <2> HIDE DEF OfKind
  <2> QED
    BY <1>2, <1>5, <1>6, <1>7

----------------------------------------------------------------------------
(* The invariant                                                            *)

DataTypes ==
  /\ deviceUp \in {"down", "connecting", "up"} /\ relay \in BOOLEAN
  /\ session \in Sessions /\ cutOff \in Sessions /\ (session # NoTx => cutOff = NoTx)
  /\ outbox \in Seq(Message)
  /\ retained \in [RetainedKinds -> Seq(Message)] /\ inbox \in Seq(Message)
  /\ registered \in BOOLEAN /\ linkUp \in BOOLEAN /\ ids \in BOOLEAN
  /\ log \in [status : BOOLEAN \union {Unknown}, relay : BOOLEAN \union {Unknown}]
  /\ reading \in Sessions \union {Unknown}
  /\ states \in Lives /\ chain \in Seq(Tx) /\ cache \subseteq Tx /\ missed \in BOOLEAN

\* What is retained, if anything, is a message of its kind.
RetainedInv ==
  \A k \in RetainedKinds :
    retained[k] = <<>> \/ \E m \in Message : m.kind = k /\ retained[k] = <<m>>

\* The transaction that a charger which has announced itself told of last.
LastTold == IF session = NoTx THEN cutOff ELSE session

\* Of a charger that has announced itself, the last word about contactor and session
\* is in its outbox, or else retained.
Announced(kind, m) ==
  \/ LastIsIn(outbox, {kind}, {m})
  \/ Silent(outbox, {kind}) /\ retained[kind] = <<m>>

DeviceInv ==
  /\ \A i \in DOMAIN outbox : outbox[i].kind = "status" => outbox[i] = Status(TRUE)
  /\ deviceUp # "down" =>
       \/ \E i \in DOMAIN outbox : outbox[i] = Status(TRUE)
       \/ retained["status"] = <<Status(TRUE)>>
  /\ deviceUp = "up" => Announced("relay", Relay(relay)) /\ Announced("tx", TxState(LastTold))

\* What the broker retains is on its way to a service that is connected, or believed by
\* it, or was dropped by one that had heard nothing before.
OnlineKinds == {"status", "tx", "meter"}
TellsOnline == {Status(TRUE)} \union TxMessages \union MeterMessages

Followed(kind, m, believed, value) ==
  \/ LastIsIn(inbox, {kind}, {m})
  \/ Silent(inbox, {kind}) /\ (believed = value \/ (missed /\ believed = Unknown))

ServiceInv ==
  /\ ids => registered
  /\ ~ids => states = emptyDeviceState
  /\ states.relay # Unknown => log.relay = states.relay
  /\ linkUp =>
       /\ retained["status"] = <<Status(TRUE)>> =>
            \/ LastIsIn(inbox, OnlineKinds, TellsOnline)
            \/ Silent(inbox, OnlineKinds) /\ (states.online = TRUE \/ missed)
       /\ \A m \in Message : m.kind = "relay" /\ retained["relay"] = <<m>> =>
            Followed("relay", m, states.relay, m.on)
       /\ \A m \in Message : m.kind = "tx" /\ retained["tx"] = <<m>> =>
            Followed("tx", m, states.transaction, m.tx)

\* A reading comes after the transaction it was taken in, with no other between, or else
\* that one is known where the messages go.
Tied(s, known) ==
  \A i \in DOMAIN s : s[i].kind = "meter" /\ s[i].values.announced =>
    \/ \E j \in DOMAIN s :
         /\ j < i /\ s[j] = TxState(s[i].values.during)
         /\ \A k \in DOMAIN s :
              j < k /\ k < i /\ s[k].kind = "tx" => s[k] = TxState(s[i].values.during)
    \/ /\ \A j \in DOMAIN s : j < i => s[j].kind # "tx"
       /\ s[i].values.during \in known

RetainedSession == {t \in Sessions : retained["tx"] = <<TxState(t)>>}

BelievedSession == {t \in Sessions : states.transaction \in {t, Unknown}}

ReadingInv ==
  /\ Tied(outbox, RetainedSession) /\ Tied(inbox, BelievedSession)
  /\ states.meter # Unknown /\ reading \in Tx /\ states.meter.announced =>
       reading = states.meter.during

\* Work that was begun is done, or was in vain.
CacheInv ==
  states.transaction \in Tx \ untied =>
    states.transaction \in cache \/ \E i \in DOMAIN chain : chain[i] = states.transaction

IInv == DataTypes /\ RetainedInv /\ DeviceInv /\ ServiceInv /\ ReadingInv /\ CacheInv

\* The last message that tells whether a charger is online tells that it is.
LEMMA OnlineSaid ==
  ASSUME NEW s \in Seq(Message)
  PROVE  /\ LastIsIn(s, {"status"}, {Status(TRUE)}) => LastIsIn(s, OnlineKinds, TellsOnline)
         /\ Silent(s, {"status"}) =>
              LastIsIn(s, OnlineKinds, TellsOnline) \/ Silent(s, OnlineKinds)
<1>1. \A i \in DOMAIN s : s[i] \in Message
  OBVIOUS
<1>2. \A i \in DOMAIN s : s[i].kind \in {"tx", "meter"} => s[i] \in TellsOnline
  BY <1>1, KindsOfMessages DEF TellsOnline
<1>3. ASSUME LastIsIn(s, {"status"}, {Status(TRUE)}) PROVE LastIsIn(s, OnlineKinds, TellsOnline)
  <2>1. PICK i \in DOMAIN s :
          /\ s[i] = Status(TRUE)
          /\ \A j \in DOMAIN s : j >= i /\ s[j].kind = "status" => s[j] = Status(TRUE)
    BY <1>3 DEF LastIsIn
  <2>2. s[i] \in TellsOnline
    BY <2>1 DEF TellsOnline
  <2>3. \A j \in DOMAIN s : j >= i /\ s[j].kind \in OnlineKinds => s[j] \in TellsOnline
    BY <1>2, <2>1 DEF TellsOnline, OnlineKinds
  <2> QED
    BY <2>2, <2>3 DEF LastIsIn
<1>4. ASSUME Silent(s, {"status"})
      PROVE  LastIsIn(s, OnlineKinds, TellsOnline) \/ Silent(s, OnlineKinds)
  <2>1. \A i \in DOMAIN s : s[i].kind \in OnlineKinds => s[i] \in TellsOnline
    BY <1>2, <1>4 DEF Silent, OnlineKinds
  <2> QED
    BY <2>1 DEF LastIsIn, Silent
<1> QED
  BY <1>3, <1>4

\* Said is said, also of fewer messages ...
LEMMA TiedTo ==
  ASSUME NEW s, NEW K, NEW L, K \subseteq L, Tied(s, K)
  PROVE  Tied(s, L)
  BY DEF Tied

\* ... or when the first one tells the transaction ...
LEMMA TiedAnew ==
  ASSUME NEW s \in Seq(Message), s # <<>>, Head(s).kind = "tx", NEW K, NEW L, Tied(s, K)
  PROVE  Tied(s, L)
<1>1. /\ Head(s) = s[1] /\ DOMAIN s = 1..Len(s) /\ Len(s) \in Nat /\ Len(s) > 0
  BY TailFacts
<1> SUFFICES ASSUME NEW i \in DOMAIN s, s[i].kind = "meter", s[i].values.announced
             PROVE  \E j \in DOMAIN s :
                      /\ j < i /\ s[j] = TxState(s[i].values.during)
                      /\ \A k \in DOMAIN s : j < k /\ k < i /\ s[k].kind = "tx" =>
                                             s[k] = TxState(s[i].values.during)
  BY DEF Tied
<1>2. 1 \in DOMAIN s /\ i # 1 /\ 1 < i /\ s[1].kind = "tx"
  BY <1>1
<1> QED
  BY <1>2 DEF Tied

\* ... or the rest, from where the first one has gone.
LEMMA TiedTail ==
  ASSUME NEW s \in Seq(Message), s # <<>>, NEW K, Tied(s, K)
  PROVE  /\ Head(s).kind = "tx" => Tied(Tail(s), {Head(s).tx})
         /\ Head(s).kind # "tx" => Tied(Tail(s), K)
         /\ Head(s).kind = "meter" /\ Head(s).values.announced => Head(s).values.during \in K
<1> DEFINE u == Tail(s)
<1>1. /\ Head(s) = s[1] /\ Len(s) \in Nat /\ Len(s) > 0 /\ DOMAIN s = 1..Len(s)
      /\ DOMAIN u = 1..(Len(s) - 1) /\ s[1] \in Message
      /\ \A i \in 1..(Len(s) - 1) : u[i] = s[i + 1]
  BY TailFacts
<1> HIDE DEF u
<1>2. \A i \in DOMAIN u : i + 1 \in DOMAIN s /\ u[i] = s[i + 1] /\ i \in Int
  BY <1>1
<1>3. \A j \in DOMAIN s : j # 1 => j - 1 \in DOMAIN u /\ u[j - 1] = s[j] /\ j \in Int
  BY <1>1
<1>4. ASSUME NEW i \in DOMAIN u, u[i].kind = "meter", u[i].values.announced, NEW d,
             d = u[i].values.during
      PROVE  \/ \E j \in DOMAIN u :
                  /\ j < i /\ u[j] = TxState(d)
                  /\ \A k \in DOMAIN u : j < k /\ k < i /\ u[k].kind = "tx" => u[k] = TxState(d)
             \/ /\ \A j \in DOMAIN u : j < i => u[j].kind # "tx"
                /\ IF s[1].kind = "tx" THEN s[1] = TxState(d) ELSE d \in K
  <2>1. /\ i + 1 \in DOMAIN s /\ s[i + 1] = u[i] /\ i \in Int
    BY <1>2
  <2>2. \/ \E j \in DOMAIN s :
             /\ j < i + 1 /\ s[j] = TxState(d)
             /\ \A k \in DOMAIN s : j < k /\ k < i + 1 /\ s[k].kind = "tx" => s[k] = TxState(d)
        \/ /\ \A j \in DOMAIN s : j < i + 1 => s[j].kind # "tx"
           /\ d \in K
    BY <1>4, <2>1 DEF Tied
  <2>3. CASE \E j \in DOMAIN s :
               /\ j < i + 1 /\ s[j] = TxState(d)
               /\ \A k \in DOMAIN s : j < k /\ k < i + 1 /\ s[k].kind = "tx" => s[k] = TxState(d)
    <3>1. PICK j \in DOMAIN s :
            /\ j < i + 1 /\ s[j] = TxState(d)
            /\ \A k \in DOMAIN s : j < k /\ k < i + 1 /\ s[k].kind = "tx" => s[k] = TxState(d)
      BY <2>3
    <3>2. \A k \in DOMAIN u : j < k + 1 /\ k < i /\ u[k].kind = "tx" => u[k] = TxState(d)
      BY <1>1, <1>2, <2>1, <3>1
    <3>3. CASE j = 1
      <4>1. \A k \in DOMAIN u : k < i /\ u[k].kind = "tx" => u[k] = TxState(d)
        BY <1>1, <3>2, <3>3
      <4>2. s[1].kind = "tx" /\ s[1] = TxState(d)
        BY <3>1, <3>3, MessagesTyped
      <4>3. CASE \A k \in DOMAIN u : k < i => u[k].kind # "tx"
        BY <4>2, <4>3
      <4>4. CASE \E k \in DOMAIN u : k < i /\ u[k].kind = "tx"
        BY <4>1, <4>4
      <4> QED
        BY <4>3, <4>4
    <3>4. CASE j # 1
      <4>1. j - 1 \in DOMAIN u /\ u[j - 1] = TxState(d) /\ j - 1 < i
        BY <1>3, <2>1, <3>1, <3>4
      <4>2. \A k \in DOMAIN u : j - 1 < k /\ k < i /\ u[k].kind = "tx" => u[k] = TxState(d)
        BY <1>2, <1>3, <2>1, <3>2, <3>4
      <4> QED
        BY <4>1, <4>2
    <3> QED
      BY <3>3, <3>4
  <2>4. CASE (\A j \in DOMAIN s : j < i + 1 => s[j].kind # "tx") /\ d \in K
    <3>1. s[1].kind # "tx" /\ \A j \in DOMAIN u : j < i => u[j].kind # "tx"
      BY <1>1, <1>2, <2>1, <2>4
    <3> QED
      BY <2>4, <3>1
  <2> QED
    BY <2>2, <2>3, <2>4
<1>5. ASSUME s[1].kind = "tx" PROVE Tied(u, {s[1].tx})
  <2>1. \A d : s[1] = TxState(d) => d \in {s[1].tx}
    BY MessagesTyped
  <2> QED
    BY <1>4, <1>5, <2>1 DEF Tied
<1>6. ASSUME s[1].kind # "tx" PROVE Tied(u, K)
  BY <1>4, <1>6 DEF Tied
<1>7. ASSUME s[1].kind = "meter", s[1].values.announced PROVE s[1].values.during \in K
  <2>1. 1 \in DOMAIN s /\ \A j \in DOMAIN s : ~(j < 1)
    BY <1>1
  <2> QED
    BY <1>7, <2>1 DEF Tied
<1> QED
  BY <1>1, <1>5, <1>6, <1>7 DEF u

\* Only the first of what is added can be a reading, of the transaction last told.
LEMMA TiedConcat ==
  ASSUME NEW s \in Seq(Message), NEW t \in Seq(Message), NEW K, Tied(s, K),
         \A i \in DOMAIN t : t[i].kind = "meter" /\ t[i].values.announced =>
           /\ i = 1
           /\ \/ LastIsIn(s, {"tx"}, {TxState(t[i].values.during)})
              \/ Silent(s, {"tx"}) /\ t[i].values.during \in K
  PROVE  Tied(s \o t, K)
<1> DEFINE u == s \o t
<1>1. /\ Len(s) \in Nat /\ Len(t) \in Nat
      /\ DOMAIN s = 1..Len(s) /\ DOMAIN t = 1..Len(t) /\ DOMAIN u = 1..(Len(s) + Len(t))
      /\ \A i \in 1..Len(s) : u[i] = s[i]
      /\ \A i \in 1..Len(t) : u[Len(s) + i] = t[i]
  BY ConcatFacts
<1> HIDE DEF u
<1>2. ASSUME NEW i \in DOMAIN u
      PROVE  i \in 1..Len(s) \/ \E j \in 1..Len(t) : i = Len(s) + j /\ u[i] = t[j]
  <2> SUFFICES ASSUME i \notin 1..Len(s) PROVE \E j \in 1..Len(t) : i = Len(s) + j /\ u[i] = t[j]
    OBVIOUS
  <2>1. i - Len(s) \in 1..Len(t) /\ i = Len(s) + (i - Len(s))
    BY <1>1
  <2> QED
    BY <1>1, <2>1
<1>3. ASSUME NEW i \in DOMAIN u, u[i].kind = "meter", u[i].values.announced, NEW d,
             d = u[i].values.during
      PROVE  \/ \E j \in DOMAIN u :
                  /\ j < i /\ u[j] = TxState(d)
                  /\ \A k \in DOMAIN u : j < k /\ k < i /\ u[k].kind = "tx" => u[k] = TxState(d)
             \/ (\A j \in DOMAIN u : j < i => u[j].kind # "tx") /\ d \in K
  <2>1. CASE i \in 1..Len(s)
    <3>1. i \in DOMAIN s /\ s[i] = u[i]
      BY <1>1, <2>1
    <3>2. \A j \in DOMAIN u : j < i => j \in DOMAIN s /\ u[j] = s[j]
      BY <1>1, <2>1
    <3>3. \A j \in DOMAIN s : j \in DOMAIN u /\ u[j] = s[j]
      BY <1>1
    <3> QED
      BY <1>3, <3>1, <3>2, <3>3 DEF Tied
  <2>2. CASE \E j \in 1..Len(t) : i = Len(s) + j /\ u[i] = t[j]
    <3>1. 1 \in DOMAIN t /\ t[1] = u[i] /\ i = Len(s) + 1
      BY <1>1, <1>3, <2>2
    <3>2. LastIsIn(s, {"tx"}, {TxState(d)}) \/ (Silent(s, {"tx"}) /\ d \in K)
      BY <1>3, <3>1
    <3>3. \A j \in DOMAIN u : j < i => j \in DOMAIN s /\ u[j] = s[j]
      BY <1>1, <3>1
    <3>4. \A j \in DOMAIN s : j \in DOMAIN u /\ j < i /\ u[j] = s[j] /\ j \in Int
      BY <1>1, <3>1
    <3>5. CASE Silent(s, {"tx"}) /\ d \in K
      BY <3>3, <3>5 DEF Silent
    <3>6. CASE LastIsIn(s, {"tx"}, {TxState(d)})
      <4>1. PICK n \in DOMAIN s :
              /\ s[n] = TxState(d)
              /\ \A j \in DOMAIN s : j >= n /\ s[j].kind = "tx" => s[j] = TxState(d)
        BY <3>6 DEF LastIsIn
      <4>2. n \in DOMAIN u /\ n < i /\ u[n] = TxState(d) /\ n \in Int
        BY <3>4, <4>1
      <4>3. \A k \in DOMAIN u : n < k /\ k < i /\ u[k].kind = "tx" => u[k] = TxState(d)
        BY <3>3, <3>4, <4>1
      <4> QED
        BY <4>2, <4>3
    <3> QED
      BY <3>2, <3>5, <3>6
  <2> QED
    BY <1>2, <2>1, <2>2
<1>4. Tied(u, K)
  BY <1>3 DEF Tied
<1> QED
  BY <1>4 DEF u

\* What goes out before the rest tells of no transaction.
LEMMA TiedBehind ==
  ASSUME NEW s \in Seq(Message), NEW m \in Message, m.kind = "status", NEW K, Tied(s, K)
  PROVE  Tied(<<m>> \o s, K)
<1> DEFINE u == <<m>> \o s
<1>1. /\ Len(s) \in Nat /\ DOMAIN s = 1..Len(s) /\ DOMAIN u = 1..(1 + Len(s)) /\ u[1] = m
      /\ \A i \in 1..Len(s) : u[1 + i] = s[i]
  OBVIOUS
<1> HIDE DEF u
<1>2. \A i \in DOMAIN u : i = 1 \/ (i - 1 \in DOMAIN s /\ u[i] = s[i - 1] /\ i \in Int)
  <2> SUFFICES ASSUME NEW i \in DOMAIN u, i # 1
               PROVE  i - 1 \in DOMAIN s /\ u[i] = s[i - 1] /\ i \in Int
    OBVIOUS
  <2>1. i - 1 \in 1..Len(s) /\ i = 1 + (i - 1)
    BY <1>1
  <2> QED
    BY <1>1, <2>1
<1>3. \A i \in DOMAIN s : i + 1 \in DOMAIN u /\ u[i + 1] = s[i] /\ i \in Int /\ i + 1 # 1
  BY <1>1
<1>4. ASSUME NEW i \in DOMAIN u, u[i].kind = "meter", u[i].values.announced, NEW d,
             d = u[i].values.during
      PROVE  \/ \E j \in DOMAIN u :
                  /\ j < i /\ u[j] = TxState(d)
                  /\ \A k \in DOMAIN u : j < k /\ k < i /\ u[k].kind = "tx" => u[k] = TxState(d)
             \/ (\A j \in DOMAIN u : j < i => u[j].kind # "tx") /\ d \in K
  <2>1. i - 1 \in DOMAIN s /\ u[i] = s[i - 1] /\ i \in Int
    BY <1>1, <1>2, <1>4
  <2>2. CASE \E j \in DOMAIN s :
               /\ j < i - 1 /\ s[j] = TxState(d)
               /\ \A k \in DOMAIN s : j < k /\ k < i - 1 /\ s[k].kind = "tx" => s[k] = TxState(d)
    <3>1. PICK j \in DOMAIN s :
            /\ j < i - 1 /\ s[j] = TxState(d)
            /\ \A k \in DOMAIN s : j < k /\ k < i - 1 /\ s[k].kind = "tx" => s[k] = TxState(d)
      BY <2>2
    <3>2. j + 1 \in DOMAIN u /\ j + 1 < i /\ u[j + 1] = TxState(d) /\ j \in Int
      BY <1>3, <2>1, <3>1
    <3>3. \A k \in DOMAIN u : j + 1 < k /\ k < i /\ u[k].kind = "tx" => u[k] = TxState(d)
      <4> SUFFICES ASSUME NEW k \in DOMAIN u, j + 1 < k, k < i, u[k].kind = "tx"
                   PROVE  u[k] = TxState(d)
        OBVIOUS
      <4>1. k # 1 /\ k - 1 \in DOMAIN s /\ u[k] = s[k - 1] /\ k \in Int
        BY <1>1, <1>2, <3>2
      <4>2. j < k - 1 /\ k - 1 < i - 1
        BY <2>1, <3>2, <4>1
      <4> QED
        BY <3>1, <4>1, <4>2
    <3> QED
      BY <3>2, <3>3
  <2>3. CASE (\A j \in DOMAIN s : j < i - 1 => s[j].kind # "tx") /\ d \in K
    <3>1. ASSUME NEW j \in DOMAIN u, j < i PROVE u[j].kind # "tx"
      <4>1. CASE j = 1
        BY <1>1, <4>1
      <4>2. CASE j # 1
        <5>1. j - 1 \in DOMAIN s /\ u[j] = s[j - 1] /\ j - 1 < i - 1
          BY <1>2, <2>1, <3>1, <4>2
        <5> QED
          BY <2>3, <5>1
      <4> QED
        BY <4>1, <4>2
    <3> QED
      BY <2>3, <3>1
  <2> QED
    BY <1>4, <2>1, <2>2, <2>3 DEF Tied
<1>5. Tied(u, K)
  BY <1>4 DEF Tied
<1> QED
  BY <1>5 DEF u

----------------------------------------------------------------------------
(* What is published                                                        *)

LEMMA RetainsOne ==
  ASSUME NEW r \in [RetainedKinds -> Seq(Message)], NEW m \in Message
  PROVE  \A k \in RetainedKinds :
           RetainAll(r, <<m>>)[k] = IF m.kind = k THEN <<m>> ELSE r[k]
<1>1. /\ <<m>> \in Seq(Message) /\ Len(<<m>>) \in {1, 2, 3}
      /\ DOMAIN <<m>> = {1} /\ <<m>>[1] = m
  BY LiteralFacts
<1>2. \A k \in RetainedKinds :
        \/ RetainAll(r, <<m>>)[k] = r[k] /\ Silent(<<m>>, {k})
        \/ \E o \in Message : /\ o.kind = k /\ RetainAll(r, <<m>>)[k] = <<o>>
                              /\ LastIsIn(<<m>>, {k}, {o})
  BY <1>1, RetainsLast
<1>3. ASSUME NEW k \in RetainedKinds, m.kind = k PROVE RetainAll(r, <<m>>)[k] = <<m>>
  <2>1. ~Silent(<<m>>, {k})
    BY <1>1, <1>3 DEF Silent
  <2>2. \A o : LastIsIn(<<m>>, {k}, {o}) => o = m
    BY <1>1 DEF LastIsIn
  <2> QED
    BY <1>2, <2>1, <2>2
<1>4. ASSUME NEW k \in RetainedKinds, m.kind # k PROVE RetainAll(r, <<m>>)[k] = r[k]
  <2>1. \A o : LastIsIn(<<m>>, {k}, {o}) => o = m
    BY <1>1 DEF LastIsIn
  <2> QED
    BY <1>2, <1>4, <2>1
<1> QED
  BY <1>3, <1>4

LEMMA LastWordsSay ==
  ASSUME NEW s \in Seq(Message), NEW words \in LastWords(s)
  PROVE  /\ words \in Seq(Message) /\ Len(words) \in {1, 2, 3}
         /\ Tail(words) \in Seq(Message)
         /\ \A i \in DOMAIN words :
              words[i].kind = "status" \/ (s # <<>> /\ i = 1 /\ words[i] = Head(s))
         /\ \A i \in DOMAIN Tail(words) : Tail(words)[i].kind = "status"
<1>1. Status(FALSE) \in Message /\ Status(FALSE).kind = "status"
  BY MessagesTyped
<1> DEFINE w == Status(FALSE)
<1>2. w \in Message
  BY <1>1
<1> HIDE DEF w
<1>3. CASE words = <<w>>
  <2>1. /\ words \in Seq(Message) /\ Len(words) = 1 /\ DOMAIN words = {1} /\ words[1] = w
        /\ Tail(words) = <<>> /\ <<>> \in Seq(Message) /\ DOMAIN <<>> = {}
    BY <1>3, <1>2
  <2> QED
    BY <1>1, <2>1 DEF w
<1>4. CASE s # <<>> /\ words = <<Head(s), w>>
  <2>1. Head(s) \in Message
    BY <1>4
  <2>2. /\ words \in Seq(Message) /\ Len(words) = 2 /\ DOMAIN words = {1, 2}
        /\ words[1] = Head(s) /\ words[2] = w
    BY <1>4, <1>2, <2>1, LiteralFacts
  <2>3. /\ Tail(words) \in Seq(Message) /\ DOMAIN Tail(words) = {1} /\ Tail(words)[1] = w
    <3>1. /\ Tail(words) \in Seq(Message) /\ DOMAIN Tail(words) = 1..(2 - 1)
          /\ \A i \in 1..(2 - 1) : Tail(words)[i] = words[i + 1]
      <4>1. words # <<>>
        BY <1>4
      <4> QED
        BY <2>2, <4>1, TailFacts
    <3>2. 1..(2 - 1) = {1}
      OBVIOUS
    <3> QED
      BY <2>2, <3>1, <3>2
  <2> QED
    BY <1>1, <1>4, <2>2, <2>3 DEF w
<1> QED
  BY <1>3, <1>4 DEF LastWords, w

\* What goes to the broker: to the service, of a reading, only if that is connected.
Passed(words) == IF linkUp \/ Head(words).kind # "meter" THEN words ELSE Tail(words)

Publishes(words) ==
  /\ words \in Seq(Message) /\ Len(words) \in {1, 2, 3} /\ Passed(words) \in Seq(Message)
  /\ \A i \in DOMAIN Passed(words) :
       Passed(words)[i].kind = "meter" =>
         i = 1 /\ linkUp /\ outbox # <<>> /\ Passed(words)[i] = Head(outbox)
  /\ retained' = RetainAll(retained, words)
  /\ inbox' = inbox \o Passed(words)

LEMMA DeliverPublishes ==
  ASSUME DataTypes, Deliver
  PROVE  Publishes(<<Head(outbox)>>)
<1> DEFINE m == Head(outbox)
<1>1. outbox # <<>> /\ m \in Message /\ inbox \in Seq(Message)
  BY DEF Deliver, DataTypes
<1>2. /\ retained' = RetainAll(retained, <<m>>)
      /\ inbox' = IF linkUp \/ m.kind # "meter" THEN Append(inbox, m) ELSE inbox
  BY DEF Deliver, Publish
<1> HIDE DEF m
<1>3. /\ <<m>> \in Seq(Message) /\ Len(<<m>>) = 1 /\ DOMAIN <<m>> = {1} /\ <<m>>[1] = m
      /\ Head(<<m>>) = m /\ Tail(<<m>>) = <<>> /\ <<>> \in Seq(Message)
      /\ DOMAIN <<>> = {}
  BY <1>1
<1>4. Append(inbox, m) = inbox \o <<m>> /\ inbox = inbox \o <<>>
  BY <1>1
<1>5. Publishes(<<m>>)
  <2>1. CASE linkUp \/ m.kind # "meter"
    <3>1. Passed(<<m>>) = <<m>>
      BY <1>3, <2>1 DEF Passed
    <3>2. inbox' = inbox \o <<m>>
      BY <1>2, <1>4, <2>1
    <3> QED
      BY <1>1, <1>2, <1>3, <2>1, <3>1, <3>2 DEF Publishes, m
  <2>2. CASE ~(linkUp \/ m.kind # "meter")
    <3>1. Passed(<<m>>) = <<>>
      BY <1>3, <2>2 DEF Passed
    <3>2. inbox' = inbox \o <<>>
      BY <1>2, <1>4, <2>2
    <3> QED
      BY <1>2, <1>3, <3>1, <3>2 DEF Publishes
  <2> QED
    BY <2>1, <2>2
<1> QED
  BY <1>5 DEF m

LEMMA DisconnectPublishes ==
  ASSUME DataTypes, DeviceDisconnect
  PROVE  \E words \in LastWords(outbox) : Publishes(words)
<1>1. PICK words \in LastWords(outbox) :
        /\ retained' = RetainAll(retained, words)
        /\ inbox' = inbox \o IF linkUp \/ Head(words).kind # "meter" THEN words ELSE Tail(words)
  BY DEF DeviceDisconnect
<1>2. outbox \in Seq(Message)
  BY DEF DataTypes
<1>3. /\ words \in Seq(Message) /\ Len(words) \in {1, 2, 3}
      /\ Tail(words) \in Seq(Message)
      /\ \A i \in DOMAIN words :
           words[i].kind = "status" \/ (outbox # <<>> /\ i = 1 /\ words[i] = Head(outbox))
      /\ \A i \in DOMAIN Tail(words) : Tail(words)[i].kind = "status"
  BY <1>2, LastWordsSay
<1>4. inbox' = inbox \o Passed(words)
  BY <1>1 DEF Passed
<1>5. CASE linkUp \/ Head(words).kind # "meter"
  <2>1. Passed(words) = words
    BY <1>5 DEF Passed
  <2>2. Head(words) = words[1]
    BY <1>3
  <2>3. \A i \in DOMAIN words : words[i].kind = "meter" =>
          i = 1 /\ linkUp /\ outbox # <<>> /\ words[i] = Head(outbox)
    BY <1>3, <1>5, <2>2
  <2> QED
    BY <1>1, <1>3, <1>4, <2>1, <2>3 DEF Publishes
<1>6. CASE ~(linkUp \/ Head(words).kind # "meter")
  <2>1. Passed(words) = Tail(words)
    BY <1>6 DEF Passed
  <2> QED
    BY <1>1, <1>3, <1>4, <2>1 DEF Publishes
<1> QED
  BY <1>5, <1>6

\* A new subscription brings what is retained.
LEMMA SubscriptionBrings ==
  ASSUME DataTypes, RetainedInv
  PROVE  /\ OnSubscribe(retained) \in Seq(Message) /\ Silent(OnSubscribe(retained), {"meter"})
         /\ \A k \in RetainedKinds : \A m \in Message :
              m.kind = k /\ retained[k] = <<m>> => LastIsIn(OnSubscribe(retained), {k}, {m})
<1> DEFINE a == retained["status"]
           b == retained["relay"]
           c == retained["tx"]
<1>1. a \in Seq(Message) /\ b \in Seq(Message) /\ c \in Seq(Message)
  BY DEF DataTypes, RetainedKinds
<1>2. /\ \A i \in DOMAIN a : a[i].kind = "status"
      /\ \A i \in DOMAIN b : b[i].kind = "relay"
      /\ \A i \in DOMAIN c : c[i].kind = "tx"
  <2>1. \A m \in Message : DOMAIN <<m>> = {1} /\ <<m>>[1] = m
    OBVIOUS
  <2>2. {"status", "relay", "tx"} = RetainedKinds
    BY DEF RetainedKinds
  <2>3. DOMAIN <<>> = {}
    OBVIOUS
  <2> QED
    BY <2>1, <2>2, <2>3 DEF RetainedInv
<1>3. OnSubscribe(retained) = (a \o b) \o c
  BY DEF OnSubscribe
<1> HIDE DEF a, b, c
<1>4. a \o b \in Seq(Message) /\ (a \o b) \o c \in Seq(Message)
  BY <1>1, ConcatFacts
<1>5. Silent((a \o b) \o c, {"meter"})
  <2>1. Silent(a, {"meter"}) /\ Silent(b, {"meter"}) /\ Silent(c, {"meter"})
    BY <1>2 DEF Silent
  <2>2. Silent(a \o b, {"meter"})
    BY <1>1, <2>1, SaidInConcat
  <2> QED
    BY <1>1, <1>4, <2>1, <2>2, SaidInConcat
<1>6. ASSUME NEW m \in Message, a = <<m>>, m.kind = "status"
      PROVE  LastIsIn((a \o b) \o c, {"status"}, {m})
  <2>1. LastIsIn(a, {"status"}, {m})
    BY <1>6 DEF LastIsIn
  <2>2. Silent(b, {"status"}) /\ Silent(c, {"status"})
    BY <1>2 DEF Silent
  <2>3. LastIsIn(a \o b, {"status"}, {m})
    BY <1>1, <2>1, <2>2, SaidInConcat
  <2> QED
    BY <1>1, <1>4, <2>2, <2>3, SaidInConcat
<1>7. ASSUME NEW m \in Message, b = <<m>>, m.kind = "relay"
      PROVE  LastIsIn((a \o b) \o c, {"relay"}, {m})
  <2>1. LastIsIn(b, {"relay"}, {m})
    BY <1>7 DEF LastIsIn
  <2>2. Silent(c, {"relay"})
    BY <1>2 DEF Silent
  <2>3. LastIsIn(a \o b, {"relay"}, {m})
    BY <1>1, <2>1, SaidInConcat
  <2> QED
    BY <1>1, <1>4, <2>2, <2>3, SaidInConcat
<1>8. ASSUME NEW m \in Message, c = <<m>>, m.kind = "tx"
      PROVE  LastIsIn((a \o b) \o c, {"tx"}, {m})
  <2>1. LastIsIn(c, {"tx"}, {m})
    BY <1>8 DEF LastIsIn
  <2> QED
    BY <1>1, <1>4, <2>1, SaidInConcat
<1> QED
  BY <1>3, <1>4, <1>5, <1>6, <1>7, <1>8 DEF RetainedKinds, a, b, c

----------------------------------------------------------------------------
(* Types, and what is retained                                              *)

LEMMA PublishedTypes ==
  ASSUME DataTypes, NEW words, Publishes(words)
  PROVE  retained' \in [RetainedKinds -> Seq(Message)] /\ inbox' \in Seq(Message)
<1>1. retained \in [RetainedKinds -> Seq(Message)] /\ inbox \in Seq(Message)
  BY DEF DataTypes
<1>2. retained' \in [RetainedKinds -> Seq(Message)]
  BY <1>1, RetainsLast DEF Publishes
<1>3. inbox' \in Seq(Message)
  BY <1>1, ConcatFacts DEF Publishes
<1> QED
  BY <1>2, <1>3

\* Each kind: nothing is said, or the last that is said of it is retained.
LEMMA PublishedRetained ==
  ASSUME DataTypes, NEW words, Publishes(words), NEW k \in RetainedKinds
  PROVE  \/ retained'[k] = retained[k] /\ Silent(words, {k})
         \/ \E m \in Message :
              m.kind = k /\ retained'[k] = <<m>> /\ LastIsIn(words, {k}, {m})
BY RetainsLast DEF DataTypes, Publishes

\* What the charger adds to its outbox.
Adds(messages) == messages \in Seq(Message) /\ outbox' = outbox \o messages

\* A reading, as it goes out.
ReadingSaid == Meter([during |-> Told, announced |-> deviceUp = "up"])

LEMMA ReadingAdded ==
  ASSUME DataTypes, PublishReading
  PROVE  /\ Adds(<<ReadingSaid>>) /\ ReadingSaid.kind = "meter"
         /\ ReadingSaid.values.announced => deviceUp = "up" /\ ReadingSaid.values.during = LastTold
<1> DEFINE r == [during |-> Told, announced |-> deviceUp = "up"]
<1>1. r \in Readings
  BY DEF Readings, Told, DataTypes, Sessions
<1>2. r.announced => deviceUp = "up" /\ r.during = LastTold
  BY DEF Told, LastTold
<1>3. outbox' = outbox \o <<Meter(r)>>
  BY DEF PublishReading, Says
<1> HIDE DEF r
<1>4. Meter(r) \in Message /\ Meter(r).kind = "meter" /\ Meter(r).values = r
  BY <1>1, MessagesTyped
<1>5. Adds(<<Meter(r)>>)
  BY <1>3, <1>4 DEF Adds
<1> QED
  BY <1>2, <1>4, <1>5 DEF ReadingSaid, r

\* What the charger says of itself tells how it is now, or leaves what it told.
Speaks ==
  Announce \/ (\E on \in BOOLEAN : Switch(on)) \/ Confirm \/ (\E t \in Tx : StartTx(t))
    \/ EndTx \/ ForceOff

Tells(messages) ==
  /\ Adds(messages)
  /\ \A i \in DOMAIN messages : messages[i].kind \in {"relay", "tx"}
  /\ \/ LastIsIn(messages, {"relay"}, {Relay(relay)'})
     \/ Silent(messages, {"relay"}) /\ deviceUp = "up" /\ UNCHANGED relay
  /\ \/ LastIsIn(messages, {"tx"}, {TxState(LastTold)'})
     \/ Silent(messages, {"tx"}) /\ deviceUp = "up" /\ UNCHANGED LastTold

LEMMA Spoken ==
  ASSUME DataTypes, Speaks
  PROVE  \E messages : Tells(messages)
<1>1. /\ \A on \in BOOLEAN : Relay(on) \in Message
      /\ \A t \in Sessions : TxState(t) \in Message
      /\ \A on : Relay(on).kind = "relay"
      /\ \A t : TxState(t).kind = "tx"
  BY MessagesTyped
<1>2. /\ relay \in BOOLEAN /\ session \in Sessions /\ cutOff \in Sessions
      /\ session # NoTx => cutOff = NoTx
      /\ NoTx \in Sessions /\ Tx \subseteq Sessions /\ NoTx \notin Tx
  BY IngestAssumption DEF DataTypes, Sessions
<1>3. CASE Announce
  <2> DEFINE a == Relay(relay)
             b == TxState(session)
  <2>1. a \in Message /\ b \in Message /\ a.kind = "relay" /\ b.kind = "tx"
    BY <1>1, <1>2, ZenonT(30)
  <2>2. outbox' = outbox \o <<a, b>> /\ Relay(relay)' = a /\ TxState(LastTold)' = b
    BY <1>3 DEF Announce, LastTold, Relay, TxState
  <2> HIDE DEF a, b
  <2>3. LastIsIn(<<a, b>>, {"relay"}, {a}) /\ LastIsIn(<<a, b>>, {"tx"}, {b})
    BY <2>1, LastOfTwo
  <2>4. Tells(<<a, b>>)
    BY <2>1, <2>2, <2>3 DEF Tells, Adds
  <2> QED
    BY <2>4
<1>4. CASE \E on \in BOOLEAN : Switch(on)
  <2>1. PICK on \in BOOLEAN : Switch(on)
    BY <1>4
  <2>2. relay' = IF session = NoTx THEN on ELSE relay
    BY <2>1 DEF Switch
  <2> DEFINE a == Relay(relay')
  <2>3. relay' \in BOOLEAN
    BY <1>2, <2>2
  <2>4. a \in Message /\ a.kind = "relay"
    BY <1>1, <2>3, ZenonT(30)
  <2>5. /\ outbox' = outbox \o <<a>> /\ Relay(relay)' = a
        /\ deviceUp = "up" /\ UNCHANGED LastTold
    BY <2>1 DEF Switch, Says, LastTold, Relay
  <2> HIDE DEF a
  <2>6. LastIsIn(<<a>>, {"relay"}, {a}) /\ Silent(<<a>>, {"tx"})
    BY <2>4 DEF LastIsIn, Silent
  <2>7. Tells(<<a>>)
    BY <2>4, <2>5, <2>6 DEF Tells, Adds
  <2> QED
    BY <2>7
<1>5. CASE Confirm
  <2> DEFINE b == TxState(session)
  <2>1. b \in Message /\ b.kind = "tx"
    BY <1>1, <1>2
  <2>2. /\ outbox' = outbox \o <<b>> /\ TxState(LastTold)' = b
        /\ deviceUp = "up" /\ UNCHANGED relay
    BY <1>5 DEF Confirm, Says, LastTold, TxState
  <2> HIDE DEF b
  <2>3. LastIsIn(<<b>>, {"tx"}, {b}) /\ Silent(<<b>>, {"relay"})
    BY <2>1 DEF LastIsIn, Silent
  <2>4. Tells(<<b>>)
    BY <2>1, <2>2, <2>3 DEF Tells, Adds
  <2> QED
    BY <2>4
<1>6. ASSUME NEW t \in Tx, StartTx(t) PROVE \E messages : Tells(messages)
  <2> DEFINE a == Relay(TRUE)
             b == TxState(t)
             c == Relay(FALSE)
  <2>1. /\ a \in Message /\ b \in Message /\ c \in Message
        /\ a.kind = "relay" /\ b.kind = "tx" /\ c.kind = "relay"
    BY <1>1, <1>2
  <2>2. Relay(relay)' = a /\ TxState(LastTold)' = b
    BY <1>2, <1>6 DEF StartTx, LastTold, Relay, TxState
  <2>3. outbox' = outbox \o IF session = NoTx THEN <<b, a>> ELSE <<c>> \o <<b, a>>
    BY <1>6 DEF StartTx, Says
  <2> HIDE DEF a, b, c
  <2>4. CASE session = NoTx
    <3>1. LastIsIn(<<b, a>>, {"relay"}, {a}) /\ LastIsIn(<<b, a>>, {"tx"}, {b})
      BY <2>1, LastOfTwo
    <3>2. Tells(<<b, a>>)
      BY <2>1, <2>2, <2>3, <2>4, <3>1 DEF Tells, Adds
    <3> QED
      BY <3>2
  <2>5. CASE session # NoTx
    <3> DEFINE messages == <<c>> \o <<b, a>>
    <3>1. /\ <<c>> \in Seq(Message) /\ <<b, a>> \in Seq(Message) /\ Len(<<c>>) = 1
          /\ Len(<<b, a>>) = 2 /\ <<c>>[1] = c /\ <<b, a>>[1] = b /\ <<b, a>>[2] = a
      BY <2>1, LiteralFacts
    <3>2. /\ messages \in Seq(Message) /\ DOMAIN messages = 1..(1 + 2)
          /\ \A i \in 1..1 : messages[i] = <<c>>[i]
          /\ \A i \in 1..2 : messages[1 + i] = <<b, a>>[i]
      BY <3>1, ConcatFacts
    <3>3. LastIsIn(messages, {"relay"}, {a}) /\ LastIsIn(messages, {"tx"}, {b})
      BY <2>1, <3>1, LastOfTwo, SaidInConcat
    <3> HIDE DEF messages
    <3>4. DOMAIN messages = {1, 2, 3} /\ messages[1] = c /\ messages[2] = b /\ messages[3] = a
      BY <3>1, <3>2
    <3>5. outbox' = outbox \o messages
      BY <2>3, <2>5 DEF messages
    <3>6. Tells(messages)
      BY <2>1, <2>2, <3>2, <3>3, <3>4, <3>5 DEF Tells, Adds
    <3> QED
      BY <3>6
  <2> QED
    BY <2>4, <2>5
<1>7. CASE EndTx
  <2> DEFINE a == Relay(FALSE)
             b == TxState(NoTx)
  <2>1. a \in Message /\ b \in Message /\ a.kind = "relay" /\ b.kind = "tx"
    BY <1>1, <1>2
  <2>2. outbox' = outbox \o <<a, b>> /\ Relay(relay)' = a /\ TxState(LastTold)' = b
    BY <1>2, <1>7 DEF EndTx, Says, LastTold, Relay, TxState
  <2> HIDE DEF a, b
  <2>3. LastIsIn(<<a, b>>, {"relay"}, {a}) /\ LastIsIn(<<a, b>>, {"tx"}, {b})
    BY <2>1, LastOfTwo
  <2>4. Tells(<<a, b>>)
    BY <2>1, <2>2, <2>3 DEF Tells, Adds
  <2> QED
    BY <2>4
<1>8. CASE ForceOff
  <2> DEFINE a == Relay(FALSE)
  <2>1. a \in Message /\ a.kind = "relay"
    BY <1>1
  <2>2. /\ outbox' = outbox \o <<a, a>> /\ Relay(relay)' = a
        /\ deviceUp = "up" /\ UNCHANGED LastTold
    BY <1>8 DEF ForceOff, Says, LastTold, Relay
  <2> HIDE DEF a
  <2>3. LastIsIn(<<a, a>>, {"relay"}, {a}) /\ Silent(<<a, a>>, {"tx"})
    BY <2>1 DEF LastIsIn, Silent
  <2>4. Tells(<<a, a>>)
    BY <2>1, <2>2, <2>3 DEF Tells, Adds
  <2> QED
    BY <2>4
<1> QED
  BY <1>3, <1>4, <1>5, <1>6, <1>7, <1>8 DEF Speaks

LEMMA InitTypes ==
  ASSUME Init
  PROVE  DataTypes
<1>1. /\ NothingRetained \in [RetainedKinds -> Seq(Message)]
      /\ emptyDeviceState \in Lives /\ <<>> \in Seq(Message) /\ <<>> \in Seq(Tx)
      /\ NoEvents \in [status : BOOLEAN \union {Unknown}, relay : BOOLEAN \union {Unknown}]
  <2>1. <<>> \in Seq(Message) /\ <<>> \in Seq(Tx)
    OBVIOUS
  <2> QED
    BY <2>1 DEF NothingRetained, emptyDeviceState, Lives, NoEvents
<1> QED
  BY <1>1 DEF Init, DataTypes, Sessions

LEMMA OutboxTyped ==
  ASSUME DataTypes, NEW messages, Adds(messages)
  PROVE  outbox' \in Seq(Message)
BY ConcatFacts DEF DataTypes, Adds

LEMMA ChargerTypes ==
  ASSUME DataTypes, Charger
  PROVE  DataTypes'
<1> USE DEF DataTypes
<1>1. CASE DeviceConnect
  <2>1. Status(TRUE) \in Message
    BY MessagesTyped
  <2>2. outbox' \in Seq(Message)
    <3> DEFINE m == Status(TRUE)
    <3>1. m \in Message /\ outbox' = <<m>> \o outbox
      BY <1>1, <2>1 DEF DeviceConnect
    <3> HIDE DEF m
    <3> QED
      BY <3>1
  <2> QED
    BY <1>1, <2>2 DEF DeviceConnect, broker, database, counters, history
<1>2. CASE PublishReading
  <2>1. outbox' \in Seq(Message)
    BY <1>2, ReadingAdded, OutboxTyped
  <2> QED
    BY <1>2, <2>1 DEF PublishReading, Says, broker, database
<1>3. CASE Speaks
  <2>1. outbox' \in Seq(Message)
    BY <1>3, Spoken, OutboxTyped DEF Tells
  <2>2. /\ deviceUp' \in {"down", "connecting", "up"} /\ relay' \in BOOLEAN
        /\ session' \in Sessions /\ cutOff' \in Sessions /\ (session' # NoTx => cutOff' = NoTx)
    BY <1>3 DEF Speaks, Announce, Switch, Confirm, StartTx, EndTx, ForceOff, Says, Sessions
  <2>3. UNCHANGED <<broker, registered, linkUp, ids, log, reading, states, chain, cache, missed>>
    BY <1>3
       DEF Speaks, Announce, Switch, Confirm, StartTx, EndTx, ForceOff, Says, database
  <2> QED
    BY <2>1, <2>2, <2>3 DEF broker
<1>4. CASE Deliver
  <2>1. Publishes(<<Head(outbox)>>)
    BY <1>4, DeliverPublishes
  <2>2. retained' \in [RetainedKinds -> Seq(Message)] /\ inbox' \in Seq(Message)
    BY <2>1, PublishedTypes
  <2>3. outbox' \in Seq(Message)
    BY <1>4, TailFacts DEF Deliver
  <2> QED
    BY <1>4, <2>2, <2>3 DEF Deliver, database, counters, history
<1>5. CASE DeviceDisconnect
  <2>1. PICK words : Publishes(words)
    BY <1>5, DisconnectPublishes
  <2>2. retained' \in [RetainedKinds -> Seq(Message)] /\ inbox' \in Seq(Message)
    BY <2>1, PublishedTypes
  <2>3. outbox' \in Seq(Message)
    <3>1. <<>> \in Seq(Message)
      OBVIOUS
    <3> QED
      BY <1>5, <3>1 DEF DeviceDisconnect
  <2> QED
    BY <1>5, <2>2, <2>3 DEF DeviceDisconnect, database, history
<1> QED
  BY <1>1, <1>2, <1>3, <1>4, <1>5 DEF Charger, Speaks

LEMMA IngestTypes ==
  ASSUME DataTypes, IngestMessage
  PROVE  DataTypes'
<1> DEFINE m == Head(inbox)
           next == applyMessage(states, m)
<1>1. inbox # <<>> /\ inbox \in Seq(Message) /\ states \in Lives
  BY DEF IngestMessage, DataTypes
<1>2. m \in Message /\ inbox' \in Seq(Message) /\ next \in Lives
  <2>1. m \in Message /\ inbox' \in Seq(Message)
    BY <1>1, TailFacts DEF IngestMessage
  <2> QED
    BY <1>1, <2>1, LiveTyped
<1>3. m.kind = "tx" => m.tx \in Sessions
  BY <1>2, KindsOfMessages
<1>4. /\ next.online \in BOOLEAN \union {Unknown} /\ next.relay \in BOOLEAN \union {Unknown}
      /\ next.transaction \in Sessions \union {Unknown}
  BY <1>2 DEF Lives
<1>5. states' \in Lives /\ missed' \in BOOLEAN
  BY <1>1, <1>2 DEF IngestMessage, DataTypes
<1>6. chain' \in Seq(Tx)
  <2>1. chain \in Seq(Tx) /\ \A t \in Tx : Append(chain, t) \in Seq(Tx)
    BY DEF DataTypes
  <2> QED
    BY <1>3, <2>1 DEF IngestMessage, Sessions
<1>7. log' \in [status : BOOLEAN \union {Unknown}, relay : BOOLEAN \union {Unknown}]
  BY <1>4 DEF IngestMessage, Event, DataTypes
<1>8. reading' \in Sessions \union {Unknown}
  BY DEF IngestMessage, Reading, DataTypes, Sessions
<1> QED
  BY <1>2, <1>5, <1>6, <1>7, <1>8
     DEF IngestMessage, DataTypes, device, counters

LEMMA TypesStep ==
  ASSUME DataTypes, [Next]_vars
  PROVE  DataTypes'
<1>1. CASE Charger
  BY <1>1, ChargerTypes
<1>2. CASE Refresh
  BY <1>2 DEF Refresh, DataTypes, device, broker, database, counters, history
<1>3. CASE Connect
  <2>1. inbox' \in Seq(Message)
    <3>1. OnSubscribe(retained) \in Seq(Message)
      <4>1. /\ retained["status"] \in Seq(Message) /\ retained["relay"] \in Seq(Message)
            /\ retained["tx"] \in Seq(Message)
        BY DEF DataTypes, RetainedKinds
      <4> QED
        BY <4>1, ConcatFacts DEF OnSubscribe
    <3> QED
      BY <1>3, <3>1, ConcatFacts DEF Connect, DataTypes
  <2> QED
    BY <1>3, <2>1 DEF Connect, DataTypes, device, database, counters
<1>4. CASE LinkLost
  BY <1>4 DEF LinkLost, DataTypes, device, broker, database, history
<1>5. CASE Restart
  <2>1. <<>> \in Seq(Message) /\ <<>> \in Seq(Tx)
    OBVIOUS
  <2> QED
    BY <1>5, <2>1 DEF Restart, DataTypes, device, emptyDeviceState, Lives
<1>6. CASE IngestMessage
  BY <1>6, IngestTypes
<1>7. CASE HandleState
  <2>1. Head(chain) \in Tx /\ Tail(chain) \in Seq(Tx)
    BY <1>7, TailFacts DEF HandleState, DataTypes
  <2> QED
    BY <1>7, <2>1 DEF HandleState, DataTypes, device, broker, database
<1>8. CASE RegisterDevice
  BY <1>8 DEF RegisterDevice, DataTypes, device, broker, counters, history
<1>9. CASE \E t \in Tx : CreateRow(t)
  BY <1>9 DEF CreateRow, DataTypes, device, broker, counters, history
<1>10. CASE UNCHANGED vars
  BY <1>10 DEF vars, DataTypes, device, broker, database, history
<1> QED
  BY <1>1, <1>2, <1>3, <1>4, <1>5, <1>6, <1>7, <1>8, <1>9, <1>10 DEF Next, Service

\* Only what is published is retained.
LEMMA OthersRetain ==
  ASSUME [Next]_vars, ~Deliver, ~DeviceDisconnect
  PROVE  UNCHANGED retained
BY DEF Next, Charger, Service, DeviceConnect, Announce, PublishReading, Switch, Confirm, StartTx,
       EndTx, ForceOff, Says, RegisterDevice, CreateRow, Refresh, Connect, LinkLost, Restart, IngestMessage,
       HandleState, vars, broker

LEMMA RetainedStep ==
  ASSUME DataTypes, RetainedInv, [Next]_vars
  PROVE  RetainedInv'
<1>1. ASSUME NEW words, Publishes(words) PROVE RetainedInv'
  BY <1>1, PublishedRetained DEF RetainedInv
<1>2. CASE Deliver
  BY <1>1, <1>2, DeliverPublishes
<1>3. CASE DeviceDisconnect
  BY <1>1, <1>3, DisconnectPublishes
<1>4. CASE ~Deliver /\ ~DeviceDisconnect
  BY <1>4, OthersRetain DEF RetainedInv
<1> QED
  BY <1>2, <1>3, <1>4

----------------------------------------------------------------------------
(* The charger's last words                                                 *)

\* A status is never added; what else is added tells how things are.
LEMMA AddedIsTrue ==
  ASSUME DataTypes, DeviceInv, NEW messages, Adds(messages), UNCHANGED retained,
         deviceUp # "down", Silent(messages, {"status"}),
         deviceUp' = "up" =>
           /\ \/ LastIsIn(messages, {"relay"}, {Relay(relay)'})
              \/ Silent(messages, {"relay"}) /\ deviceUp = "up" /\ UNCHANGED relay
           /\ \/ LastIsIn(messages, {"tx"}, {TxState(LastTold)'})
              \/ Silent(messages, {"tx"}) /\ deviceUp = "up" /\ UNCHANGED LastTold
  PROVE  DeviceInv'
<1>1. outbox \in Seq(Message) /\ messages \in Seq(Message) /\ outbox' = outbox \o messages
  BY DEF DataTypes, Adds
<1>2. /\ Len(outbox) \in Nat /\ Len(messages) \in Nat
      /\ DOMAIN outbox = 1..Len(outbox) /\ DOMAIN messages = 1..Len(messages)
      /\ DOMAIN outbox' = 1..(Len(outbox) + Len(messages))
      /\ \A i \in 1..Len(outbox) : outbox'[i] = outbox[i]
      /\ \A i \in 1..Len(messages) : outbox'[Len(outbox) + i] = messages[i]
  BY <1>1, ConcatFacts
<1>3. ASSUME NEW i \in DOMAIN outbox', outbox'[i].kind = "status" PROVE i \in DOMAIN outbox
  <2> SUFFICES ASSUME i \notin 1..Len(outbox) PROVE FALSE
    BY <1>2
  <2>1. i - Len(outbox) \in DOMAIN messages /\ i = Len(outbox) + (i - Len(outbox))
    BY <1>2
  <2>2. outbox'[i] = messages[i - Len(outbox)]
    BY <1>2, <2>1
  <2> QED
    BY <1>3, <2>1, <2>2 DEF Silent
<1>4. \A i \in DOMAIN outbox' : outbox'[i].kind = "status" => outbox'[i] = Status(TRUE)
  BY <1>2, <1>3 DEF DeviceInv
<1>5. \/ \E i \in DOMAIN outbox' : outbox'[i] = Status(TRUE)
      \/ retained'["status"] = <<Status(TRUE)>>
  <2>1. CASE \E i \in DOMAIN outbox : outbox[i] = Status(TRUE)
    <3>1. \A i \in DOMAIN outbox : i \in DOMAIN outbox' /\ outbox'[i] = outbox[i]
      BY <1>2
    <3> QED
      BY <2>1, <3>1
  <2>2. CASE retained["status"] = <<Status(TRUE)>>
    BY <2>2
  <2> QED
    BY <2>1, <2>2 DEF DeviceInv
<1>6. ASSUME deviceUp' = "up" PROVE Announced("relay", Relay(relay))'
  <2>1. CASE LastIsIn(messages, {"relay"}, {Relay(relay)'})
    BY <1>1, <2>1, SaidInConcat DEF Announced
  <2>2. CASE Silent(messages, {"relay"}) /\ deviceUp = "up" /\ UNCHANGED relay
    <3>1. Announced("relay", Relay(relay)) /\ Relay(relay)' = Relay(relay)
      BY <2>2 DEF DeviceInv, Relay
    <3> QED
      BY <1>1, <2>2, <3>1, SaidInConcat DEF Announced
  <2> QED
    BY <1>6, <2>1, <2>2
<1>7. ASSUME deviceUp' = "up" PROVE Announced("tx", TxState(LastTold))'
  <2>1. CASE LastIsIn(messages, {"tx"}, {TxState(LastTold)'})
    BY <1>1, <2>1, SaidInConcat DEF Announced
  <2>2. CASE Silent(messages, {"tx"}) /\ deviceUp = "up" /\ UNCHANGED LastTold
    <3>1. Announced("tx", TxState(LastTold)) /\ TxState(LastTold)' = TxState(LastTold)
      BY <2>2 DEF DeviceInv, TxState
    <3> QED
      BY <1>1, <2>2, <3>1, SaidInConcat DEF Announced
  <2> QED
    BY <1>7, <2>1, <2>2
<1> QED
  BY <1>4, <1>5, <1>6, <1>7 DEF DeviceInv

LEMMA DeliveredIsRetained ==
  ASSUME DataTypes, RetainedInv, DeviceInv, Deliver
  PROVE  DeviceInv'
<1> DEFINE m == Head(outbox)
           u == Tail(outbox)
<1>1. /\ outbox \in Seq(Message) /\ outbox # <<>> /\ m \in Message /\ m = outbox[1]
      /\ 1 \in DOMAIN outbox
      /\ \A i \in DOMAIN u : i + 1 \in DOMAIN outbox /\ u[i] = outbox[i + 1]
      /\ \A i \in DOMAIN outbox : i # 1 => i - 1 \in DOMAIN u /\ u[i - 1] = outbox[i]
  <2>1. outbox \in Seq(Message) /\ outbox # <<>>
    BY DEF Deliver, DataTypes
  <2>2. /\ m = outbox[1] /\ m \in Message /\ Len(outbox) \in Nat /\ Len(outbox) > 0
        /\ DOMAIN outbox = 1..Len(outbox) /\ DOMAIN u = 1..(Len(outbox) - 1)
        /\ \A i \in 1..(Len(outbox) - 1) : u[i] = outbox[i + 1]
    BY <2>1, TailFacts
  <2> HIDE DEF m, u
  <2> QED
    BY <2>1, <2>2
<1>2. /\ outbox' = u /\ deviceUp' = deviceUp /\ relay' = relay /\ LastTold' = LastTold
      /\ retained' = RetainAll(retained, <<m>>)
  BY DEF Deliver, Publish, history, LastTold
<1>3. \A k \in RetainedKinds : retained'[k] = IF m.kind = k THEN <<m>> ELSE retained[k]
  BY <1>1, <1>2, RetainsOne DEF DataTypes
<1>4. \A k : /\ \A w : LastIsIn(outbox, {k}, {w}) =>
                         LastIsIn(u, {k}, {w}) \/ (m = w /\ Silent(u, {k}))
             /\ Silent(outbox, {k}) => m.kind # k /\ Silent(u, {k})
  BY <1>1, SaidInTail
<1> HIDE DEF m, u
<1>5. \A i \in DOMAIN u : u[i].kind = "status" => u[i] = Status(TRUE)
  BY <1>1 DEF DeviceInv
<1>6. ASSUME deviceUp # "down"
      PROVE  (\E i \in DOMAIN u : u[i] = Status(TRUE)) \/ retained'["status"] = <<Status(TRUE)>>
  <2>1. "status" \in RetainedKinds /\ Status(TRUE).kind = "status"
    BY MessagesTyped DEF RetainedKinds
  <2>2. CASE \E i \in DOMAIN outbox : outbox[i] = Status(TRUE)
    <3>1. PICK i \in DOMAIN outbox : outbox[i] = Status(TRUE)
      BY <2>2
    <3>2. CASE i = 1
      BY <1>1, <1>3, <2>1, <3>1, <3>2
    <3>3. CASE i # 1
      BY <1>1, <3>1, <3>3
    <3> QED
      BY <3>2, <3>3
  <2>3. CASE retained["status"] = <<Status(TRUE)>>
    <3>1. m.kind = "status" => m = Status(TRUE)
      BY <1>1 DEF DeviceInv
    <3> QED
      BY <1>3, <2>1, <2>3, <3>1
  <2> QED
    BY <1>6, <2>2, <2>3 DEF DeviceInv
<1>7. ASSUME NEW k \in RetainedKinds, NEW w, w.kind = k, Announced(k, w)
      PROVE  LastIsIn(u, {k}, {w}) \/ (Silent(u, {k}) /\ retained'[k] = <<w>>)
  BY <1>3, <1>4, <1>7 DEF Announced
<1>8. ASSUME deviceUp = "up"
      PROVE  Announced("relay", Relay(relay))' /\ Announced("tx", TxState(LastTold))'
  <2>1. /\ Relay(relay).kind = "relay" /\ "relay" \in RetainedKinds
        /\ TxState(LastTold).kind = "tx" /\ "tx" \in RetainedKinds
    BY DEF RetainedKinds, Relay, TxState
  <2>2. Announced("relay", Relay(relay)) /\ Announced("tx", TxState(LastTold))
    BY <1>8 DEF DeviceInv
  <2>3. Relay(relay)' = Relay(relay) /\ TxState(LastTold)' = TxState(LastTold)
    BY <1>2 DEF Relay, TxState
  <2>4. LastIsIn(u, {"relay"}, {Relay(relay)})
          \/ (Silent(u, {"relay"}) /\ retained'["relay"] = <<Relay(relay)>>)
    BY <1>7, <2>1, <2>2
  <2>5. LastIsIn(u, {"tx"}, {TxState(LastTold)})
          \/ (Silent(u, {"tx"}) /\ retained'["tx"] = <<TxState(LastTold)>>)
    BY <1>7, <2>1, <2>2
  <2> QED
    BY <1>2, <2>3, <2>4, <2>5 DEF Announced
<1> QED
  BY <1>2, <1>5, <1>6, <1>8 DEF DeviceInv

LEMMA DeviceStep ==
  ASSUME DataTypes, RetainedInv, DeviceInv, [Next]_vars
  PROVE  DeviceInv'
<1>1. CASE DeviceConnect
  <2> DEFINE m == Status(TRUE)
  <2>1. m \in Message /\ outbox' = <<m>> \o outbox /\ outbox \in Seq(Message)
    BY <1>1, MessagesTyped DEF DeviceConnect, DataTypes
  <2> HIDE DEF m
  <2>2. /\ Len(outbox) \in Nat /\ DOMAIN outbox = 1..Len(outbox)
        /\ DOMAIN outbox' = 1..(1 + Len(outbox)) /\ outbox'[1] = m
        /\ \A i \in 1..Len(outbox) : outbox'[1 + i] = outbox[i]
    BY <2>1
  <2>3. 1 \in DOMAIN outbox'
    BY <2>2
  <2>4. ASSUME NEW i \in DOMAIN outbox', outbox'[i].kind = "status" PROVE outbox'[i] = m
    <3>1. CASE i = 1
      BY <2>2, <3>1
    <3>2. CASE i # 1
      <4>1. i - 1 \in DOMAIN outbox /\ i = 1 + (i - 1)
        BY <2>2, <3>2
      <4>2. outbox'[i] = outbox[i - 1]
        BY <2>2, <4>1
      <4> QED
        BY <2>4, <4>1, <4>2 DEF DeviceInv, m
    <3> QED
      BY <3>1, <3>2
  <2>5. deviceUp' = "connecting"
    BY <1>1 DEF DeviceConnect
  <2> QED
    BY <2>2, <2>3, <2>4, <2>5 DEF DeviceInv, m
<1>2. CASE PublishReading
  <2> DEFINE m == ReadingSaid
  <2>1. Adds(<<m>>) /\ m.kind = "meter"
    BY <1>2, ReadingAdded
  <2>2. deviceUp # "down" /\ UNCHANGED <<retained, relay, LastTold, deviceUp>>
    BY <1>2 DEF PublishReading, Says, broker, LastTold
  <2> HIDE DEF m
  <2>3. Silent(<<m>>, {"status"}) /\ Silent(<<m>>, {"relay"}) /\ Silent(<<m>>, {"tx"})
    BY <2>1 DEF Silent
  <2> QED
    BY <2>1, <2>2, <2>3, AddedIsTrue
<1>3. CASE Speaks
  <2>1. PICK messages : Tells(messages)
    BY <1>3, Spoken
  <2>2. deviceUp # "down" /\ UNCHANGED retained
    BY <1>3
       DEF Speaks, Announce, Switch, Confirm, StartTx, EndTx, ForceOff, Says, broker
  <2>3. Silent(messages, {"status"})
    BY <2>1 DEF Tells, Silent
  <2> QED
    BY <2>1, <2>2, <2>3, AddedIsTrue DEF Tells
<1>4. CASE Deliver
  BY <1>4, DeliveredIsRetained
<1>5. CASE DeviceDisconnect
  <2>1. deviceUp' = "down" /\ (outbox' = outbox \/ outbox' = <<>>)
    BY <1>5 DEF DeviceDisconnect
  <2>2. DOMAIN <<>> = {}
    OBVIOUS
  <2> QED
    BY <2>1, <2>2 DEF DeviceInv
<1>6. CASE UNCHANGED <<deviceUp, relay, LastTold, outbox, retained>>
  BY <1>6 DEF DeviceInv, Announced
<1>7. CASE \/ Service \/ RegisterDevice \/ (\E t \in Tx : CreateRow(t)) \/ UNCHANGED vars
  <2>1. UNCHANGED <<deviceUp, relay, session, cutOff, outbox, retained>>
    BY <1>7
       DEF Service, Refresh, Connect, LinkLost, Restart, IngestMessage, HandleState,
           RegisterDevice, CreateRow, vars, device, broker, history
  <2> QED
    BY <1>6, <2>1 DEF LastTold
<1> QED
  BY <1>1, <1>2, <1>3, <1>4, <1>5, <1>7 DEF Next, Charger, Speaks

----------------------------------------------------------------------------
(* What the service believes                                                *)

\* The three parts of ServiceInv that are about a connected service.
OnlineFollowed ==
  retained["status"] = <<Status(TRUE)>> =>
    \/ LastIsIn(inbox, OnlineKinds, TellsOnline)
    \/ Silent(inbox, OnlineKinds) /\ (states.online = TRUE \/ missed)

RelayFollowed ==
  \A m \in Message : m.kind = "relay" /\ retained["relay"] = <<m>> =>
    Followed("relay", m, states.relay, m.on)

TxFollowed ==
  \A m \in Message : m.kind = "tx" /\ retained["tx"] = <<m>> =>
    Followed("tx", m, states.transaction, m.tx)

\* What is published to a connected service is in its inbox.
LEMMA PublishedIsFollowed ==
  ASSUME DataTypes, OnlineFollowed, RelayFollowed, TxFollowed, linkUp, NEW words,
         Publishes(words), UNCHANGED <<states, missed>>
  PROVE  OnlineFollowed' /\ RelayFollowed' /\ TxFollowed'
<1>1. /\ words \in Seq(Message) /\ inbox \in Seq(Message) /\ inbox' = inbox \o words
  BY DEF DataTypes, Publishes, Passed
<1>2. \A k \in RetainedKinds :
        \/ retained'[k] = retained[k] /\ Silent(words, {k})
        \/ \E m \in Message :
             m.kind = k /\ retained'[k] = <<m>> /\ LastIsIn(words, {k}, {m})
  BY PublishedRetained
<1>3. \A K, S : /\ LastIsIn(words, K, S) => LastIsIn(inbox', K, S)
                /\ Silent(words, K) /\ LastIsIn(inbox, K, S) => LastIsIn(inbox', K, S)
                /\ Silent(words, K) /\ Silent(inbox, K) => Silent(inbox', K)
  BY <1>1, SaidInConcat
<1>4. {"status", "relay", "tx"} \subseteq RetainedKinds
  BY DEF RetainedKinds
<1>5. OnlineFollowed'
  <2>1. SUFFICES ASSUME retained'["status"] = <<Status(TRUE)>>
                 PROVE  \/ LastIsIn(inbox', OnlineKinds, TellsOnline)
                        \/ /\ Silent(inbox', OnlineKinds)
                           /\ states'.online = TRUE \/ missed'
    BY DEF OnlineFollowed, OnlineKinds, TellsOnline
  <2>2. /\ LastIsIn(words, {"status"}, {Status(TRUE)}) =>
             LastIsIn(words, OnlineKinds, TellsOnline)
        /\ Silent(words, {"status"}) =>
             LastIsIn(words, OnlineKinds, TellsOnline) \/ Silent(words, OnlineKinds)
    BY <1>1, OnlineSaid
  <2>3. CASE LastIsIn(words, OnlineKinds, TellsOnline)
    BY <1>3, <2>3
  <2>4. CASE retained'["status"] = retained["status"] /\ Silent(words, OnlineKinds)
    BY <1>3, <2>1, <2>4 DEF OnlineFollowed
  <2>5. ASSUME NEW m \in Message, retained'["status"] = <<m>>, LastIsIn(words, {"status"}, {m})
        PROVE  LastIsIn(words, OnlineKinds, TellsOnline)
    <3>1. m = Status(TRUE)
      <4> DEFINE w == Status(TRUE)
      <4>1. <<w>> = <<m>>
        BY <2>1, <2>5
      <4> HIDE DEF w
      <4>2. w = m
        BY <4>1
      <4> QED
        BY <4>2 DEF w
    <3> QED
      BY <2>2, <2>5, <3>1
  <2> QED
    BY <1>2, <1>4, <2>2, <2>3, <2>4, <2>5
<1>6. ASSUME NEW k \in RetainedKinds, NEW m \in Message, retained'[k] = <<m>>, NEW believed,
             NEW value, retained[k] = <<m>> => Followed(k, m, believed, value)
      PROVE  \/ LastIsIn(inbox', {k}, {m})
             \/ Silent(inbox', {k}) /\ (believed = value \/ (missed /\ believed = Unknown))
  <2>1. CASE retained'[k] = retained[k] /\ Silent(words, {k})
    BY <1>3, <1>6, <2>1 DEF Followed
  <2>2. ASSUME NEW o \in Message, retained'[k] = <<o>>, LastIsIn(words, {k}, {o})
        PROVE  LastIsIn(inbox', {k}, {m})
    <3>1. o = m
      BY <1>6, <2>2
    <3> QED
      BY <1>3, <2>2, <3>1
  <2> QED
    BY <1>2, <2>1, <2>2
<1>7. RelayFollowed'
  <2> SUFFICES ASSUME NEW m \in Message, m.kind = "relay", retained'["relay"] = <<m>>
               PROVE  Followed("relay", m, states.relay, m.on)'
    BY DEF RelayFollowed, Message, StatusMessages, RelayMessages, TxMessages, MeterMessages,
           Sessions, Readings
  <2>1. retained["relay"] = <<m>> => Followed("relay", m, states.relay, m.on)
    BY DEF RelayFollowed
  <2> QED
    BY <1>4, <1>6, <2>1 DEF Followed
<1>8. TxFollowed'
  <2> SUFFICES ASSUME NEW m \in Message, m.kind = "tx", retained'["tx"] = <<m>>
               PROVE  Followed("tx", m, states.transaction, m.tx)'
    BY DEF TxFollowed
  <2>1. retained["tx"] = <<m>> => Followed("tx", m, states.transaction, m.tx)
    BY DEF TxFollowed
  <2> QED
    BY <1>4, <1>6, <2>1 DEF Followed
<1> QED
  BY <1>5, <1>7, <1>8

\* A service that connects is sent what is retained.
LEMMA ConnectedFollows ==
  ASSUME DataTypes, RetainedInv, Connect
  PROVE  OnlineFollowed' /\ RelayFollowed' /\ TxFollowed'
<1> DEFINE told == OnSubscribe(retained)
<1>1. /\ told \in Seq(Message) /\ inbox \in Seq(Message)
      /\ inbox' = inbox \o told /\ retained' = retained
  BY SubscriptionBrings DEF DataTypes, Connect
<1>2. \A k \in RetainedKinds : \A m \in Message :
        m.kind = k /\ retained[k] = <<m>> => LastIsIn(told, {k}, {m})
  BY SubscriptionBrings
<1> HIDE DEF told
<1>3. \A K, S : LastIsIn(told, K, S) => LastIsIn(inbox', K, S)
  BY <1>1, SaidInConcat
<1>4. OnlineFollowed'
  <2>1. Status(TRUE) \in Message /\ Status(TRUE).kind = "status" /\ "status" \in RetainedKinds
    BY MessagesTyped DEF RetainedKinds
  <2>2. retained["status"] = <<Status(TRUE)>> => LastIsIn(told, OnlineKinds, TellsOnline)
    BY <1>1, <1>2, <2>1, OnlineSaid
  <2> QED
    BY <1>1, <1>3, <2>2 DEF OnlineFollowed
<1>5. \A m \in Message : m.kind = "relay" /\ retained["relay"] = <<m>> =>
        LastIsIn(inbox', {"relay"}, {m})
  BY <1>2, <1>3 DEF RetainedKinds
<1>6. \A m \in Message : m.kind = "tx" /\ retained["tx"] = <<m>> =>
        LastIsIn(inbox', {"tx"}, {m})
  BY <1>2, <1>3 DEF RetainedKinds
<1> QED
  BY <1>1, <1>4, <1>5, <1>6 DEF RelayFollowed, TxFollowed, Followed

\* A message that is read is believed, or dropped by a service that believes nothing.
LEMMA ReadIsFollowed ==
  ASSUME DataTypes, OnlineFollowed, RelayFollowed, TxFollowed,
         ~ids => states = emptyDeviceState, IngestMessage
  PROVE  OnlineFollowed' /\ RelayFollowed' /\ TxFollowed'
<1> DEFINE m == Head(inbox)
           u == Tail(inbox)
<1>1. /\ inbox # <<>> /\ inbox \in Seq(Message) /\ m \in Message /\ states \in Lives
      /\ inbox' = u /\ retained' = retained
  BY TailFacts DEF IngestMessage, DataTypes
<1>2. \A K, S : /\ Silent(inbox, K) => m.kind \notin K /\ Silent(u, K)
                /\ LastIsIn(inbox, K, S) =>
                     LastIsIn(u, K, S) \/ (m \in S /\ Silent(u, K))
  BY <1>1, SaidInTail
<1>3. \/ ~ids /\ missed' = TRUE /\ states' = emptyDeviceState
      \/ ids /\ missed' = missed /\ states' = applyMessage(states, m)
  BY DEF IngestMessage
<1>4. /\ emptyDeviceState.relay = Unknown /\ emptyDeviceState.transaction = Unknown
  BY DEF emptyDeviceState
<1>5. states' = applyMessage(states, m) =>
        /\ m.kind = "relay" => states'.relay = m.on
        /\ m.kind # "relay" => states'.relay = states.relay
        /\ m.kind = "tx" => states'.transaction = m.tx
        /\ m.kind # "tx" => states'.transaction = states.transaction
        /\ m.kind \in {"tx", "meter"} \/ m = Status(TRUE) => states'.online = TRUE
        /\ m.kind = "relay" => states'.online = states.online
  <2> DEFINE next == applyMessage(states, m)
  <2>1. /\ m.kind = "relay" => next.relay = m.on
        /\ m.kind # "relay" => next.relay = states.relay
        /\ m.kind = "tx" => next.transaction = m.tx
        /\ m.kind # "tx" => next.transaction = states.transaction
        /\ m.kind \in {"tx", "meter"} \/ m = Status(TRUE) => next.online = TRUE
        /\ m.kind = "relay" => next.online = states.online
    BY <1>1, LiveTyped
  <2> QED
    BY <2>1
<1>6. m.kind \in {"status", "relay", "tx", "meter"}
  BY <1>1, KindsOfMessages
<1> HIDE DEF m, u
<1>7. OnlineFollowed'
  <2>1. SUFFICES ASSUME retained["status"] = <<Status(TRUE)>>
                 PROVE  \/ LastIsIn(u, OnlineKinds, TellsOnline)
                        \/ /\ Silent(u, OnlineKinds)
                           /\ states'.online = TRUE \/ missed'
    BY <1>1 DEF OnlineFollowed, OnlineKinds, TellsOnline
  <2>2. CASE LastIsIn(inbox, OnlineKinds, TellsOnline)
    <3>1. m \in TellsOnline => m = Status(TRUE) \/ m.kind \in {"tx", "meter"}
      <4>1. /\ \A o \in TxMessages : o.kind = "tx"
            /\ \A o \in MeterMessages : o.kind = "meter"
        BY DEF TxMessages, MeterMessages, TxState, Meter
      <4> QED
        BY <4>1, Zenon DEF TellsOnline
    <3> QED
      BY <1>2, <1>3, <1>5, <2>2, <3>1
  <2>3. CASE Silent(inbox, OnlineKinds) /\ (states.online = TRUE \/ missed)
    <3>1. m.kind = "relay" /\ Silent(u, OnlineKinds)
      BY <1>2, <1>6, <2>3 DEF OnlineKinds
    <3> QED
      BY <1>3, <1>5, <2>3, <3>1
  <2> QED
    BY <2>1, <2>2, <2>3 DEF OnlineFollowed
<1>8. ASSUME NEW o \in Message, o.kind = "relay", Followed("relay", o, states.relay, o.on)
      PROVE  \/ LastIsIn(u, {"relay"}, {o})
             \/ /\ Silent(u, {"relay"})
                /\ states'.relay = o.on \/ (missed' /\ states'.relay = Unknown)
  <2>1. CASE LastIsIn(inbox, {"relay"}, {o})
    <3>1. LastIsIn(u, {"relay"}, {o}) \/ (m = o /\ Silent(u, {"relay"}))
      BY <1>2, <2>1
    <3> QED
      BY <1>3, <1>4, <1>5, <1>8, <3>1
  <2>2. CASE /\ Silent(inbox, {"relay"})
             /\ states.relay = o.on \/ (missed /\ states.relay = Unknown)
    <3>1. m.kind # "relay" /\ Silent(u, {"relay"})
      BY <1>2, <2>2
    <3> QED
      BY <1>3, <1>4, <1>5, <2>2, <3>1
  <2> QED
    BY <1>8, <2>1, <2>2 DEF Followed
<1>9. ASSUME NEW o \in Message, o.kind = "tx", Followed("tx", o, states.transaction, o.tx)
      PROVE  \/ LastIsIn(u, {"tx"}, {o})
             \/ /\ Silent(u, {"tx"})
                /\ states'.transaction = o.tx \/ (missed' /\ states'.transaction = Unknown)
  <2>1. CASE LastIsIn(inbox, {"tx"}, {o})
    <3>1. LastIsIn(u, {"tx"}, {o}) \/ (m = o /\ Silent(u, {"tx"}))
      BY <1>2, <2>1
    <3> QED
      BY <1>3, <1>4, <1>5, <1>9, <3>1
  <2>2. CASE /\ Silent(inbox, {"tx"})
             /\ states.transaction = o.tx \/ (missed /\ states.transaction = Unknown)
    <3>1. m.kind # "tx" /\ Silent(u, {"tx"})
      BY <1>2, <2>2
    <3> QED
      BY <1>3, <1>4, <1>5, <2>2, <3>1
  <2> QED
    BY <1>9, <2>1, <2>2 DEF Followed
<1>10. RelayFollowed'
  BY <1>1, <1>8 DEF RelayFollowed, Followed
<1>11. TxFollowed'
  BY <1>1, <1>9 DEF TxFollowed, Followed
<1> QED
  BY <1>7, <1>10, <1>11

\* The last relay event is the contactor's state that is believed.
LEMMA LogStep ==
  ASSUME DataTypes, states.relay # Unknown => log.relay = states.relay, IngestMessage
  PROVE  states'.relay # Unknown => log'.relay = states'.relay
<1> DEFINE m == Head(inbox)
           next == applyMessage(states, m)
<1>1. inbox # <<>> /\ inbox \in Seq(Message) /\ states \in Lives /\ m \in Message
  BY TailFacts DEF IngestMessage, DataTypes
<1>2. m.kind # "relay" => next.relay = states.relay
  BY <1>1, LiveTyped
<1>3. log \in [status : BOOLEAN \union {Unknown}, relay : BOOLEAN \union {Unknown}]
  BY DEF DataTypes
<1>4. CASE ~ids
  BY <1>4 DEF IngestMessage
<1>5. CASE ids /\ m.kind = "relay"
  <2>1. states' = next /\ Event("relay", states.relay, next.relay)
    BY <1>5 DEF IngestMessage
  <2> HIDE DEF next
  <2> QED
    BY <1>3, <2>1 DEF Event
<1>6. CASE ids /\ m.kind # "relay"
  <2>1. states' = next /\ log'.relay = log.relay
    BY <1>3, <1>6 DEF IngestMessage, Event
  <2> HIDE DEF next
  <2> QED
    BY <1>2, <1>6, <2>1
<1> QED
  BY <1>4, <1>5, <1>6

LEMMA ServiceParts ==
  ServiceInv <=>
    /\ ids => registered
    /\ ~ids => states = emptyDeviceState
    /\ states.relay # Unknown => log.relay = states.relay
    /\ linkUp => OnlineFollowed /\ RelayFollowed /\ TxFollowed
BY DEF ServiceInv, OnlineFollowed, RelayFollowed, TxFollowed

LEMMA ServiceStep ==
  ASSUME DataTypes, RetainedInv, ServiceInv, [Next]_vars
  PROVE  ServiceInv'
<1> DEFINE Parts ==
             /\ ids => registered
             /\ ~ids => states = emptyDeviceState
             /\ states.relay # Unknown => log.relay = states.relay
             /\ linkUp => OnlineFollowed /\ RelayFollowed /\ TxFollowed
<1>1. Parts
  BY ServiceParts
<1>2. SUFFICES Parts'
  BY ServiceParts, PTL
<1>3. ASSUME NEW words, Publishes(words), UNCHANGED <<states, missed, ids, registered, log, linkUp>>
      PROVE  Parts'
  BY <1>1, <1>3, PublishedIsFollowed
<1>4. CASE Deliver
  BY <1>3, <1>4, DeliverPublishes DEF Deliver, database, history
<1>5. CASE DeviceDisconnect
  BY <1>3, <1>5, DisconnectPublishes DEF DeviceDisconnect, database, history
<1>6. CASE Connect
  <2>1. OnlineFollowed' /\ RelayFollowed' /\ TxFollowed'
    BY <1>6, ConnectedFollows
  <2>2. UNCHANGED <<ids, registered, states, log>>
    BY <1>6 DEF Connect, database
  <2> QED
    BY <1>1, <2>1, <2>2
<1>7. CASE IngestMessage
  <2>1. OnlineFollowed' /\ RelayFollowed' /\ TxFollowed'
    BY <1>1, <1>7, ReadIsFollowed DEF IngestMessage
  <2>2. states'.relay # Unknown => log'.relay = states'.relay
    BY <1>1, <1>7, LogStep
  <2>3. ids' = ids /\ registered' = registered /\ (~ids => states' = states)
    BY <1>7 DEF IngestMessage
  <2> QED
    BY <1>1, <2>1, <2>2, <2>3
<1>8. CASE Restart
  <2>1. /\ ids' = registered /\ registered' = registered /\ linkUp' = FALSE
        /\ states' = emptyDeviceState
    BY <1>8 DEF Restart
  <2>2. states'.relay = Unknown
    BY <2>1 DEF emptyDeviceState
  <2> QED
    BY <2>1, <2>2
<1>9. CASE LinkLost
  BY <1>1, <1>9 DEF LinkLost, broker, database, history
<1>10. CASE Refresh
  <2>1. ~ids /\ ids' = registered /\ registered' = registered /\ ids'
    BY <1>1, <1>10, ZenonT(30) DEF Refresh, database, DataTypes
  <2>2. UNCHANGED <<states, log, linkUp, retained, inbox, missed>>
    BY <1>10 DEF Refresh, broker, database, history
  <2> QED
    BY <1>1, <2>1, <2>2 DEF OnlineFollowed, RelayFollowed, TxFollowed, Followed
<1>11. CASE RegisterDevice
  <2>1. registered' /\ UNCHANGED <<ids, states, log, linkUp, retained, inbox, missed>>
    BY <1>11 DEF RegisterDevice, broker, history
  <2> QED
    BY <1>1, <2>1 DEF OnlineFollowed, RelayFollowed, TxFollowed, Followed
<1>12. CASE \/ DeviceConnect \/ PublishReading \/ Speaks \/ HandleState
            \/ (\E t \in Tx : CreateRow(t)) \/ UNCHANGED vars
  <2>1. UNCHANGED <<ids, registered, states, log, linkUp, retained, inbox, missed>>
    BY <1>12
       DEF DeviceConnect, PublishReading, Speaks, Announce, Switch, Confirm, StartTx, EndTx,
           ForceOff, Says, HandleState, CreateRow, vars, broker, database, history
  <2> QED
    BY <1>1, <2>1 DEF OnlineFollowed, RelayFollowed, TxFollowed, Followed
<1> QED
  BY <1>4, <1>5, <1>6, <1>7, <1>8, <1>9, <1>10, <1>11, <1>12
     DEF Next, Charger, Service, Speaks

----------------------------------------------------------------------------
(* Readings and their transactions                                          *)

LEMMA SameTied ==
  ASSUME UNCHANGED <<outbox, retained, inbox>>, states'.transaction = states.transaction,
         Tied(outbox, RetainedSession), Tied(inbox, BelievedSession)
  PROVE  Tied(outbox, RetainedSession)' /\ Tied(inbox, BelievedSession)'
<1>1. RetainedSession' = RetainedSession /\ BelievedSession' = BelievedSession
  BY DEF RetainedSession, BelievedSession, Sessions
<1> QED
  BY <1>1 DEF Tied

\* What is published of readings comes after their transaction.
LEMMA PublishedIsTied ==
  ASSUME DataTypes, ServiceInv, ReadingInv, NEW words, Publishes(words)
  PROVE  Tied(inbox', BelievedSession)
<1> DEFINE told == Passed(words)
<1>1. /\ told \in Seq(Message) /\ inbox \in Seq(Message) /\ inbox' = inbox \o told
      /\ \A i \in DOMAIN told : told[i].kind = "meter" =>
           i = 1 /\ linkUp /\ outbox # <<>> /\ told[i] = Head(outbox)
  BY DEF DataTypes, Publishes
<1> HIDE DEF told
<1>2. Tied(inbox, BelievedSession) /\ Tied(outbox, RetainedSession) /\ outbox \in Seq(Message)
  BY DEF ReadingInv, DataTypes
<1>3. ASSUME NEW i \in DOMAIN told, told[i].kind = "meter", told[i].values.announced, NEW d,
             d = told[i].values.during
      PROVE  \/ LastIsIn(inbox, {"tx"}, {TxState(d)})
             \/ Silent(inbox, {"tx"}) /\ d \in BelievedSession
  <2>1. linkUp /\ outbox # <<>> /\ told[i] = Head(outbox)
    BY <1>1, <1>3
  <2>2. d \in RetainedSession
    BY <1>2, <1>3, <2>1, TiedTail
  <2>3. d \in Sessions /\ retained["tx"] = <<TxState(d)>>
    BY <2>2 DEF RetainedSession
  <2>4. TxState(d) \in Message /\ TxState(d).kind = "tx" /\ TxState(d).tx = d
    BY <2>3, MessagesTyped
  <2>5. Followed("tx", TxState(d), states.transaction, d)
    BY <2>1, <2>3, <2>4 DEF ServiceInv
  <2> QED
    BY <2>3, <2>5 DEF Followed, BelievedSession
<1>4. \A i \in DOMAIN told : told[i].kind = "meter" /\ told[i].values.announced =>
        /\ i = 1
        /\ \/ LastIsIn(inbox, {"tx"}, {TxState(told[i].values.during)})
           \/ Silent(inbox, {"tx"}) /\ told[i].values.during \in BelievedSession
  BY <1>1, <1>3
<1>5. Tied(inbox \o told, BelievedSession)
  BY <1>1, <1>2, <1>4, TiedConcat
<1> QED
  BY <1>1, <1>5

\* The charger adds a reading when it has said what runs.
LEMMA AddedIsTied ==
  ASSUME DataTypes, DeviceInv, ReadingInv, NEW messages, Adds(messages), UNCHANGED retained,
         \A i \in DOMAIN messages : messages[i].kind = "meter" =>
           /\ i = 1
           /\ messages[i].values.announced => deviceUp = "up" /\ messages[i].values.during = LastTold
  PROVE  Tied(outbox, RetainedSession)'
<1>1. /\ messages \in Seq(Message) /\ outbox \in Seq(Message) /\ outbox' = outbox \o messages
      /\ Tied(outbox, RetainedSession) /\ LastTold \in Sessions
  BY DEF DataTypes, Adds, ReadingInv, LastTold
<1>2. deviceUp = "up" =>
        \/ LastIsIn(outbox, {"tx"}, {TxState(LastTold)})
        \/ Silent(outbox, {"tx"}) /\ LastTold \in RetainedSession
  BY <1>1 DEF DeviceInv, Announced, RetainedSession
<1>3. \A i \in DOMAIN messages : messages[i].kind = "meter" /\ messages[i].values.announced =>
        /\ i = 1
        /\ \/ LastIsIn(outbox, {"tx"}, {TxState(messages[i].values.during)})
           \/ Silent(outbox, {"tx"}) /\ messages[i].values.during \in RetainedSession
  BY <1>2
<1>4. Tied(outbox \o messages, RetainedSession)
  BY <1>1, <1>3, TiedConcat
<1>5. RetainedSession' = RetainedSession
  BY DEF RetainedSession, Sessions
<1> QED
  BY <1>1, <1>4, <1>5

LEMMA OutboxTied ==
  ASSUME DataTypes, DeviceInv, ReadingInv, Charger
  PROVE  Tied(outbox, RetainedSession)'
<1>1. /\ Tied(outbox, RetainedSession) /\ outbox \in Seq(Message)
      /\ retained \in [RetainedKinds -> Seq(Message)] /\ "tx" \in RetainedKinds
  BY DEF ReadingInv, DataTypes, RetainedKinds
<1>2. retained'["tx"] = retained["tx"] => RetainedSession' = RetainedSession
  BY DEF RetainedSession, Sessions
<1>3. CASE DeviceConnect
  <2> DEFINE m == Status(TRUE)
  <2>1. m \in Message /\ m.kind = "status"
    BY MessagesTyped
  <2>2. outbox' = <<m>> \o outbox /\ retained' = retained
    BY <1>3 DEF DeviceConnect, broker
  <2> HIDE DEF m
  <2>3. Tied(<<m>> \o outbox, RetainedSession)
    BY <1>1, <2>1, TiedBehind
  <2> QED
    BY <1>2, <2>2, <2>3
<1>4. CASE PublishReading
  <2> DEFINE m == ReadingSaid
  <2>1. /\ Adds(<<m>>)
        /\ m.values.announced => deviceUp = "up" /\ m.values.during = LastTold
    BY <1>4, ReadingAdded
  <2>2. UNCHANGED retained
    BY <1>4 DEF PublishReading, Says, broker
  <2> HIDE DEF m
  <2>3. DOMAIN <<m>> = {1} /\ <<m>>[1] = m
    OBVIOUS
  <2> QED
    BY <2>1, <2>2, <2>3, AddedIsTied
<1>5. CASE Speaks
  <2>1. PICK messages : Tells(messages)
    BY <1>5, Spoken
  <2>2. UNCHANGED retained
    BY <1>5
       DEF Speaks, Announce, Switch, Confirm, StartTx, EndTx, ForceOff, Says, broker
  <2> QED
    BY <2>1, <2>2, AddedIsTied DEF Tells
<1>6. CASE Deliver
  <2> DEFINE m == Head(outbox)
             u == Tail(outbox)
  <2>1. outbox # <<>> /\ m \in Message /\ outbox' = u /\ retained' = RetainAll(retained, <<m>>)
    BY <1>1, <1>6 DEF Deliver, Publish
  <2>2. retained'["tx"] = IF m.kind = "tx" THEN <<m>> ELSE retained["tx"]
    BY <1>1, <2>1, RetainsOne
  <2>3. /\ m.kind = "tx" => Tied(u, {m.tx})
        /\ m.kind # "tx" => Tied(u, RetainedSession)
    BY <1>1, <2>1, TiedTail
  <2>4. m.kind = "tx" => m.tx \in Sessions /\ m = TxState(m.tx)
    BY <2>1, KindsOfMessages
  <2> HIDE DEF m, u
  <2>5. CASE m.kind = "tx"
    <3>1. {m.tx} \subseteq RetainedSession'
      BY <2>2, <2>4, <2>5 DEF RetainedSession, Sessions
    <3>2. Tied(u, RetainedSession')
      BY <2>3, <2>5, <3>1, TiedTo
    <3> QED
      BY <2>1, <3>2
  <2>6. CASE m.kind # "tx"
    BY <1>2, <2>1, <2>2, <2>3, <2>6
  <2> QED
    BY <2>5, <2>6
<1>7. CASE DeviceDisconnect
  <2>1. PICK words \in LastWords(outbox) : Publishes(words)
    BY <1>7, DisconnectPublishes
  <2>2. CASE outbox' = <<>>
    <3>1. DOMAIN <<>> = {}
      OBVIOUS
    <3> QED
      BY <2>2, <3>1 DEF Tied
  <2>3. CASE outbox' = outbox /\ outbox # <<>> /\ Head(outbox).kind = "tx"
    <3>1. Tied(outbox, RetainedSession')
      BY <1>1, <2>3, TiedAnew
    <3> QED
      BY <2>3, <3>1
  <2>4. CASE outbox' = outbox /\ ~(outbox # <<>> /\ Head(outbox).kind = "tx")
    <3>1. Silent(words, {"tx"})
      BY <1>1, <2>1, <2>4, LastWordsSay DEF Silent
    <3>2. \A m : ~LastIsIn(words, {"tx"}, {m}) \/ m.kind # "tx"
      BY <3>1 DEF Silent, LastIsIn
    <3>3. retained'["tx"] = retained["tx"]
      BY <1>1, <2>1, <3>2, PublishedRetained
    <3> QED
      BY <1>1, <1>2, <2>4, <3>3
  <2> QED
    BY <1>7, <2>2, <2>3, <2>4 DEF DeviceDisconnect
<1> QED
  BY <1>3, <1>4, <1>5, <1>6, <1>7 DEF Charger, Speaks

\* A reading is tied to what is believed, and that is what was told before it.
LEMMA ReadIsTied ==
  ASSUME DataTypes, ServiceInv, ReadingInv, IngestMessage
  PROVE  ReadingInv'
<1> DEFINE m == Head(inbox)
           u == Tail(inbox)
           next == applyMessage(states, m)
<1>1. /\ inbox # <<>> /\ inbox \in Seq(Message) /\ m \in Message /\ states \in Lives
      /\ inbox' = u /\ UNCHANGED <<outbox, retained, ids, cache>> /\ cache \subseteq Tx
      /\ Tied(inbox, BelievedSession) /\ Tied(outbox, RetainedSession)
  BY TailFacts DEF IngestMessage, DataTypes, device, ReadingInv
<1>2. /\ m.kind = "tx" => Tied(u, {m.tx})
      /\ m.kind # "tx" => Tied(u, BelievedSession)
      /\ m.kind = "meter" /\ m.values.announced => m.values.during \in BelievedSession
  BY <1>1, TiedTail
<1>3. /\ m.kind = "tx" => m.tx \in Sessions
      /\ m.kind = "tx" => next.transaction = m.tx
      /\ m.kind # "tx" => next.transaction = states.transaction
      /\ m.kind = "meter" => next.meter = m.values
      /\ m.kind # "meter" => next.meter = states.meter
  <2>1. /\ m.kind = "tx" => next.transaction = m.tx
        /\ m.kind # "tx" => next.transaction = states.transaction
        /\ m.kind = "meter" => next.meter = m.values
        /\ m.kind # "meter" => next.meter = states.meter
    BY <1>1, LiveTyped
  <2> HIDE DEF next
  <2>2. m.kind = "tx" => m.tx \in Sessions
    BY <1>1, KindsOfMessages
  <2> QED
    BY <2>1, <2>2
<1>4. states' = IF ids THEN next ELSE states
  BY DEF IngestMessage
<1>5. ~ids => states.transaction = Unknown /\ states' = states /\ reading' = reading
  BY DEF ServiceInv, emptyDeviceState, IngestMessage
<1>6. /\ ids /\ m.kind = "meter" =>
           reading' = IF next.transaction \in cache THEN next.transaction ELSE NoTx
      /\ m.kind # "meter" => reading' = reading
  BY DEF IngestMessage, Reading
<1> HIDE DEF m, u, next
<1>7. Tied(u, BelievedSession')
  <2>1. CASE m.kind = "tx"
    <3>1. {m.tx} \subseteq BelievedSession'
      BY <1>3, <1>4, <1>5, <2>1 DEF BelievedSession, Sessions
    <3> QED
      BY <1>2, <2>1, <3>1, TiedTo
  <2>2. CASE m.kind # "tx"
    <3>1. states'.transaction = states.transaction
      BY <1>3, <1>4, <2>2
    <3>2. BelievedSession' = BelievedSession
      BY <3>1 DEF BelievedSession, Sessions
    <3> QED
      BY <1>2, <2>2, <3>2
  <2> QED
    BY <2>1, <2>2
<1>8. RetainedSession' = RetainedSession
  BY <1>1 DEF RetainedSession, Sessions
<1>9. states'.meter # Unknown /\ reading' \in Tx /\ states'.meter.announced =>
        reading' = states'.meter.during
  <2>1. CASE ~ids \/ m.kind # "meter"
    <3>1. states'.meter = states.meter /\ reading' = reading
      BY <1>3, <1>4, <1>5, <1>6, <2>1
    <3> QED
      BY <3>1 DEF ReadingInv
  <2>2. CASE ids /\ m.kind = "meter"
    <3> SUFFICES ASSUME m.values.announced, reading' \in Tx PROVE reading' = m.values.during
      BY <1>3, <1>4, <2>2
    <3>1. m.values.during \in BelievedSession
      BY <1>2, <2>2
    <3>2. reading' = states.transaction
      BY <1>3, <1>6, <2>2, IngestAssumption
    <3>3. states.transaction # Unknown
      BY <3>2, IngestAssumption
    <3> QED
      BY <3>1, <3>2, <3>3 DEF BelievedSession
  <2> QED
    BY <2>1, <2>2
<1> QED
  BY <1>1, <1>7, <1>8, <1>9 DEF ReadingInv

LEMMA ReadingStep ==
  ASSUME DataTypes, RetainedInv, DeviceInv, ServiceInv, ReadingInv, [Next]_vars
  PROVE  ReadingInv'
<1>1. /\ Tied(outbox, RetainedSession) /\ Tied(inbox, BelievedSession)
      /\ states.meter # Unknown /\ reading \in Tx /\ states.meter.announced =>
           reading = states.meter.during
  BY DEF ReadingInv
<1>2. CASE Charger
  <2>1. Tied(outbox, RetainedSession)'
    BY <1>2, OutboxTied
  <2>2. UNCHANGED <<states, reading>>
    BY <1>2
       DEF Charger, DeviceConnect, Announce, PublishReading, Switch, Confirm, StartTx, EndTx,
           ForceOff, Says, Deliver, DeviceDisconnect, database
  <2>3. BelievedSession' = BelievedSession
    BY <2>2 DEF BelievedSession, Sessions
  <2>4. Tied(inbox', BelievedSession)
    <3>1. CASE Deliver
      BY <3>1, DeliverPublishes, PublishedIsTied
    <3>2. CASE DeviceDisconnect
      BY <3>2, DisconnectPublishes, PublishedIsTied
    <3>3. CASE ~Deliver /\ ~DeviceDisconnect
      <4>1. inbox' = inbox
        BY <1>2, <3>3
           DEF Charger, DeviceConnect, Announce, PublishReading, Switch, Confirm, StartTx, EndTx,
               ForceOff, Says, broker
      <4> QED
        BY <1>1, <4>1
    <3> QED
      BY <3>1, <3>2, <3>3
  <2> QED
    BY <1>1, <2>1, <2>2, <2>3, <2>4 DEF ReadingInv
<1>3. CASE Connect
  <2> DEFINE told == OnSubscribe(retained)
  <2>1. /\ told \in Seq(Message) /\ Silent(told, {"meter"}) /\ inbox \in Seq(Message)
        /\ inbox' = inbox \o told /\ UNCHANGED <<outbox, retained, states, reading>>
    BY <1>3, SubscriptionBrings DEF Connect, DataTypes, device, database
  <2> HIDE DEF told
  <2>2. \A i \in DOMAIN told : told[i].kind # "meter"
    BY <2>1 DEF Silent
  <2>3. Tied(inbox \o told, BelievedSession)
    BY <1>1, <2>1, <2>2, TiedConcat
  <2>4. RetainedSession' = RetainedSession /\ BelievedSession' = BelievedSession
    BY <2>1 DEF RetainedSession, BelievedSession, Sessions
  <2> QED
    BY <1>1, <2>1, <2>3, <2>4 DEF ReadingInv
<1>4. CASE Restart
  <2>1. inbox' = <<>> /\ states' = emptyDeviceState /\ UNCHANGED <<outbox, retained>>
    BY <1>4 DEF Restart, device
  <2>2. states'.meter = Unknown /\ DOMAIN inbox' = {}
    BY <2>1 DEF emptyDeviceState
  <2>3. Tied(inbox', BelievedSession')
    BY <2>2 DEF Tied
  <2>4. RetainedSession' = RetainedSession
    BY <2>1 DEF RetainedSession, Sessions
  <2> QED
    BY <1>1, <2>1, <2>2, <2>3, <2>4 DEF ReadingInv
<1>5. CASE IngestMessage
  BY <1>5, ReadIsTied
<1>6. CASE \/ Refresh \/ LinkLost \/ HandleState \/ RegisterDevice
           \/ (\E t \in Tx : CreateRow(t)) \/ UNCHANGED vars
  <2>1. UNCHANGED <<outbox, retained, inbox, states, reading>>
    BY <1>6
       DEF Refresh, LinkLost, HandleState, RegisterDevice, CreateRow, vars, device, broker,
           database
  <2>2. Tied(outbox, RetainedSession)' /\ Tied(inbox, BelievedSession)'
    BY <1>1, <2>1, SameTied
  <2> QED
    BY <1>1, <2>1, <2>2 DEF ReadingInv
<1> QED
  BY <1>2, <1>3, <1>4, <1>5, <1>6 DEF Next, Service

----------------------------------------------------------------------------
(* The transaction work                                                     *)

LEMMA CacheStep ==
  ASSUME DataTypes, CacheInv, [Next]_vars
  PROVE  CacheInv'
<1>1. chain \in Seq(Tx) /\ states \in Lives /\ Unknown \notin Tx /\ NoTx \notin Tx
  BY IngestAssumption DEF DataTypes
<1>2. CASE IngestMessage
  <2> DEFINE m == Head(inbox)
             next == applyMessage(states, m)
  <2>1. inbox # <<>> /\ inbox \in Seq(Message) /\ m \in Message
    BY <1>2, TailFacts DEF IngestMessage, DataTypes
  <2>2. /\ m.kind = "tx" => m.tx \in Sessions /\ next.transaction = m.tx
        /\ m.kind # "tx" => next.transaction = states.transaction
    <3>1. /\ m.kind = "tx" => next.transaction = m.tx
          /\ m.kind # "tx" => next.transaction = states.transaction
      BY <1>1, <2>1, LiveTyped
    <3> HIDE DEF next
    <3>2. m.kind = "tx" => m.tx \in Sessions
      BY <2>1, KindsOfMessages
    <3> QED
      BY <3>1, <3>2
  <2>3. UNCHANGED <<cache, untied>>
    BY <1>2 DEF IngestMessage
  <2>4. CASE ~ids \/ m.kind # "tx"
    <3>1. /\ states' = IF ids THEN next ELSE states
          /\ chain' = chain
      BY <1>2, <2>4 DEF IngestMessage
    <3> HIDE DEF m, next
    <3>2. states'.transaction = states.transaction
      BY <2>2, <2>4, <3>1
    <3> QED
      BY <2>3, <3>1, <3>2 DEF CacheInv
  <2>5. CASE ids /\ m.kind = "tx"
    <3>1. states' = next /\ chain' = IF m.tx = NoTx THEN chain ELSE Append(chain, m.tx)
      BY <1>2, <2>5 DEF IngestMessage
    <3> HIDE DEF m, next
    <3>2. states'.transaction = m.tx /\ m.tx \in Sessions
      BY <2>2, <2>5, <3>1
    <3>3. CASE m.tx = NoTx
      BY <1>1, <3>2, <3>3 DEF CacheInv
    <3>4. CASE m.tx # NoTx
      <4>1. Len(chain) + 1 \in DOMAIN Append(chain, m.tx)
            /\ Append(chain, m.tx)[Len(chain) + 1] = m.tx
        BY <1>1
      <4> QED
        BY <3>1, <3>2, <3>4, <4>1 DEF CacheInv
    <3> QED
      BY <3>3, <3>4
  <2> QED
    BY <2>4, <2>5
<1>3. CASE HandleState
  <2> DEFINE t == Head(chain)
             u == Tail(chain)
  <2>1. /\ chain # <<>> /\ chain' = u /\ states' = states
        /\ \/ cache' = cache \union {t} /\ untied' = untied \ {t}
           \/ cache' = cache /\ untied' = untied \union {t}
    BY <1>3 DEF HandleState
  <2>2. /\ t = chain[1] /\ Len(chain) \in Nat /\ DOMAIN chain = 1..Len(chain)
        /\ DOMAIN u = 1..(Len(chain) - 1)
        /\ \A i \in 1..(Len(chain) - 1) : u[i] = chain[i + 1]
    BY <1>1, <2>1, TailFacts
  <2> HIDE DEF t, u
  <2>3. \A i \in DOMAIN chain : i = 1 \/ (i - 1 \in DOMAIN u /\ u[i - 1] = chain[i])
    BY <2>2
  <2> SUFFICES ASSUME states.transaction \in Tx \ untied'
               PROVE  \/ states.transaction \in cache'
                      \/ \E i \in DOMAIN u : u[i] = states.transaction
    BY <2>1 DEF CacheInv
  <2>4. CASE states.transaction = t
    BY <2>1, <2>4
  <2>5. CASE states.transaction # t
    <3>1. states.transaction \in Tx \ untied
      BY <2>1, <2>5
    <3>2. CASE states.transaction \in cache
      BY <2>1, <3>2
    <3>3. CASE \E i \in DOMAIN chain : chain[i] = states.transaction
      BY <2>2, <2>3, <2>5, <3>3
    <3> QED
      BY <3>1, <3>2, <3>3 DEF CacheInv
  <2> QED
    BY <2>4, <2>5
<1>4. CASE Restart
  <2>1. states'.transaction = Unknown
    BY <1>4 DEF Restart, emptyDeviceState
  <2> QED
    BY <1>1, <2>1 DEF CacheInv
<1>5. CASE ~IngestMessage /\ ~HandleState /\ ~Restart
  <2>1. UNCHANGED <<states, cache, chain, untied>>
    BY <1>5
       DEF Next, Charger, Service, DeviceConnect, Announce, PublishReading, Switch, Confirm,
           StartTx, EndTx, ForceOff, Says, Deliver, DeviceDisconnect, RegisterDevice, CreateRow, Refresh, Connect,
           LinkLost, vars, history
  <2> QED
    BY <2>1 DEF CacheInv
<1> QED
  BY <1>2, <1>3, <1>4, <1>5

----------------------------------------------------------------------------
(* The theorems                                                             *)

LEMMA InitHolds == Init => IInv
<1> SUFFICES ASSUME Init PROVE IInv
  OBVIOUS
<1>1. DataTypes
  BY InitTypes
<1>2. \A k \in RetainedKinds : retained[k] = <<>>
  BY DEF Init, NothingRetained
<1>3. outbox = <<>> /\ inbox = <<>> /\ DOMAIN outbox = {} /\ DOMAIN inbox = {}
  BY DEF Init
<1>4. RetainedInv
  BY <1>2 DEF RetainedInv
<1>5. DeviceInv
  BY <1>3 DEF DeviceInv, Init
<1>6. /\ states.relay = Unknown /\ states.transaction = Unknown /\ states.meter = Unknown
      /\ Unknown \notin Tx
  BY IngestAssumption DEF Init, emptyDeviceState
<1>7. ServiceInv
  BY <1>6 DEF ServiceInv, Init
<1>8. Tied(outbox, RetainedSession) /\ Tied(inbox, BelievedSession)
  BY <1>3 DEF Tied
<1>9. ReadingInv /\ CacheInv
  BY <1>6, <1>8 DEF ReadingInv, CacheInv
<1> QED
  BY <1>1, <1>4, <1>5, <1>7, <1>9 DEF IInv

\* Every state has the invariant.
THEOREM InvariantHolds == Spec => []IInv
<1>1. IInv /\ [Next]_vars => IInv'
  BY TypesStep, RetainedStep, DeviceStep, ServiceStep, ReadingStep, CacheStep DEF IInv
<1> QED
  BY InitHolds, <1>1, PTL DEF Spec

\* When all that a connected charger said has been read, by a service that knew it when it
\* read it, what applyMessage made of it is true of the contactor and of the session that
\* runs, or, when none does, is the one a forced off ended if no state was told since; and
\* the last relay event is true: after any number of lost connections, resets and restarts.
THEOREM StatesAreTrue == Spec => []StateIsTrue
<1>1. ASSUME IInv PROVE StateIsTrue
  <2> SUFFICES ASSUME linkUp, inbox = <<>>, deviceUp = "up", outbox = <<>>, ~missed
               PROVE  /\ states.online = TRUE /\ states.relay = relay
                      /\ states.transaction = LastTold /\ log.relay = relay
    BY DEF StateIsTrue, AllRead, LastTold
  <2>1. /\ \A K, S : ~LastIsIn(outbox, K, S) /\ ~LastIsIn(inbox, K, S)
        /\ ~\E i \in DOMAIN outbox : outbox[i] = Status(TRUE)
    <3>1. DOMAIN outbox = {} /\ DOMAIN inbox = {}
      OBVIOUS
    <3> QED
      BY <3>1 DEF LastIsIn
  <2>2. /\ retained["status"] = <<Status(TRUE)>> /\ retained["relay"] = <<Relay(relay)>>
        /\ retained["tx"] = <<TxState(LastTold)>>
    BY <1>1, <2>1 DEF IInv, DeviceInv, Announced
  <2>3. states.online = TRUE
    BY <1>1, <2>1, <2>2 DEF IInv, ServiceInv
  <2>4. states.relay = relay
    <3>1. Relay(relay) \in Message
      BY <1>1, MessagesTyped, ZenonT(30) DEF IInv, DataTypes
    <3>2. Relay(relay).kind = "relay" /\ Relay(relay).on = relay
      BY DEF Relay
    <3>3. Followed("relay", Relay(relay), states.relay, Relay(relay).on)
      BY <1>1, <2>2, <3>1, <3>2 DEF IInv, ServiceInv
    <3> QED
      BY <2>1, <3>2, <3>3 DEF Followed
  <2>5. states.transaction = LastTold
    <3>1. TxState(LastTold) \in Message
      BY <1>1, MessagesTyped DEF IInv, DataTypes, LastTold
    <3>2. TxState(LastTold).kind = "tx" /\ TxState(LastTold).tx = LastTold
      BY DEF TxState
    <3>3. Followed("tx", TxState(LastTold), states.transaction, TxState(LastTold).tx)
      BY <1>1, <2>2, <3>1, <3>2 DEF IInv, ServiceInv
    <3> QED
      BY <2>1, <3>2, <3>3 DEF Followed
  <2>6. log.relay = relay
    <3>1. relay \in BOOLEAN
      BY <1>1 DEF IInv, DataTypes
    <3>2. states.relay # Unknown
      BY <2>4, <3>1, IngestAssumption
    <3> QED
      BY <1>1, <2>4, <3>2 DEF IInv, ServiceInv
  <2> QED
    BY <2>3, <2>4, <2>5, <2>6
<1> QED
  BY InvariantHolds, <1>1, PTL

\* Reading ties a reading to no transaction but the one it was published in, or the one a
\* forced off ended before it with no state told since, once the charger has announced
\* itself; and when the chain of work is empty, the transaction the charger
\* tells of is in the cache, unless its row was not found.
THEOREM ReadingsTied == Spec => []ReadingsAreTied
<1>1. ASSUME IInv PROVE ReadingsAreTied
  <2>1. chain = <<>> => ~\E i \in DOMAIN chain : chain[i] = states.transaction
    OBVIOUS
  <2> QED
    BY <1>1, <2>1 DEF IInv, ReadingInv, CacheInv, ReadingsAreTied
<1> QED
  BY InvariantHolds, <1>1, PTL
===================================================================================
