---------------------------- MODULE Dashboard_proofs ----------------------------
(***************************************************************************)
(* Proofs about Dashboard, for any tenants, changes, faults and            *)
(* assignments.                                                            *)
(***************************************************************************)
EXTENDS Dashboard, SequenceTheorems, TLAPS

----------------------------------------------------------------------------
(* Sequences                                                                *)

LEMMA TailFacts ==
  ASSUME NEW S, NEW s \in Seq(S), s # <<>>
  PROVE  /\ Head(s) = s[1] /\ s[1] \in S /\ Tail(s) \in Seq(S)
         /\ Len(s) \in Nat /\ Len(s) > 0 /\ DOMAIN s = 1..Len(s)
         /\ Len(Tail(s)) = Len(s) - 1 /\ DOMAIN Tail(s) = 1..(Len(s) - 1)
         /\ \A i \in 1..(Len(s) - 1) : Tail(s)[i] = s[i + 1]
  OBVIOUS

LEMMA ConcatFacts ==
  ASSUME NEW S, NEW s \in Seq(S), NEW t \in Seq(S)
  PROVE  /\ s \o t \in Seq(S) /\ Len(s) \in Nat /\ Len(t) \in Nat
         /\ Len(s \o t) = Len(s) + Len(t)
         /\ DOMAIN s = 1..Len(s) /\ DOMAIN t = 1..Len(t) /\ DOMAIN (s \o t) = 1..(Len(s) + Len(t))
         /\ \A i \in 1..Len(s) : (s \o t)[i] = s[i]
         /\ \A i \in 1..Len(t) : (s \o t)[Len(s) + i] = t[i]
  OBVIOUS

LEMMA LiteralFacts ==
  ASSUME NEW S, NEW a \in S, NEW b \in S, NEW c \in S
  PROVE  /\ <<>> \in Seq(S)
         /\ <<a>> \in Seq(S) /\ Len(<<a>>) = 1 /\ DOMAIN <<a>> = {1} /\ <<a>>[1] = a
         /\ <<a, b>> \in Seq(S) /\ Len(<<a, b>>) = 2 /\ DOMAIN <<a, b>> = {1, 2}
         /\ <<a, b>>[1] = a /\ <<a, b>>[2] = b
         /\ <<a, b, c>> \in Seq(S) /\ Len(<<a, b, c>>) = 3 /\ DOMAIN <<a, b, c>> = {1, 2, 3}
         /\ <<a, b, c>>[1] = a /\ <<a, b, c>>[2] = b /\ <<a, b, c>>[3] = c
  OBVIOUS

----------------------------------------------------------------------------
(* Messages                                                                 *)

StatusMessages == {Status(on) : on \in BOOLEAN}
RelayMessages == {Relay(on) : on \in BOOLEAN}
TxMessages == {TxState(Session), TxState(NoTx)}
MeterMessages == {Meter(Unknown)}
Message == StatusMessages \union RelayMessages \union TxMessages \union MeterMessages
Lives ==
  [online : BOOLEAN \union {Unknown}, relay : BOOLEAN \union {Unknown},
   meter : {Unknown}, transaction : {Session, NoTx, Unknown}]

LEMMA MessagesTyped ==
  /\ \A on \in BOOLEAN : Status(on) \in Message /\ Relay(on) \in Message
  /\ TxState(Session) \in Message /\ TxState(NoTx) \in Message /\ ThisTx \in Message
  /\ Meter(Unknown) \in Message
  /\ \A on : Status(on).kind = "status" /\ Relay(on).kind = "relay"
  /\ ThisTx.kind = "tx" /\ \A tx : TxState(tx).kind = "tx"
  /\ Meter(Unknown).kind = "meter"
<1>1. \A on \in BOOLEAN : Status(on) \in Message /\ Relay(on) \in Message
  BY DEF Message, StatusMessages, RelayMessages
<1>2. TxState(Session) \in Message /\ TxState(NoTx) \in Message /\ Meter(Unknown) \in Message
  BY DEF Message, TxMessages, MeterMessages
<1>3. ThisTx = TxState(Session) \/ ThisTx = TxState(NoTx)
  BY DEF ThisTx
<1>4. /\ \A on : Status(on).kind = "status" /\ Relay(on).kind = "relay"
      /\ \A tx : TxState(tx).kind = "tx"
      /\ Meter(Unknown).kind = "meter"
  BY DEF Status, Relay, TxState, Meter
<1> QED
  BY <1>1, <1>2, <1>3, <1>4

LEMMA KindsOfMessages ==
  ASSUME NEW m \in Message
  PROVE  /\ m.kind \in {"status", "relay", "tx", "meter"}
         /\ m.kind = "status" => m \in StatusMessages /\ m.online \in BOOLEAN
         /\ m.kind = "relay" => m \in RelayMessages /\ m.on \in BOOLEAN
         /\ m.kind = "tx" => m \in TxMessages /\ m.tx \in {Session, NoTx}
         /\ m.kind = "meter" => m \in MeterMessages /\ m.values = Unknown
  BY DEF Message, StatusMessages, RelayMessages, TxMessages, MeterMessages,
         Status, Relay, TxState, Meter

LEMMA LiveTyped ==
  ASSUME NEW v \in Lives, NEW m \in Message
  PROVE  applyMessage(v, m) \in Lives
<1>1. CASE m.kind = "status"
  BY <1>1, KindsOfMessages DEF applyMessage, Lives
<1>2. CASE m.kind = "relay"
  BY <1>2, KindsOfMessages DEF applyMessage, Lives
<1>3. CASE m.kind = "tx"
  BY <1>3, KindsOfMessages DEF applyMessage, Lives
<1>4. CASE m.kind = "meter"
  BY <1>4, KindsOfMessages DEF applyMessage, Lives
<1> QED
  BY <1>1, <1>2, <1>3, <1>4, KindsOfMessages

LEMMA MaxIsIn ==
  ASSUME NEW S, S \subseteq {1, 2, 3}, S # {}
  PROVE  Max(S) \in S /\ \A y \in S : Max(S) >= y
<1>1. \E x \in S : \A y \in S : x >= y
  <2>1. CASE 3 \in S
    BY <2>1
  <2>2. CASE 3 \notin S /\ 2 \in S
    BY <2>2
  <2>3. CASE 3 \notin S /\ 2 \notin S
    <3>1. S = {1}
      BY <2>3
    <3> QED
      BY <3>1
  <2> QED
    BY <2>1, <2>2, <2>3
<1> QED
  BY <1>1 DEF Max

\* What is left of a set when its largest element is taken away.
Less(S) == S \ {Max(S)}

LEMMA ThreeTimesLess ==
  ASSUME NEW S, S \subseteq {1, 2, 3}, S # {}
  PROVE  /\ Less(S) \subseteq S
         /\ Less(S) # {} /\ Less(Less(S)) # {} => Less(Less(Less(S))) = {}
<1>1. Less(S) \subseteq S /\ Max(S) \in S /\ Max(S) \notin Less(S)
  BY MaxIsIn DEF Less
<1>2. ASSUME Less(S) # {}, Less(Less(S)) # {} PROVE Less(Less(Less(S))) = {}
  <2> DEFINE a == Max(S)
  <2> DEFINE b == Max(Less(S))
  <2> DEFINE c == Max(Less(Less(S)))
  <2>1. b \in Less(S) /\ Less(Less(S)) \subseteq Less(S) /\ b \notin Less(Less(S))
    BY <1>1, <1>2, MaxIsIn DEF Less
  <2>2. c \in Less(Less(S))
    BY <1>1, <1>2, <2>1, MaxIsIn
  <2>3. Less(Less(Less(S))) = Less(Less(S)) \ {c}
    BY DEF Less
  <2>4. Less(Less(S)) = (S \ {a}) \ {b}
    BY DEF Less
  <2> HIDE DEF a, b, c
  <2>5. a \in S /\ b \in S /\ c \in S /\ a # b /\ a # c /\ b # c
    BY <1>1, <2>1, <2>2, <2>4 DEF a
  <2> QED
    BY <2>3, <2>4, <2>5
<1> QED
  BY <1>1, <1>2

LEMMA FoldTyped ==
  ASSUME NEW base \in Lives, NEW seq \in Seq(Message), Len(seq) \in {1, 2, 3}
  PROVE  FoldLeft(applyMessage, base, seq) \in Lives
<1> DEFINE D == DOMAIN seq
<1> DEFINE Step(v, s) == applyMessage(v, seq[Max(s)])
<1> DEFINE A1(s) == IF s = {} THEN base ELSE Step(base, s)
<1> DEFINE A2(s) == IF s = {} THEN base ELSE Step(A1(Less(s)), s)
<1> DEFINE A3(s) == IF s = {} THEN base ELSE Step(A2(Less(s)), s)
<1> DEFINE G(g) == [s \in SUBSET D |-> IF s = {} THEN base ELSE Step(g[Less(s)], s)]
<1> DEFINE h == [s \in SUBSET D |-> A3(s)]
<1> DEFINE iter == CHOOSE g : g = G(g)
<1>1. FoldLeft(applyMessage, base, seq) = iter[D]
  BY DEF FoldLeft, MapThenFoldSet, Less
<1>2. D \subseteq {1, 2, 3} /\ D # {} /\ \A i \in D : seq[i] \in Message
  OBVIOUS
<1>3. ASSUME NEW s \in SUBSET D, s # {} PROVE A2(Less(s)) = A3(Less(s))
  <2>1. Less(s) # {} /\ Less(Less(s)) # {} => Less(Less(Less(s))) = {}
    BY <1>2, <1>3, ThreeTimesLess
  <2> HIDE DEF Step
  <2> QED
    BY <2>1
<1>4. ASSUME NEW s \in SUBSET D, s # {} PROVE Less(s) \in SUBSET D
  BY <1>4 DEF Less
<1>5. h = G(h)
  <2> HIDE DEF Step, A2, D
  <2>1. \A s \in SUBSET D : A3(s) = IF s = {} THEN base ELSE Step(h[Less(s)], s)
    <3> SUFFICES ASSUME NEW s \in SUBSET D, s # {} PROVE A3(s) = Step(h[Less(s)], s)
      OBVIOUS
    <3>1. h[Less(s)] = A2(Less(s))
      BY <1>3, <1>4
    <3> QED
      BY <3>1
  <2> QED
    BY <2>1
<1>6. iter = G(iter)
  <2> HIDE DEF G, h
  <2> QED
    BY <1>5
<1>7. /\ iter[{}] = base
      /\ \A s \in SUBSET D : s # {} => iter[s] = Step(iter[Less(s)], s)
  <2> HIDE DEF iter, D, Step
  <2> QED
    BY <1>6
<1>8. \A v \in Lives, s \in SUBSET D : s # {} => Step(v, s) \in Lives
  <2> SUFFICES ASSUME NEW v \in Lives, NEW s \in SUBSET D, s # {} PROVE Step(v, s) \in Lives
    OBVIOUS
  <2>1. Max(s) \in D
    BY <1>2, MaxIsIn
  <2> QED
    BY <1>2, <2>1, LiveTyped
<1>9. /\ Less(D) \in SUBSET D
      /\ Less(D) # {} => Less(Less(D)) \in SUBSET D
      /\ Less(D) # {} /\ Less(Less(D)) # {} => Less(Less(Less(D))) = {}
  <2> HIDE DEF D
  <2> QED
    BY <1>2, <1>4, ThreeTimesLess
<1> HIDE DEF iter, D, Step
<1>10. \A s \in SUBSET D : s # {} /\ iter[Less(s)] \in Lives => iter[s] \in Lives
  BY <1>7, <1>8
<1>11. iter[{}] \in Lives
  BY <1>7
<1>12. Less(D) # {} => iter[Less(D)] \in Lives
  <2> SUFFICES ASSUME Less(D) # {} PROVE iter[Less(D)] \in Lives
    OBVIOUS
  <2>1. CASE Less(Less(D)) = {}
    BY <1>9, <1>10, <1>11, <2>1
  <2>2. CASE Less(Less(D)) # {}
    <3>1. iter[Less(Less(D))] \in Lives
      BY <1>9, <1>10, <1>11, <2>2
    <3> QED
      BY <1>9, <1>10, <3>1
  <2> QED
    BY <2>1, <2>2
<1>13. iter[D] \in Lives
  BY <1>2, <1>10, <1>11, <1>12
<1> QED
  BY <1>1, <1>13

\* What is retained: of one to three messages the last of each kind.
LEMMA RetainsLast ==
  ASSUME NEW r \in [RetainedKinds -> Seq(Message)], NEW messages \in Seq(Message),
         Len(messages) \in {1, 2, 3}
  PROVE  /\ RetainAll(r, messages) \in [RetainedKinds -> Seq(Message)]
         /\ \A k \in RetainedKinds :
              \/ /\ RetainAll(r, messages)[k] = r[k]
                 /\ \A i \in DOMAIN messages : messages[i].kind # k
              \/ \E i \in DOMAIN messages :
                   /\ messages[i].kind = k /\ RetainAll(r, messages)[k] = <<messages[i]>>
                   /\ \A j \in DOMAIN messages : messages[j].kind = k => i >= j
<1> DEFINE OfKind(k) == {i \in DOMAIN messages : messages[i].kind = k}
<1>1. ASSUME NEW k \in RetainedKinds, OfKind(k) # {} 
      PROVE  Max(OfKind(k)) \in OfKind(k) /\ \A j \in OfKind(k) : Max(OfKind(k)) >= j
  <2>1. OfKind(k) \subseteq {1, 2, 3}
    OBVIOUS
  <2> HIDE DEF OfKind
  <2> QED
    BY <1>1, <2>1, MaxIsIn
<1>2. \A k \in RetainedKinds :
        RetainAll(r, messages)[k] = IF OfKind(k) = {} THEN r[k] ELSE <<messages[Max(OfKind(k))]>>
  BY DEF RetainAll
<1>3. RetainAll(r, messages) = [k \in RetainedKinds |-> RetainAll(r, messages)[k]]
  BY DEF RetainAll
<1>4. ASSUME NEW k \in RetainedKinds
      PROVE  \/ RetainAll(r, messages)[k] = r[k] /\ OfKind(k) = {}
             \/ \E i \in OfKind(k) : /\ RetainAll(r, messages)[k] = <<messages[i]>>
                                     /\ \A j \in OfKind(k) : i >= j
  <2> HIDE DEF OfKind
  <2> QED
    BY <1>1, <1>2
<1>5. \A i \in DOMAIN messages : messages[i] \in Message
  OBVIOUS
<1>6. ASSUME NEW k \in RetainedKinds PROVE RetainAll(r, messages)[k] \in Seq(Message)
  <2>1. CASE RetainAll(r, messages)[k] = r[k]
    BY <2>1
  <2>2. ASSUME NEW i \in DOMAIN messages, RetainAll(r, messages)[k] = <<messages[i]>>
        PROVE  RetainAll(r, messages)[k] \in Seq(Message)
    BY <1>5, <2>2, LiteralFacts
  <2> QED
    BY <1>4, <2>1, <2>2
<1> QED
  BY <1>3, <1>4, <1>6

LEMMA SubscribeTyped ==
  ASSUME NEW r \in [RetainedKinds -> Seq(Message)]
  PROVE  OnSubscribe(r) \in Seq(Message)
<1>1. /\ r["status"] \in Seq(Message) /\ r["relay"] \in Seq(Message)
      /\ r["tx"] \in Seq(Message)
  BY DEF RetainedKinds
<1>2. r["status"] \o r["relay"] \in Seq(Message)
  BY <1>1, ConcatFacts
<1> QED
  BY <1>1, <1>2, ConcatFacts DEF OnSubscribe

----------------------------------------------------------------------------
(* What a sequence of messages says                                         *)

Silent(s, K) == \A i \in DOMAIN s : s[i].kind \notin K

\* There is a message in S, and later ones of these kinds are in S, too.
LastIsIn(s, K, S) ==
  \E i \in DOMAIN s :
    s[i] \in S /\ \A j \in DOMAIN s : j >= i /\ s[j].kind \in K => s[j] \in S

LEMMA SaidInConcat ==
  ASSUME NEW s \in Seq(Message), NEW t \in Seq(Message), NEW K, NEW S
  PROVE  /\ LastIsIn(t, K, S) => LastIsIn(s \o t, K, S)
         /\ Silent(t, K) /\ LastIsIn(s, K, S) => LastIsIn(s \o t, K, S)
         /\ Silent(t, K) /\ Silent(s, K) => Silent(s \o t, K)
<1> DEFINE u == s \o t
<1>1. /\ Len(s) \in Nat /\ Len(t) \in Nat
      /\ DOMAIN s = 1..Len(s) /\ DOMAIN t = 1..Len(t) /\ DOMAIN u = 1..(Len(s) + Len(t))
      /\ \A i \in 1..Len(s) : u[i] = s[i]
      /\ \A i \in 1..Len(t) : u[Len(s) + i] = t[i]
  BY ConcatFacts
<1> HIDE DEF u
<1>2. ASSUME NEW i \in DOMAIN u
      PROVE  i \in 1..Len(s) \/ \E j \in 1..Len(t) : i = Len(s) + j /\ u[i] = t[j]
  <2> SUFFICES ASSUME i \notin 1..Len(s) PROVE \E j \in 1..Len(t) : i = Len(s) + j /\ u[i] = t[j]
    OBVIOUS
  <2>1. i - Len(s) \in 1..Len(t) /\ i = Len(s) + (i - Len(s))
    BY <1>1
  <2> QED
    BY <1>1, <2>1
<1>3. ASSUME LastIsIn(t, K, S) PROVE LastIsIn(u, K, S)
  <2>1. PICK i \in DOMAIN t : t[i] \in S /\ \A j \in DOMAIN t : j >= i /\ t[j].kind \in K => t[j] \in S
    BY <1>3 DEF LastIsIn
  <2>2. Len(s) + i \in DOMAIN u /\ u[Len(s) + i] \in S
    BY <1>1, <2>1
  <2>3. ASSUME NEW j \in DOMAIN u, j >= Len(s) + i, u[j].kind \in K PROVE u[j] \in S
    <3>1. j \notin 1..Len(s)
      BY <1>1, <2>3
    <3>2. PICK n \in 1..Len(t) : j = Len(s) + n /\ u[j] = t[n]
      BY <1>2, <3>1
    <3> QED
      BY <1>1, <2>1, <2>3, <3>2
  <2> QED
    BY <2>2, <2>3 DEF LastIsIn
<1>4. ASSUME Silent(t, K), LastIsIn(s, K, S) PROVE LastIsIn(u, K, S)
  <2>1. PICK i \in DOMAIN s : s[i] \in S /\ \A j \in DOMAIN s : j >= i /\ s[j].kind \in K => s[j] \in S
    BY <1>4 DEF LastIsIn
  <2>2. i \in DOMAIN u /\ u[i] \in S
    BY <1>1, <2>1
  <2>3. ASSUME NEW j \in DOMAIN u, j >= i, u[j].kind \in K PROVE u[j] \in S
    BY <1>1, <1>2, <1>4, <2>1, <2>3 DEF Silent
  <2> QED
    BY <2>2, <2>3 DEF LastIsIn
<1>5. ASSUME Silent(t, K), Silent(s, K) PROVE Silent(u, K)
  BY <1>1, <1>2, <1>5 DEF Silent
<1> QED
  BY <1>3, <1>4, <1>5 DEF u

LEMMA SaidInTail ==
  ASSUME NEW s \in Seq(Message), s # <<>>, NEW K, NEW S
  PROVE  /\ Silent(s, K) => Head(s).kind \notin K /\ Silent(Tail(s), K)
         /\ LastIsIn(s, K, S) =>
              LastIsIn(Tail(s), K, S) \/ (Head(s) \in S /\ Silent(Tail(s), K))
<1> DEFINE u == Tail(s)
<1>1. /\ Head(s) = s[1] /\ Len(s) \in Nat /\ Len(s) > 0 /\ DOMAIN s = 1..Len(s)
      /\ DOMAIN u = 1..(Len(s) - 1)
      /\ \A i \in 1..(Len(s) - 1) : u[i] = s[i + 1]
  BY TailFacts
<1> HIDE DEF u
<1>2. \A i \in DOMAIN u : i + 1 \in DOMAIN s /\ u[i] = s[i + 1]
  BY <1>1
<1>3. Silent(s, K) => Head(s).kind \notin K /\ Silent(u, K)
  BY <1>1, <1>2 DEF Silent
<1>4. ASSUME LastIsIn(s, K, S), ~LastIsIn(u, K, S) PROVE Head(s) \in S /\ Silent(u, K)
  <2>1. PICK i \in DOMAIN s : s[i] \in S /\ \A j \in DOMAIN s : j >= i /\ s[j].kind \in K => s[j] \in S
    BY <1>4 DEF LastIsIn
  <2>2. i = 1
    <3>1. SUFFICES ASSUME i # 1 PROVE FALSE
      OBVIOUS
    <3>2. i - 1 \in DOMAIN u /\ u[i - 1] = s[i]
      BY <1>1, <3>1
    <3>3. \A j \in DOMAIN u : j >= i - 1 /\ u[j].kind \in K => u[j] \in S
      BY <1>1, <1>2, <2>1
    <3> QED
      BY <1>4, <2>1, <3>2, <3>3 DEF LastIsIn
  <2>3. \A j \in DOMAIN u : u[j].kind \in K => u[j] \in S
    BY <1>1, <1>2, <2>1, <2>2
  <2>4. Silent(u, K)
    <3> SUFFICES ASSUME NEW j \in DOMAIN u, u[j].kind \in K PROVE FALSE
      BY DEF Silent
    <3> QED
      BY <1>4, <2>3 DEF LastIsIn
  <2> QED
    BY <1>1, <2>1, <2>2, <2>4
<1> QED
  BY <1>3, <1>4 DEF u

LEMMA LastOfTwo ==
  ASSUME NEW a, NEW b, a.kind # b.kind
  PROVE  LastIsIn(<<a, b>>, {a.kind}, {a}) /\ LastIsIn(<<a, b>>, {b.kind}, {b})
<1>1. DOMAIN <<a, b>> = {1, 2} /\ <<a, b>>[1] = a /\ <<a, b>>[2] = b
  OBVIOUS
<1> QED
  BY <1>1 DEF LastIsIn

\* One message, two, or three.
LEMMA SaidAtOnce ==
  ASSUME NEW a \in Message, NEW b \in Message, NEW c \in Message, NEW K, NEW S
  PROVE  /\ a \in S => LastIsIn(<<a>>, K, S)
         /\ a.kind \notin K => Silent(<<a>>, K)
         /\ b \in S => LastIsIn(<<a, b>>, K, S)
         /\ a \in S /\ (b.kind \in K => b \in S) => LastIsIn(<<a, b>>, K, S)
         /\ c \in S => LastIsIn(<<a, b, c>>, K, S)
         /\ b \in S /\ (c.kind \in K => c \in S) => LastIsIn(<<a, b, c>>, K, S)
         /\ a \in S /\ (b.kind \in K => b \in S) /\ (c.kind \in K => c \in S)
              => LastIsIn(<<a, b, c>>, K, S)
<1>1. /\ a \in S => LastIsIn(<<a>>, K, S)
      /\ a.kind \notin K => Silent(<<a>>, K)
  BY DEF LastIsIn, Silent
<1>2. /\ b \in S => LastIsIn(<<a, b>>, K, S)
      /\ a \in S /\ (b.kind \in K => b \in S) => LastIsIn(<<a, b>>, K, S)
  BY LiteralFacts DEF LastIsIn
<1>3. c \in S => LastIsIn(<<a, b, c>>, K, S)
  BY LiteralFacts DEF LastIsIn
<1>4. b \in S /\ (c.kind \in K => c \in S) => LastIsIn(<<a, b, c>>, K, S)
  BY LiteralFacts DEF LastIsIn
<1>5. a \in S /\ (b.kind \in K => b \in S) /\ (c.kind \in K => c \in S)
        => LastIsIn(<<a, b, c>>, K, S)
  BY LiteralFacts DEF LastIsIn
<1> QED
  BY <1>1, <1>2, <1>3, <1>4, <1>5

----------------------------------------------------------------------------
(* The invariant                                                            *)

Card == [tenant : Tenant \union {NoTenant}, live : Lives]

Question == [tenant : Tenant \union {NoTenant}, done : BOOLEAN]

DataTypes ==
  /\ up \in BOOLEAN /\ relay \in BOOLEAN /\ charging \in BOOLEAN /\ cutOff \in BOOLEAN
  /\ retained \in [RetainedKinds -> Seq(Message)]
  /\ registered \in BOOLEAN /\ newer \in 0..ListLimit /\ tenant \in Tenant \union {NoTenant} /\ view \in Lives
  /\ load \in [Loads -> {"free", "asked", "answered"}]
  /\ list \in [Loads -> Card \union {NoCard}]
  /\ asks \subseteq Question
  /\ feedUp \in BOOLEAN /\ inbox \in Seq(Message)
  /\ shown \in Card \union {NoCard} /\ refetchDue \in BOOLEAN
  /\ dropped \in BOOLEAN /\ blurred \in BOOLEAN

\* An answer from before the registration, or one too short for the charger.
Old(k) == load[k] = "answered" /\ list[k] = NoCard

\* No request that is under way can bring a card.
Barren == \A k \in Loads : load[k] = "free" \/ Old(k)

\* While there is a card of a charger that is listed, an old answer is not on its way
\* together with a request that could bring the card again: there are but two at a time.
ListsInv ==
  /\ refetchDue => \E k \in Loads : load[k] = "free"
  /\ shown # NoCard => registered
  /\ \A k \in Loads : list[k] # NoCard => registered
  /\ shown # NoCard /\ newer < ListLimit =>
       \A j, k \in Loads : j # k /\ Old(j) => load[k] = "free" \/ Old(k)

\* What a card shows, the messages that tell it, and those of them that are true of
\* a charger that is connected.
Facts == {"online", "relay", "transaction"}

KindsOf(fact) ==
  CASE fact = "online" -> {"status", "tx", "meter"}
    [] fact = "relay" -> {"relay"}
    [] fact = "transaction" -> {"tx"}

LastTx == IF charging \/ cutOff THEN Session ELSE NoTx

TrueOf(fact) ==
  CASE fact = "online" -> {Status(TRUE)} \union TxMessages \union MeterMessages
    [] fact = "relay" -> {Relay(relay)}
    [] fact = "transaction" -> {TxState(LastTx)}

Shows(fact) ==
  /\ fact = "online" => shown.live.online = TRUE
  /\ fact = "relay" => shown.live.relay = relay
  /\ fact = "transaction" => shown.live.transaction = LastTx

\* The last word is on its way, or on the card, or there is no card and none
\* comes before another message is dropped.
FactInv(fact) ==
  \/ LastIsIn(inbox, KindsOf(fact), TrueOf(fact))
  \/ /\ Silent(inbox, KindsOf(fact))
     /\ shown = NoCard => Barren
     /\ shown # NoCard => Shows(fact)

TruthInv ==
  /\ up => /\ retained["status"] = <<Status(TRUE)>>
           /\ retained["relay"] = <<Relay(relay)>>
           /\ retained["tx"] = <<TxState(LastTx)>>
  /\ feedUp /\ up /\ ~dropped => \A fact \in Facts : FactInv(fact)

\* Before there is a card nobody assigns; from then on it follows the assignment
\* that is under way, one at a time.
TenantInv ==
  ~blurred =>
    /\ shown = NoCard =>
         /\ asks = {} /\ tenant = NoTenant
         /\ \A k \in Loads : list[k] # NoCard => list[k].tenant = NoTenant
    /\ shown # NoCard =>
         /\ asks = {} => shown.tenant = tenant
         /\ \A a, b \in asks : a = b
         /\ \A a \in asks : a.done => tenant = a.tenant

IInv == DataTypes /\ ListsInv /\ TruthInv /\ TenantInv

----------------------------------------------------------------------------
(* What steps do to the data                                                *)

LEMMA CardIsNoNoCard == NoCard \notin Card /\ \A c \in Card : c # NoCard
<1>1. Unknown \notin Tenant \union {NoTenant}
  BY DashboardAssumption
<1> QED
  BY <1>1 DEF Card, NoCard

LEMMA ShownTyped ==
  ASSUME NEW c \in Card, NEW m \in Message, NEW to \in Tenant \union {NoTenant}
  PROVE  /\ [c EXCEPT !.live = applyMessage(@, m)] \in Card
         /\ [c EXCEPT !.live = applyMessage(@, m)].live = applyMessage(c.live, m)
         /\ [c EXCEPT !.live = applyMessage(@, m)].tenant = c.tenant
         /\ [c EXCEPT !.tenant = to] \in Card
         /\ [c EXCEPT !.tenant = to].live = c.live
         /\ [c EXCEPT !.tenant = to].tenant = to
<1>1. applyMessage(c.live, m) \in Lives
  BY LiveTyped DEF Card
<1> QED
  BY <1>1 DEF Card

LEMMA PublishDoes ==
  ASSUME DataTypes, NEW messages \in Seq(Message), Len(messages) \in {1, 2, 3}, Publish(messages)
  PROVE  /\ retained' \in [RetainedKinds -> Seq(Message)] /\ view' \in Lives
         /\ inbox' \in Seq(Message)
         /\ inbox' = IF feedUp THEN inbox \o messages ELSE inbox
         /\ \A k \in RetainedKinds :
              \/ /\ retained'[k] = retained[k]
                 /\ \A i \in DOMAIN messages : messages[i].kind # k
              \/ \E i \in DOMAIN messages :
                   /\ messages[i].kind = k /\ retained'[k] = <<messages[i]>>
                   /\ \A j \in DOMAIN messages : messages[j].kind = k => i >= j
<1>1. retained' = RetainAll(retained, messages) /\ retained \in [RetainedKinds -> Seq(Message)]
  BY DEF Publish, DataTypes
<1>2. view' \in Lives
  BY FoldTyped DEF Publish, DataTypes
<1>3. inbox' = (IF feedUp THEN inbox \o messages ELSE inbox) /\ inbox' \in Seq(Message)
  BY ConcatFacts DEF Publish, DataTypes
<1>4. /\ retained' \in [RetainedKinds -> Seq(Message)]
      /\ \A k \in RetainedKinds :
           \/ /\ retained'[k] = retained[k]
              /\ \A i \in DOMAIN messages : messages[i].kind # k
           \/ \E i \in DOMAIN messages :
                /\ messages[i].kind = k /\ retained'[k] = <<messages[i]>>
                /\ \A j \in DOMAIN messages : messages[j].kind = k => i >= j
  <2> DEFINE after == RetainAll(retained, messages)
  <2>1. /\ after \in [RetainedKinds -> Seq(Message)]
        /\ \A k \in RetainedKinds :
             \/ /\ after[k] = retained[k]
                /\ \A i \in DOMAIN messages : messages[i].kind # k
             \/ \E i \in DOMAIN messages :
                  /\ messages[i].kind = k /\ after[k] = <<messages[i]>>
                  /\ \A j \in DOMAIN messages : messages[j].kind = k => i >= j
    BY <1>1, RetainsLast
  <2> HIDE DEF after
  <2>2. retained' = after
    BY <1>1 DEF after
  <2> QED
    BY <2>1, <2>2
<1> QED
  BY <1>2, <1>3, <1>4

\* Everything but the charger and what it says.
Elsewhere == UNCHANGED <<database, requests, feedUp, page, history>>

\* What is said last is true of the charger then, and what nothing is said of stays
\* as it was.
Tells(messages) ==
  /\ \/ LastIsIn(messages, {"status"}, {Status(TRUE)})
     \/ Silent(messages, {"status"}) /\ up
  /\ \/ LastIsIn(messages, {"relay"}, {Relay(relay')})
     \/ Silent(messages, {"relay"}) /\ up /\ relay' = relay
  /\ \/ LastIsIn(messages, {"tx"}, {TxState(LastTx')})
     \/ Silent(messages, {"tx"}) /\ up /\ LastTx' = LastTx

\* The last message that tells whether a charger is online tells that it is.
LEMMA OnlineSaid ==
  ASSUME NEW s \in Seq(Message)
  PROVE  /\ LastIsIn(s, {"status"}, {Status(TRUE)}) => LastIsIn(s, KindsOf("online"), TrueOf("online"))
         /\ Silent(s, {"status"}) =>
              LastIsIn(s, KindsOf("online"), TrueOf("online")) \/ Silent(s, KindsOf("online"))
<1> DEFINE K == KindsOf("online")
           T == TrueOf("online")
<1>0. K = {"status", "tx", "meter"} /\ T = {Status(TRUE)} \union TxMessages \union MeterMessages
  BY DEF KindsOf, TrueOf
<1> HIDE DEF K, T
<1>1. \A i \in DOMAIN s : s[i] \in Message
  OBVIOUS
<1>2. \A i \in DOMAIN s : s[i].kind \in {"tx", "meter"} => s[i] \in T
  BY <1>0, <1>1, KindsOfMessages
<1>3. ASSUME LastIsIn(s, {"status"}, {Status(TRUE)}) PROVE LastIsIn(s, K, T)
  <2>1. PICK i \in DOMAIN s :
          /\ s[i] = Status(TRUE)
          /\ \A j \in DOMAIN s : j >= i /\ s[j].kind = "status" => s[j] = Status(TRUE)
    BY <1>3 DEF LastIsIn
  <2>2. s[i] \in T
    BY <1>0, <2>1
  <2>3. \A j \in DOMAIN s : j >= i /\ s[j].kind \in K => s[j] \in T
    BY <1>0, <1>2, <2>1
  <2> QED
    BY <2>2, <2>3 DEF LastIsIn
<1>4. ASSUME Silent(s, {"status"}) PROVE LastIsIn(s, K, T) \/ Silent(s, K)
  <2>1. \A i \in DOMAIN s : s[i].kind \in K => s[i] \in T
    BY <1>0, <1>2, <1>4 DEF Silent
  <2> QED
    BY <2>1 DEF LastIsIn, Silent
<1> QED
  BY <1>3, <1>4 DEF K, T

\* Fact by fact.
LEMMA FactTold ==
  ASSUME NEW messages \in Seq(Message), Tells(messages), NEW fact \in Facts
  PROVE  \/ LastIsIn(messages, KindsOf(fact), TrueOf(fact)')
         \/ /\ Silent(messages, KindsOf(fact)) /\ up
            /\ fact = "relay" => relay' = relay
            /\ fact = "transaction" => LastTx' = LastTx
<1>1. CASE fact = "online"
  <2>1. TrueOf("online")' = TrueOf("online")
    BY DEF TrueOf
  <2> QED
    BY <1>1, <2>1, OnlineSaid DEF Tells
<1>2. CASE fact = "relay"
  BY <1>2 DEF Tells, KindsOf, TrueOf
<1>3. CASE fact = "transaction"
  BY <1>3 DEF Tells, KindsOf, TrueOf
<1> QED
  BY <1>1, <1>2, <1>3 DEF Facts

\* ... and what is retained of it.
LEMMA RetainedTold ==
  ASSUME DataTypes, NEW messages \in Seq(Message), Len(messages) \in {1, 2, 3}, Publish(messages),
         NEW m, NEW k \in RetainedKinds, m.kind = k, LastIsIn(messages, {k}, {m})
  PROVE  retained'[k] = <<m>>
<1>1. k \in RetainedKinds /\ DOMAIN messages \subseteq Int
  OBVIOUS
<1>2. PICK n \in DOMAIN messages :
        /\ messages[n] = m
        /\ \A j \in DOMAIN messages : j >= n /\ messages[j].kind = k => messages[j] = m
  BY DEF LastIsIn
<1>3. \/ /\ retained'[k] = retained[k]
         /\ \A i \in DOMAIN messages : messages[i].kind # k
      \/ \E i \in DOMAIN messages :
           /\ messages[i].kind = k /\ retained'[k] = <<messages[i]>>
           /\ \A j \in DOMAIN messages : messages[j].kind = k => i >= j
  BY <1>1, PublishDoes
<1>4. messages[n].kind = k
  BY <1>2
<1> QED
  BY <1>2, <1>3, <1>4

LEMMA ChargerSays ==
  ASSUME DataTypes, Charger
  PROVE  \E messages \in Seq(Message) :
           /\ Len(messages) \in {1, 2, 3} /\ Publish(messages) /\ Elsewhere
           /\ up' \in BOOLEAN /\ relay' \in BOOLEAN /\ charging' \in BOOLEAN /\ cutOff' \in BOOLEAN
           /\ up' => Tells(messages)
<1>0. up \in BOOLEAN /\ relay \in BOOLEAN /\ charging \in BOOLEAN /\ cutOff \in BOOLEAN
  BY DEF DataTypes
<1> DEFINE Off == Relay(FALSE)
           On == Relay(TRUE)
           Idle == TxState(NoTx)
           Runs == TxState(Session)
<1>a. /\ Off \in Message /\ On \in Message /\ Idle \in Message /\ Runs \in Message
      /\ ThisTx \in Message /\ ThisTx.kind = "tx"
      /\ Off.kind = "relay" /\ On.kind = "relay" /\ Idle.kind = "tx" /\ Runs.kind = "tx"
  BY MessagesTyped
<1>1. CASE ComesUp
  <2> DEFINE a == Status(TRUE)
             b == Relay(relay)
             c == ThisTx
             messages == <<a, b, c>>
  <2>1. /\ Publish(<<a, b, c>>) /\ Elsewhere /\ up' = TRUE /\ relay' = relay /\ charging' = charging
        /\ cutOff' = FALSE
    BY <1>1 DEF ComesUp, Changes, Elsewhere
  <2>2. a \in Message /\ b \in Message /\ c \in Message
    BY <1>0, <1>a, MessagesTyped
  <2>3. a.kind = "status" /\ b.kind = "relay" /\ c.kind = "tx"
    BY MessagesTyped
  <2>4. a = Status(TRUE) /\ b = Relay(relay') /\ c = TxState(LastTx')
    BY <2>1 DEF ThisTx, LastTx
  <2> HIDE DEF a, b, c
  <2>5. /\ messages \in Seq(Message) /\ Len(messages) = 3 /\ DOMAIN messages = {1, 2, 3}
        /\ messages[1] = a /\ messages[2] = b /\ messages[3] = c
    BY <2>2, LiteralFacts
  <2> HIDE DEF messages
  <2>6. /\ LastIsIn(messages, {"status"}, {a}) /\ LastIsIn(messages, {"relay"}, {b})
        /\ LastIsIn(messages, {"tx"}, {c})
    BY <2>3, <2>5 DEF LastIsIn
  <2>7. Tells(messages)
    BY <2>4, <2>6 DEF Tells
  <2> QED
    BY <1>0, <2>1, <2>5, <2>7 DEF messages
<1>2. CASE GoesDown
  <2>1. /\ Publish(<<Status(FALSE)>>) /\ Elsewhere /\ up' = FALSE
        /\ UNCHANGED <<relay, charging, cutOff>>
    BY <1>2 DEF GoesDown, Changes, Elsewhere
  <2>2. <<Status(FALSE)>> \in Seq(Message) /\ Len(<<Status(FALSE)>>) = 1
    BY MessagesTyped, LiteralFacts
  <2> QED
    BY <1>0, <2>1, <2>2
<1>3. ASSUME NEW on \in BOOLEAN, Switches(on)
      PROVE  \E messages \in Seq(Message) :
               /\ Len(messages) \in {1, 2, 3} /\ Publish(messages) /\ Elsewhere
               /\ up' \in BOOLEAN /\ relay' \in BOOLEAN /\ charging' \in BOOLEAN
               /\ cutOff' \in BOOLEAN
               /\ up' => Tells(messages)
  <2> DEFINE a == Relay(relay')
  <2>1. /\ Publish(<<a>>) /\ Elsewhere /\ up /\ UNCHANGED <<up, charging, cutOff>>
        /\ relay' = IF charging THEN relay ELSE on
    BY <1>3 DEF Switches, Changes, Elsewhere
  <2>2. relay' \in BOOLEAN
    BY <1>0, <2>1
  <2>3. a \in Message /\ a.kind = "relay"
    BY <2>2, MessagesTyped
  <2>4. LastTx' = LastTx
    BY <2>1 DEF LastTx
  <2>5. LastIsIn(<<a>>, {"relay"}, {Relay(relay')})
    BY DEF LastIsIn
  <2> HIDE DEF a
  <2>6. Silent(<<a>>, {"status"}) /\ Silent(<<a>>, {"tx"})
    BY <2>3 DEF Silent
  <2>7. Tells(<<a>>)
    BY <2>1, <2>4, <2>5, <2>6 DEF Tells
  <2>8. <<a>> \in Seq(Message) /\ Len(<<a>>) = 1
    BY <2>3, LiteralFacts
  <2> QED
    BY <1>0, <2>1, <2>2, <2>7, <2>8
<1>4. CASE Repeats
  <2> DEFINE c == ThisTx
  <2>1. Publish(<<c>>) /\ Elsewhere /\ up /\ UNCHANGED <<up, relay, charging>> /\ cutOff' = FALSE
    BY <1>4 DEF Repeats, Changes, Elsewhere
  <2>2. c = TxState(LastTx')
    BY <2>1 DEF ThisTx, LastTx
  <2>3. c \in Message /\ c.kind = "tx"
    BY <1>a
  <2> HIDE DEF c
  <2>4. LastIsIn(<<c>>, {"tx"}, {c}) /\ Silent(<<c>>, {"status"}) /\ Silent(<<c>>, {"relay"})
    BY <2>3 DEF LastIsIn, Silent
  <2>5. Tells(<<c>>)
    BY <2>1, <2>2, <2>4 DEF Tells
  <2>6. <<c>> \in Seq(Message) /\ Len(<<c>>) = 1
    BY <2>3, LiteralFacts
  <2> QED
    BY <1>0, <2>1, <2>5, <2>6
<1>5. CASE Starts
  <2>1. /\ Elsewhere /\ up /\ up' = up /\ charging' = TRUE /\ relay' = TRUE /\ cutOff' = FALSE
        /\ IF charging THEN Publish(<<Off, Runs, On>>) ELSE Publish(<<Runs, On>>)
    BY <1>5 DEF Starts, Changes, Elsewhere
  <2>2. On = Relay(relay') /\ Runs = TxState(LastTx')
    BY <2>1 DEF LastTx
  <2> HIDE DEF Off, On, Runs
  <2>3. /\ <<Off, Runs, On>> \in Seq(Message) /\ Len(<<Off, Runs, On>>) = 3
        /\ <<Runs, On>> \in Seq(Message) /\ Len(<<Runs, On>>) = 2
    BY <1>a, LiteralFacts
  <2>4. /\ LastIsIn(<<Runs, On>>, {"tx"}, {Runs}) /\ LastIsIn(<<Runs, On>>, {"relay"}, {On})
        /\ Silent(<<Runs, On>>, {"status"})
    BY <1>a, LastOfTwo DEF Silent
  <2>5. /\ LastIsIn(<<Off, Runs, On>>, {"tx"}, {Runs})
        /\ LastIsIn(<<Off, Runs, On>>, {"relay"}, {On})
        /\ Silent(<<Off, Runs, On>>, {"status"})
    <3> DEFINE messages == <<Off, Runs, On>>
    <3>1. /\ DOMAIN messages = {1, 2, 3}
          /\ messages[1] = Off /\ messages[2] = Runs /\ messages[3] = On
      BY <1>a, LiteralFacts
    <3> HIDE DEF messages
    <3>2. /\ LastIsIn(messages, {"tx"}, {Runs}) /\ LastIsIn(messages, {"relay"}, {On})
          /\ Silent(messages, {"status"})
      BY <1>a, <3>1 DEF LastIsIn, Silent
    <3> QED
      BY <3>2 DEF messages
  <2>6. Tells(<<Runs, On>>) /\ Tells(<<Off, Runs, On>>)
    BY <2>1, <2>2, <2>4, <2>5 DEF Tells
  <2>7. CASE charging
    BY <1>0, <2>1, <2>3, <2>6, <2>7
  <2>8. CASE ~charging
    BY <1>0, <2>1, <2>3, <2>6, <2>8
  <2> QED
    BY <2>7, <2>8
<1>6. CASE Ends
  <2>1. /\ Publish(<<Off, Idle>>) /\ Elsewhere /\ up /\ up' = up /\ charging' = FALSE
        /\ relay' = FALSE /\ cutOff' = FALSE
    BY <1>6 DEF Ends, Changes, Elsewhere
  <2>2. Off = Relay(relay') /\ Idle = TxState(LastTx')
    BY <2>1 DEF LastTx
  <2> HIDE DEF Off, Idle
  <2>3. /\ LastIsIn(<<Off, Idle>>, {"tx"}, {Idle}) /\ LastIsIn(<<Off, Idle>>, {"relay"}, {Off})
        /\ Silent(<<Off, Idle>>, {"status"})
    BY <1>a, LastOfTwo DEF Silent
  <2>4. Tells(<<Off, Idle>>)
    BY <2>1, <2>2, <2>3 DEF Tells
  <2>5. <<Off, Idle>> \in Seq(Message) /\ Len(<<Off, Idle>>) = 2
    BY <1>a, LiteralFacts
  <2> QED
    BY <1>0, <2>1, <2>4, <2>5
<1>7. CASE IsForcedOff
  <2>1. /\ Publish(<<Off, Off>>) /\ Elsewhere /\ up /\ up' = up /\ charging /\ charging' = FALSE
        /\ relay' = FALSE /\ cutOff' = TRUE
    BY <1>7 DEF IsForcedOff, Changes, Elsewhere
  <2>2. Off = Relay(relay') /\ LastTx' = LastTx
    BY <2>1 DEF LastTx
  <2> HIDE DEF Off
  <2>3. /\ LastIsIn(<<Off, Off>>, {"relay"}, {Off})
        /\ Silent(<<Off, Off>>, {"status"}) /\ Silent(<<Off, Off>>, {"tx"})
    BY <1>a DEF LastIsIn, Silent
  <2>4. Tells(<<Off, Off>>)
    BY <2>1, <2>2, <2>3 DEF Tells
  <2>5. <<Off, Off>> \in Seq(Message) /\ Len(<<Off, Off>>) = 2
    BY <1>a, LiteralFacts
  <2> QED
    BY <1>0, <2>1, <2>4, <2>5
<1>8. CASE Measures
  <2> DEFINE a == Meter(Unknown)
  <2>1. Publish(<<a>>) /\ Elsewhere /\ up /\ UNCHANGED <<up, relay, charging, cutOff>>
    BY <1>8 DEF Measures, Elsewhere
  <2>2. a \in Message /\ a.kind = "meter"
    BY MessagesTyped
  <2> HIDE DEF a
  <2>3. Silent(<<a>>, {"status"}) /\ Silent(<<a>>, {"relay"}) /\ Silent(<<a>>, {"tx"})
    BY <2>2 DEF Silent
  <2>4. LastTx' = LastTx
    BY <2>1 DEF LastTx
  <2>5. Tells(<<a>>)
    BY <2>1, <2>3, <2>4 DEF Tells
  <2>6. <<a>> \in Seq(Message) /\ Len(<<a>>) = 1
    BY <2>2, LiteralFacts
  <2> QED
    BY <1>0, <2>1, <2>5, <2>6
<1> QED
  BY <1>1, <1>2, <1>3, <1>4, <1>5, <1>6, <1>7, <1>8 DEF Charger

----------------------------------------------------------------------------
(* Types                                                                    *)

\* What the page and the API do to requests for the list.
LEMMA ForgetDoes ==
  ASSUME DataTypes, NEW k \in Loads, Forget(k)
  PROVE  /\ load' \in [Loads -> {"free", "asked", "answered"}] /\ load'[k] = "free"
         /\ list' \in [Loads -> Card \union {NoCard}] /\ list'[k] = NoCard
         /\ \A j \in Loads : j # k => load'[j] = load[j] /\ list'[j] = list[j]
  BY DEF Forget, DataTypes

LEMMA AnswerListDoes ==
  ASSUME DataTypes, NEW k \in Loads, AnswerList(k)
  PROVE  /\ load[k] = "asked" /\ load' \in [Loads -> {"free", "asked", "answered"}]
         /\ load'[k] = "answered" /\ list' \in [Loads -> Card \union {NoCard}]
         /\ Listed => list'[k] \in Card /\ list'[k].tenant = tenant
         /\ ~Listed => list'[k] = NoCard
         /\ \A j \in Loads : j # k => load'[j] = load[j] /\ list'[j] = list[j]
         /\ UNCHANGED <<charger, database, view, asks, feedUp, inbox, page, history>>
<1>1. toLiveDevice(tenant) \in Card /\ toLiveDevice(tenant).tenant = tenant
  BY DEF toLiveDevice, Card, DataTypes, Lives
<1> QED
  BY <1>1 DEF AnswerList, DataTypes

LEMMA ReceiveDoes ==
  ASSUME DataTypes, ListsInv, Receive
  PROVE  /\ feedUp /\ inbox # <<>> /\ inbox' = Tail(inbox) /\ inbox' \in Seq(Message)
         /\ Head(inbox) \in Message
         /\ load' \in [Loads -> {"free", "asked", "answered"}] /\ list' = list
         /\ shown' \in Card \union {NoCard}
         /\ refetchDue' \in BOOLEAN
         /\ \/ /\ shown = NoCard /\ shown' = NoCard /\ dropped' = TRUE /\ refetchDue' = FALSE
               /\ \A k \in Loads : load'[k] = load[k] \/ load'[k] = "asked"
            \/ /\ shown \in Card /\ shown' \in Card /\ shown'.tenant = shown.tenant
               /\ shown'.live = applyMessage(shown.live, Head(inbox))
               /\ UNCHANGED <<dropped, loads, refetchDue>>
         /\ UNCHANGED <<charger, database, view, asks, feedUp, blurred>>
<1>1. inbox' \in Seq(Message) /\ Head(inbox) \in Message
  BY TailFacts DEF Receive, DataTypes
<1>2. CASE shown = NoCard
  <2>1. PICK k \in Loads : load' = [load EXCEPT ![k] = "asked"] \/ load' = load
    <3>1. CASE refetchDue
      BY <1>2, <3>1 DEF Receive, ListsInv
    <3>2. CASE ~refetchDue
      BY <1>2, <3>2 DEF Receive, Loads
    <3> QED
      BY <3>1, <3>2
  <2>2. load' \in [Loads -> {"free", "asked", "answered"}]
          /\ \A j \in Loads : load'[j] = load[j] \/ load'[j] = "asked"
    BY <2>1 DEF DataTypes
  <2> QED
    BY <1>1, <1>2, <2>2 DEF Receive, DataTypes
<1>3. CASE shown # NoCard
  <2>1. shown \in Card
    BY <1>3 DEF DataTypes
  <2>2. shown' = [shown EXCEPT !.live = applyMessage(@, Head(inbox))]
          /\ UNCHANGED <<dropped, loads, refetchDue>>
    BY <1>3 DEF Receive
  <2>3. tenant \in Tenant \union {NoTenant}
    BY DEF DataTypes
  <2>4. shown' \in Card /\ shown'.tenant = shown.tenant
          /\ shown'.live = applyMessage(shown.live, Head(inbox))
    BY <1>1, <2>1, <2>2, <2>3, ShownTyped
  <2> QED
    BY <1>1, <1>3, <2>1, <2>2, <2>4 DEF Receive, DataTypes, loads
<1> QED
  BY <1>2, <1>3

LEMMA AssignArrivesDoes ==
  ASSUME DataTypes, NEW a \in asks, AssignArrives(a)
  PROVE  /\ a.done /\ a.tenant \in Tenant \union {NoTenant} /\ asks' = asks \ {a}
         /\ shown = NoCard => shown' = NoCard
         /\ shown # NoCard => shown' \in Card /\ shown'.live = shown.live /\ shown'.tenant = a.tenant
         /\ UNCHANGED <<charger, database, view, loads, feedUp, inbox, refetchDue, history>>
<1>1. a.tenant \in Tenant \union {NoTenant} /\ Meter(Unknown) \in Message
  BY MessagesTyped DEF DataTypes, Question
<1>2. shown # NoCard => shown \in Card
  BY DEF DataTypes
<1>3. shown # NoCard => shown' = [shown EXCEPT !.tenant = a.tenant]
  BY DEF AssignArrives
<1> QED
  BY <1>1, <1>2, <1>3, ShownTyped DEF AssignArrives

LEMMA AnswerAssignDoes ==
  ASSUME DataTypes, NEW a \in asks, AnswerAssign(a)
  PROVE  /\ tenant' = a.tenant /\ tenant' \in Tenant \union {NoTenant}
         /\ \E b \in Question : /\ b.tenant = a.tenant /\ b.done = TRUE
                                /\ asks' = (asks \ {a}) \union {b}
         /\ UNCHANGED <<charger, registered, newer, view, loads, feedUp, inbox, page, history>>
<1>1. a \in Question
  BY DEF DataTypes
<1>2. [a EXCEPT !.done = TRUE] \in Question /\ [a EXCEPT !.done = TRUE].tenant = a.tenant
        /\ [a EXCEPT !.done = TRUE].done = TRUE /\ a.tenant \in Tenant \union {NoTenant}
  BY <1>1 DEF Question
<1> QED
  BY <1>2 DEF AnswerAssign

LEMMA InitTyped == Init => DataTypes
<1> SUFFICES ASSUME Init PROVE DataTypes
  OBVIOUS
<1>1. emptyDeviceState \in Lives
  BY DEF emptyDeviceState, Lives
<1>2. NothingRetained \in [RetainedKinds -> Seq(Message)]
  BY DEF NothingRetained
<1>3. load \in [Loads -> {"free", "asked", "answered"}] /\ list \in [Loads -> Card \union {NoCard}]
  BY DEF Init
<1>4. /\ asks \subseteq Question /\ inbox \in Seq(Message)
      /\ shown \in Card \union {NoCard} /\ tenant \in Tenant \union {NoTenant}
  BY DEF Init
<1>5. /\ up \in BOOLEAN /\ relay \in BOOLEAN /\ charging \in BOOLEAN /\ registered \in BOOLEAN
      /\ feedUp \in BOOLEAN /\ refetchDue \in BOOLEAN /\ dropped \in BOOLEAN /\ blurred \in BOOLEAN
      /\ cutOff \in BOOLEAN
  BY DEF Init
<1>6. newer \in 0..ListLimit
  <2>1. ListLimit \in Nat /\ newer = 0
    BY DashboardAssumption DEF Init
  <2> QED
    BY <2>1
<1> QED
  BY <1>1, <1>2, <1>3, <1>4, <1>5, <1>6 DEF Init, DataTypes

LEMMA TypesStep ==
  ASSUME DataTypes, ListsInv, [Next]_vars
  PROVE  DataTypes'
<1>1. CASE Charger
  <2>1. PICK messages \in Seq(Message) :
          /\ Len(messages) \in {1, 2, 3} /\ Publish(messages) /\ Elsewhere
          /\ up' \in BOOLEAN /\ relay' \in BOOLEAN /\ charging' \in BOOLEAN /\ cutOff' \in BOOLEAN
    BY <1>1, ChargerSays
  <2>2. retained' \in [RetainedKinds -> Seq(Message)] /\ view' \in Lives /\ inbox' \in Seq(Message)
    BY <2>1, PublishDoes
  <2> QED
    BY <2>1, <2>2 DEF DataTypes, Elsewhere, database, requests, loads, page, history
<1>2. CASE Register
  BY <1>2 DEF Register, DataTypes, charger, requests, loads, page, history
<1>15. CASE RegisterAnother
  <2>1. newer' \in 0..ListLimit
    BY <1>15, DashboardAssumption DEF RegisterAnother, DataTypes
  <2> QED
    BY <1>15, <2>1 DEF RegisterAnother, DataTypes, charger, requests, loads, page, history
<1>3. ASSUME NEW k \in Loads, AnswerList(k) PROVE DataTypes'
  BY <1>3, AnswerListDoes DEF DataTypes, charger, database, page, history
<1>4. ASSUME NEW a \in asks, AnswerAssign(a) PROVE DataTypes'
  <2>1. asks' \subseteq Question
    <3>1. PICK b \in Question : asks' = (asks \ {a}) \union {b}
      BY <1>4, AnswerAssignDoes
    <3> QED
      BY <3>1 DEF DataTypes
  <2> QED
    BY <1>4, <2>1, AnswerAssignDoes DEF DataTypes, charger, loads, page, history
<1>5. ASSUME NEW k \in Loads, ListArrives(k) PROVE DataTypes'
  <2>1. shown' \in Card \union {NoCard}
    BY <1>5 DEF ListArrives, Merge, DataTypes
  <2>2. dropped' \in BOOLEAN /\ blurred' \in BOOLEAN
    BY <1>5 DEF ListArrives, DataTypes
  <2> QED
    BY <1>5, <2>1, <2>2, ForgetDoes DEF ListArrives, DataTypes, charger, database
<1>6. ASSUME NEW k \in Loads, LoadFails(k) PROVE DataTypes'
  BY <1>6, ForgetDoes DEF LoadFails, DataTypes, charger, database, page, history
<1>7. CASE FeedConnects
  <2>1. inbox' \in Seq(Message)
    BY <1>7, SubscribeTyped DEF FeedConnects, DataTypes
  <2> QED
    BY <1>7, <2>1 DEF FeedConnects, DataTypes, charger, database, requests, loads, page
<1>8. CASE FeedLost
  BY <1>8, LiteralFacts, MessagesTyped
  DEF FeedLost, DataTypes, charger, database, requests, loads, page, history
<1>9. CASE Receive
  BY <1>9, ReceiveDoes DEF DataTypes, charger, database, loads
<1>10. CASE RefetchComesDue
  BY <1>10 DEF RefetchComesDue, DataTypes, charger, database, requests, loads, history
<1>11. ASSUME NEW to \in Tenant \union {NoTenant}, Assign(to) PROVE DataTypes'
  <2>1. asks' \subseteq Question
    <3>1. [tenant |-> to, done |-> FALSE] \in Question
      BY DEF Question
    <3> QED
      BY <1>11, <3>1 DEF Assign, DataTypes
  <2>2. blurred' \in BOOLEAN
    BY <1>11 DEF Assign, DataTypes
  <2> QED
    BY <1>11, <2>1, <2>2 DEF Assign, DataTypes, charger, database, loads, page
<1>12. ASSUME NEW a \in asks, AssignArrives(a) PROVE DataTypes'
  BY <1>12, AssignArrivesDoes DEF DataTypes, charger, database, loads, history
<1>13. ASSUME NEW a \in asks, AssignFails(a) PROVE DataTypes'
  BY <1>13 DEF AssignFails, DataTypes, charger, database, loads, page
<1>14. CASE UNCHANGED vars
  BY <1>14 DEF vars, DataTypes, charger, database, requests, loads, page, history
<1> QED
  BY <1>1, <1>2, <1>3, <1>4, <1>5, <1>6, <1>7, <1>8, <1>9, <1>10, <1>11, <1>12, <1>13, <1>14,
     <1>15
  DEF Next, Api, Page

----------------------------------------------------------------------------
(* The lists                                                                *)

\* Requests that end leave the other one as it was.
LEMMA TwoLoads ==
  ASSUME NEW i \in Loads, NEW j \in Loads, NEW k \in Loads, i # j, j # k
  PROVE  i = k
  BY DEF Loads

LEMMA ListsStep ==
  ASSUME DataTypes, DataTypes', ListsInv, [Next]_vars
  PROVE  ListsInv'
<1>1. ASSUME UNCHANGED <<loads, refetchDue>>, registered => registered',
             shown' # NoCard => shown # NoCard, newer' < ListLimit => newer < ListLimit
      PROVE  ListsInv'
  BY <1>1 DEF ListsInv, Old, loads
<1>2. CASE Charger
  <2>1. Elsewhere
    BY <1>2, ChargerSays
  <2> QED
    BY <1>1, <2>1 DEF Elsewhere, database, requests, page
<1>3. CASE Register
  BY <1>1, <1>3 DEF Register, requests, page
<1>16. CASE RegisterAnother
  <2>1. newer' < ListLimit => newer < ListLimit
    BY <1>16 DEF RegisterAnother
  <2> QED
    BY <1>1, <1>16, <2>1 DEF RegisterAnother, requests, page
<1>4. ASSUME NEW a \in asks, AnswerAssign(a) PROVE ListsInv'
  BY <1>1, <1>4, AnswerAssignDoes DEF page
<1>5. ASSUME NEW k \in Loads, AnswerList(k) PROVE ListsInv'
  <2>1. /\ load[k] = "asked" /\ load'[k] = "answered"
        /\ ~Listed => list'[k] = NoCard
        /\ Listed => list'[k] # NoCard
        /\ \A j \in Loads : j # k => load'[j] = load[j] /\ list'[j] = list[j]
        /\ registered' = registered /\ newer' = newer /\ shown' = shown
        /\ refetchDue' = refetchDue
    BY <1>5, AnswerListDoes, CardIsNoNoCard DEF database, page
  <2>2. refetchDue' => \E j \in Loads : load'[j] = "free"
    BY <2>1 DEF ListsInv
  <2>3. /\ shown' # NoCard => registered'
        /\ \A j \in Loads : list'[j] # NoCard => registered'
    BY <2>1 DEF ListsInv, Listed
  <2>4. ASSUME shown' # NoCard, newer' < ListLimit, NEW i \in Loads, NEW j \in Loads, i # j,
               Old(i)'
        PROVE  load'[j] = "free" \/ Old(j)'
    <3>1. registered /\ newer < ListLimit /\ i # k /\ Old(i)
      BY <2>1, <2>4 DEF ListsInv, Old, Listed
    <3>2. load[k] = "free" \/ Old(k)
      BY <2>1, <2>4, <3>1 DEF ListsInv
    <3> QED
      BY <2>1, <3>2 DEF Old
  <2> QED
    BY <2>2, <2>3, <2>4 DEF ListsInv
<1>6. ASSUME NEW k \in Loads, Forget(k), registered' = registered, newer' = newer,
             refetchDue' = refetchDue, shown' # NoCard => registered
      PROVE  ListsInv'
  <2>1. /\ load'[k] = "free" /\ list'[k] = NoCard
        /\ \A j \in Loads : j # k => load'[j] = load[j] /\ list'[j] = list[j]
    BY <1>6, ForgetDoes
  <2>2. \A i, j \in Loads : i # j => i = k \/ j = k
    BY TwoLoads
  <2>3. /\ refetchDue' => \E j \in Loads : load'[j] = "free"
        /\ \A j \in Loads : list'[j] # NoCard => registered'
    BY <1>6, <2>1 DEF ListsInv
  <2> QED
    BY <1>6, <2>1, <2>2, <2>3 DEF ListsInv, Old
<1>7. ASSUME NEW k \in Loads, ListArrives(k) PROVE ListsInv'
  <2>1. shown' # NoCard => registered
    BY <1>7 DEF ListArrives, Merge, ListsInv
  <2> QED
    BY <1>6, <1>7, <2>1 DEF ListArrives, database
<1>8. ASSUME NEW k \in Loads, LoadFails(k) PROVE ListsInv'
  BY <1>6, <1>8 DEF LoadFails, ListsInv, database, page
<1>9. CASE FeedConnects \/ FeedLost
  BY <1>1, <1>9 DEF FeedConnects, FeedLost, database, requests, page
<1>10. CASE Receive
  <2>1. CASE shown \in Card /\ shown' \in Card
    <3>1. UNCHANGED <<loads, refetchDue, registered, newer>> /\ shown # NoCard
      BY <1>10, <2>1, ReceiveDoes, CardIsNoNoCard DEF database
    <3> QED
      BY <1>1, <3>1
  <2>2. CASE shown = NoCard /\ shown' = NoCard
    <3>1. refetchDue' = FALSE /\ list' = list /\ registered' = registered
      BY <1>10, <2>2, ReceiveDoes, CardIsNoNoCard DEF database
    <3> QED
      BY <2>2, <3>1 DEF ListsInv
  <2> QED
    BY <1>10, <2>1, <2>2, ReceiveDoes
<1>11. CASE RefetchComesDue
  BY <1>11 DEF RefetchComesDue, ListsInv, Old, database, requests, loads
<1>12. ASSUME NEW to \in Tenant \union {NoTenant}, Assign(to) PROVE ListsInv'
  BY <1>1, <1>12 DEF Assign, database, page
<1>13. ASSUME NEW a \in asks, AssignArrives(a) PROVE ListsInv'
  BY <1>1, <1>13, AssignArrivesDoes DEF database
<1>14. ASSUME NEW a \in asks, AssignFails(a) PROVE ListsInv'
  BY <1>1, <1>14 DEF AssignFails, database, page
<1>15. CASE UNCHANGED vars
  BY <1>1, <1>15 DEF vars, database, requests, page
<1> QED
  BY <1>2, <1>3, <1>4, <1>5, <1>7, <1>8, <1>9, <1>10, <1>11, <1>12, <1>13, <1>14, <1>15,
     <1>16
  DEF Next, Api, Page

----------------------------------------------------------------------------
(* The tenant                                                               *)

LEMMA TenantStep ==
  ASSUME DataTypes, DataTypes', ListsInv, TenantInv, [Next]_vars
  PROVE  TenantInv'
<1>1. ASSUME UNCHANGED <<asks, tenant, list, shown>>, blurred => blurred'
      PROVE  TenantInv'
  BY <1>1 DEF TenantInv
<1>2. CASE Charger
  <2>1. Elsewhere
    BY <1>2, ChargerSays
  <2> QED
    BY <1>1, <2>1 DEF Elsewhere, database, requests, loads, page, history
<1>3. CASE Register \/ RegisterAnother
  BY <1>1, <1>3 DEF Register, RegisterAnother, requests, loads, page, history
<1>4. ASSUME NEW a \in asks, AnswerAssign(a) PROVE TenantInv'
  <2>1. PICK b \in Question : b.tenant = a.tenant /\ asks' = (asks \ {a}) \union {b}
    BY <1>4, AnswerAssignDoes
  <2>2. tenant' = a.tenant /\ UNCHANGED <<list, shown, blurred>>
    BY <1>4, AnswerAssignDoes DEF loads, page, history
  <2>3. ~blurred => shown # NoCard /\ \A c \in asks : c = a
    BY DEF TenantInv
  <2>4. ~blurred => asks' = {b}
    BY <2>1, <2>3
  <2> QED
    BY <2>1, <2>2, <2>3, <2>4 DEF TenantInv
<1>5. ASSUME NEW k \in Loads, AnswerList(k) PROVE TenantInv'
  <2>1. /\ list'[k] # NoCard => list'[k].tenant = tenant
        /\ \A j \in Loads : j # k => list'[j] = list[j]
        /\ UNCHANGED <<asks, tenant, shown, blurred>>
    BY <1>5, AnswerListDoes DEF database, page, history, DataTypes
  <2> QED
    BY <2>1 DEF TenantInv
<1>6. ASSUME NEW k \in Loads, ListArrives(k) PROVE TenantInv'
  <2>1. /\ \A j \in Loads : list'[j] = NoCard \/ list'[j] = list[j]
        /\ UNCHANGED <<asks, tenant>>
    BY <1>6, ForgetDoes DEF ListArrives, database
  <2>2. /\ shown' = IF list[k] # NoCard /\ shown # NoCard THEN shown ELSE list[k]
        /\ ~blurred' => ~blurred /\ (shown = NoCard \/ shown' # NoCard)
    BY <1>6 DEF ListArrives, Merge
  <2>3. CASE shown' = shown
    BY <2>1, <2>2, <2>3 DEF TenantInv
  <2>4. CASE shown = NoCard /\ shown' # NoCard
    BY <2>1, <2>2, <2>4 DEF TenantInv
  <2> QED
    BY <2>2, <2>3, <2>4 DEF TenantInv
<1>7. ASSUME NEW k \in Loads, LoadFails(k) PROVE TenantInv'
  <2>1. /\ \A j \in Loads : list'[j] = NoCard \/ list'[j] = list[j]
        /\ UNCHANGED <<asks, tenant, shown, blurred>>
    BY <1>7, ForgetDoes DEF LoadFails, database, page, history
  <2> QED
    BY <2>1 DEF TenantInv
<1>8. CASE FeedConnects \/ FeedLost \/ RefetchComesDue
  BY <1>1, <1>8 DEF FeedConnects, FeedLost, RefetchComesDue, database, requests, loads, page, history
<1>9. CASE Receive
  <2>1. list' = list /\ UNCHANGED <<asks, tenant, blurred>>
    BY <1>9, ReceiveDoes DEF database
  <2>2. \/ shown = NoCard /\ shown' = NoCard
        \/ shown # NoCard /\ shown' # NoCard /\ shown'.tenant = shown.tenant
    BY <1>9, ReceiveDoes, CardIsNoNoCard
  <2> QED
    BY <2>1, <2>2 DEF TenantInv
<1>10. ASSUME NEW to \in Tenant \union {NoTenant}, Assign(to) PROVE TenantInv'
  <2> DEFINE a == [tenant |-> to, done |-> FALSE]
  <2>1. /\ shown # NoCard /\ asks' = asks \union {a} /\ ~a.done
        /\ ~blurred' => ~blurred /\ asks = {}
        /\ UNCHANGED <<list, shown, tenant>>
    BY <1>10 DEF Assign, database, loads, page
  <2> HIDE DEF a
  <2> QED
    BY <2>1 DEF TenantInv
<1>11. ASSUME NEW a \in asks, AssignArrives(a) PROVE TenantInv'
  <2>1. /\ a.done /\ asks' = asks \ {a} /\ UNCHANGED <<list, tenant, blurred>>
        /\ shown = NoCard => shown' = NoCard
        /\ shown # NoCard => shown' # NoCard /\ shown'.tenant = a.tenant
    BY <1>11, AssignArrivesDoes, CardIsNoNoCard DEF loads, database, history
  <2> QED
    BY <2>1 DEF TenantInv
<1>12. ASSUME NEW a \in asks, AssignFails(a) PROVE TenantInv'
  BY <1>12 DEF AssignFails, TenantInv
<1>13. CASE UNCHANGED vars
  BY <1>1, <1>13 DEF vars, database, requests, loads, page, history
<1> QED
  BY <1>2, <1>3, <1>4, <1>5, <1>6, <1>7, <1>8, <1>9, <1>10, <1>11, <1>12, <1>13
  DEF Next, Api, Page


----------------------------------------------------------------------------
(* The truth on the card                                                    *)

\* What a message does to a card, fact by fact.
LEMMA MessageShows ==
  ASSUME NEW fact \in Facts, NEW m \in Message, NEW live \in Lives
  PROVE  /\ m.kind \notin KindsOf(fact) =>
              /\ fact = "online" => applyMessage(live, m).online = live.online
              /\ fact = "relay" => applyMessage(live, m).relay = live.relay
              /\ fact = "transaction" => applyMessage(live, m).transaction = live.transaction
         /\ m \in TrueOf(fact) =>
              /\ fact = "online" => applyMessage(live, m).online = TRUE
              /\ fact = "relay" => applyMessage(live, m).relay = relay
              /\ fact = "transaction" => applyMessage(live, m).transaction = LastTx
<1>1. CASE fact = "online"
  <2>1. m.kind \notin KindsOf(fact) => m.kind = "relay"
    BY <1>1, KindsOfMessages DEF KindsOf
  <2>2. m \in TrueOf(fact) => m = Status(TRUE) \/ m.kind \in {"tx", "meter"}
    BY <1>1, MessagesTyped DEF TrueOf, TxMessages, MeterMessages
  <2>3. m.kind = "relay" => applyMessage(live, m).online = live.online
    BY DEF applyMessage, Lives
  <2>4. m = Status(TRUE) => applyMessage(live, m).online = TRUE
    BY DEF applyMessage, Lives, Status
  <2>5. m.kind = "tx" => applyMessage(live, m).online = TRUE
    BY DEF applyMessage, Lives
  <2>6. m.kind = "meter" => applyMessage(live, m).online = TRUE
    BY DEF applyMessage, Lives
  <2> QED
    BY <1>1, <2>1, <2>2, <2>3, <2>4, <2>5, <2>6
<1>2. CASE fact = "relay"
  <2>1. m.kind # "relay" => applyMessage(live, m).relay = live.relay
    BY KindsOfMessages DEF applyMessage, Lives
  <2>2. m = Relay(relay) => applyMessage(live, m).relay = relay
    BY DEF applyMessage, Lives, Relay
  <2> QED
    BY <1>2, <2>1, <2>2 DEF KindsOf, TrueOf
<1>3. CASE fact = "transaction"
  <2>1. m.kind # "tx" => applyMessage(live, m).transaction = live.transaction
    BY KindsOfMessages DEF applyMessage, Lives
  <2>2. m = TxState(LastTx) => applyMessage(live, m).transaction = LastTx
    <3>1. \A tx : applyMessage(live, TxState(tx)).transaction = tx
      BY DEF applyMessage, Lives, TxState
    <3> QED
      BY <3>1
  <2> QED
    BY <1>3, <2>1, <2>2 DEF KindsOf, TrueOf
<1> QED
  BY <1>1, <1>2, <1>3 DEF Facts

\* Requests that end or stay as they are bring no card that was not on its way.
LEMMA StaysBarren ==
  ASSUME Barren, \A k \in Loads : load'[k] = "free" \/ (load'[k] = load[k] /\ list'[k] = list[k])
  PROVE  Barren'
  BY DEF Barren, Old

LEMMA TruthStep ==
  ASSUME DataTypes, DataTypes', ListsInv, TruthInv, [Next]_vars
  PROVE  TruthInv'
\* Steps that leave the charger, the messages and the card's live part alone.
<1>1. ASSUME UNCHANGED <<charger, feedUp, inbox, dropped>>,
             shown' # NoCard => shown # NoCard /\ shown'.live = shown.live,
             shown' = NoCard /\ (shown = NoCard => Barren) => Barren'
      PROVE  TruthInv'
  <2>1. /\ up' = up /\ relay' = relay /\ LastTx' = LastTx /\ retained' = retained
        /\ feedUp' = feedUp /\ inbox' = inbox /\ dropped' = dropped
    BY <1>1 DEF charger, LastTx
  <2>2. ASSUME NEW fact \in Facts, FactInv(fact) PROVE FactInv(fact)'
    <3>1. CASE LastIsIn(inbox, KindsOf(fact), TrueOf(fact))
      <4>1. TrueOf(fact)' = TrueOf(fact) /\ KindsOf(fact)' = KindsOf(fact)
        BY <2>1 DEF TrueOf, KindsOf
      <4> QED
        BY <2>1, <3>1, <4>1 DEF FactInv
    <3>2. CASE /\ Silent(inbox, KindsOf(fact))
               /\ shown = NoCard => Barren
               /\ shown # NoCard => Shows(fact)
      <4>1. KindsOf(fact)' = KindsOf(fact)
        BY DEF KindsOf
      <4>2. shown' # NoCard => Shows(fact)'
        BY <1>1, <2>1, <3>2 DEF Shows
      <4> QED
        BY <1>1, <2>1, <3>2, <4>1, <4>2 DEF FactInv
    <3> QED
      BY <2>2, <3>1, <3>2 DEF FactInv
  <2> QED
    BY <2>1, <2>2 DEF TruthInv
\* ... and the requests and the card with them.
<1>2. ASSUME UNCHANGED <<charger, feedUp, inbox, dropped, loads, shown>>
      PROVE  TruthInv'
  <2>1. Barren' <=> Barren
    BY <1>2 DEF Barren, Old, loads
  <2> QED
    BY <1>1, <1>2, <2>1
<1>3. CASE Charger
  <2>1. PICK messages \in Seq(Message) :
          /\ Len(messages) \in {1, 2, 3} /\ Publish(messages) /\ Elsewhere
          /\ up' => Tells(messages)
    BY <1>3, ChargerSays
  <2>2. /\ inbox' = IF feedUp THEN inbox \o messages ELSE inbox
        /\ \A k \in RetainedKinds : Silent(messages, {k}) => retained'[k] = retained[k]
    BY <2>1, PublishDoes DEF Silent
  <2>3. /\ UNCHANGED <<feedUp, dropped, shown, load, list>>
        /\ Barren' <=> Barren
    BY <2>1 DEF Elsewhere, requests, loads, page, history, Barren, Old
  <2>4. ASSUME up'
        PROVE  /\ retained'["status"] = <<Status(TRUE)>>
               /\ retained'["relay"] = <<Relay(relay')>>
               /\ retained'["tx"] = <<TxState(LastTx')>>
    <3>1. Tells(messages)
      BY <2>1, <2>4
    <3>2. ASSUME NEW m, NEW k \in RetainedKinds, m.kind = k, LastIsIn(messages, {k}, {m})
          PROVE  retained'[k] = <<m>>
      BY <2>1, <3>2, RetainedTold
    <3>3. retained'["status"] = <<Status(TRUE)>>
      <4>1. Status(TRUE).kind = "status"
        BY MessagesTyped
      <4>2. CASE LastIsIn(messages, {"status"}, {Status(TRUE)})
        <5> DEFINE m == Status(TRUE)
        <5>1. m.kind = "status" /\ LastIsIn(messages, {"status"}, {m})
          BY <4>1, <4>2
        <5> HIDE DEF m
        <5>2. retained'["status"] = <<m>>
          BY <3>2, <5>1 DEF RetainedKinds
        <5> QED
          BY <5>2 DEF m
      <4>3. CASE Silent(messages, {"status"}) /\ up
        BY <2>2, <4>3 DEF TruthInv, RetainedKinds
      <4> QED
        BY <3>1, <4>2, <4>3 DEF Tells
    <3>4. retained'["relay"] = <<Relay(relay')>>
      <4>1. Relay(relay').kind = "relay"
        BY MessagesTyped
      <4>2. CASE LastIsIn(messages, {"relay"}, {Relay(relay')})
        <5> DEFINE m == Relay(relay')
        <5>1. m.kind = "relay" /\ LastIsIn(messages, {"relay"}, {m})
          BY <4>1, <4>2
        <5> HIDE DEF m
        <5>2. retained'["relay"] = <<m>>
          BY <3>2, <5>1 DEF RetainedKinds
        <5> QED
          BY <5>2 DEF m
      <4>3. CASE Silent(messages, {"relay"}) /\ up /\ relay' = relay
        BY <2>2, <4>3 DEF TruthInv, RetainedKinds
      <4> QED
        BY <3>1, <4>2, <4>3 DEF Tells
    <3>5. retained'["tx"] = <<TxState(LastTx')>>
      <4>1. TxState(LastTx').kind = "tx"
        BY MessagesTyped
      <4>2. CASE LastIsIn(messages, {"tx"}, {TxState(LastTx')})
        <5> DEFINE m == TxState(LastTx')
        <5>1. m.kind = "tx" /\ LastIsIn(messages, {"tx"}, {m})
          BY <4>1, <4>2
        <5> HIDE DEF m
        <5>2. retained'["tx"] = <<m>>
          BY <3>2, <5>1 DEF RetainedKinds
        <5> QED
          BY <5>2 DEF m
      <4>3. CASE Silent(messages, {"tx"}) /\ up /\ LastTx' = LastTx
        <5>1. retained["tx"] = <<TxState(LastTx)>> /\ retained'["tx"] = retained["tx"]
          BY <2>2, <4>3 DEF TruthInv, RetainedKinds
        <5> QED
          BY <4>3, <5>1
      <4> QED
        BY <3>1, <4>2, <4>3 DEF Tells
    <3> QED
      BY <3>3, <3>4, <3>5
  <2>5. ASSUME feedUp', up', ~dropped', NEW fact \in Facts
        PROVE  FactInv(fact)'
    <3>1. inbox' = inbox \o messages /\ inbox \in Seq(Message)
      BY <2>2, <2>3, <2>5 DEF DataTypes
    <3>2. KindsOf(fact)' = KindsOf(fact)
      BY DEF KindsOf
    <3>3. CASE LastIsIn(messages, KindsOf(fact), TrueOf(fact)')
      <4>1. LastIsIn(inbox \o messages, KindsOf(fact), TrueOf(fact)')
        BY <3>1, <3>3, SaidInConcat
      <4> QED
        BY <3>1, <3>2, <4>1 DEF FactInv
    <3>4. CASE /\ Silent(messages, KindsOf(fact)) /\ up
               /\ fact = "relay" => relay' = relay
               /\ fact = "transaction" => LastTx' = LastTx
      <4>1. FactInv(fact)
        BY <2>3, <2>5, <3>4 DEF TruthInv
      <4>2. TrueOf(fact)' = TrueOf(fact) /\ (Shows(fact) => Shows(fact)' \/ shown = NoCard)
        BY <2>3, <3>4 DEF Facts, TrueOf, Shows
      <4>3. CASE LastIsIn(inbox, KindsOf(fact), TrueOf(fact))
        <5>1. LastIsIn(inbox \o messages, KindsOf(fact), TrueOf(fact))
          BY <3>1, <3>4, <4>3, SaidInConcat
        <5> QED
          BY <3>1, <3>2, <4>2, <5>1 DEF FactInv
      <4>4. CASE /\ Silent(inbox, KindsOf(fact))
                 /\ shown = NoCard => Barren
                 /\ shown # NoCard => Shows(fact)
        <5>1. Silent(inbox \o messages, KindsOf(fact))
          BY <3>1, <3>4, <4>4, SaidInConcat
        <5>2. Silent(inbox, KindsOf(fact))'
          BY <3>1, <3>2, <5>1
        <5> QED
          BY <2>3, <4>2, <4>4, <5>2 DEF FactInv
      <4> QED
        BY <4>1, <4>3, <4>4 DEF FactInv
    <3> QED
      BY <2>1, <2>5, <3>3, <3>4, FactTold
  <2> QED
    BY <2>4, <2>5 DEF TruthInv
<1>4. CASE Register \/ RegisterAnother
  BY <1>2, <1>4 DEF Register, RegisterAnother, requests, page, history
<1>5. ASSUME NEW k \in Loads, AnswerList(k) PROVE TruthInv'
  <2>1. /\ load[k] = "asked" /\ \A j \in Loads : j # k => load'[j] = load[j] /\ list'[j] = list[j]
        /\ UNCHANGED <<charger, feedUp, inbox, dropped, shown>>
    BY <1>5, AnswerListDoes DEF page, history
  <2>2. ~Barren
    BY <2>1 DEF Barren, Old
  <2>3. shown' = NoCard /\ (shown = NoCard => Barren) => Barren'
    BY <2>1, <2>2
  <2> QED
    BY <1>1, <2>1, <2>3
<1>6. ASSUME NEW a \in asks, AnswerAssign(a) PROVE TruthInv'
  BY <1>2, <1>6, AnswerAssignDoes DEF page, history
<1>7. ASSUME NEW k \in Loads, ListArrives(k) PROVE TruthInv'
  <2>1. /\ load'[k] = "free" /\ list'[k] = NoCard
        /\ \A j \in Loads : j # k => load'[j] = load[j] /\ list'[j] = list[j]
    BY <1>7, ForgetDoes DEF ListArrives
  <2>2. /\ load[k] = "answered" /\ UNCHANGED <<charger, feedUp, inbox>>
        /\ shown' = IF list[k] # NoCard /\ shown # NoCard THEN shown ELSE list[k]
        /\ shown # NoCard /\ shown' = NoCard /\ newer >= ListLimit => dropped' = TRUE
        /\ shown = NoCard \/ shown' # NoCard \/ newer < ListLimit => dropped' = dropped
    <3>1. dropped \in BOOLEAN /\ (newer < ListLimit => ~(newer >= ListLimit))
      BY DashboardAssumption DEF DataTypes
    <3>2. dropped' = (dropped \/ (shown # NoCard /\ shown' = NoCard /\ newer >= ListLimit))
      BY <1>7 DEF ListArrives
    <3>3. shown # NoCard /\ shown' = NoCard /\ newer >= ListLimit => dropped' = TRUE
      BY <3>2
    <3>4. shown = NoCard \/ shown' # NoCard \/ newer < ListLimit => dropped' = dropped
      BY <3>1, <3>2
    <3> QED
      BY <1>7, <3>3, <3>4 DEF ListArrives, Merge
  <2>3. \A j \in Loads : load'[j] = "free" \/ (load'[j] = load[j] /\ list'[j] = list[j])
    BY <2>1
  <2>4. CASE shown # NoCard /\ shown' # NoCard
    BY <1>1, <2>2, <2>4
  <2>5. CASE shown # NoCard /\ shown' = NoCard
    <3>1. CASE newer < ListLimit
      <4>1. Old(k)
        BY <2>2, <2>5 DEF Old
      <4>2. \A j \in Loads : j # k => load[j] = "free" \/ Old(j)
        BY <2>5, <3>1, <4>1 DEF ListsInv
      <4>3. Barren'
        BY <2>1, <4>2 DEF Barren, Old
      <4> QED
        BY <1>1, <2>2, <2>5, <3>1, <4>3
    <3>2. CASE newer >= ListLimit
      <4>1. dropped' = TRUE
        BY <2>2, <2>5, <3>2
      <4>2. up' = up /\ relay' = relay /\ LastTx' = LastTx /\ retained' = retained
        BY <2>2 DEF charger, LastTx
      <4> QED
        BY <4>1, <4>2 DEF TruthInv
    <3>3. newer < ListLimit \/ newer >= ListLimit
      BY DashboardAssumption DEF DataTypes
    <3> QED
      BY <3>1, <3>2, <3>3
  <2>6. CASE shown = NoCard
    <3>1. CASE Barren
      <4>1. Barren' /\ shown' = NoCard
        BY <2>2, <2>3, <2>6, <3>1, StaysBarren DEF Barren, Old
      <4> QED
        BY <1>1, <2>2, <2>6, <4>1
    <3>2. CASE ~Barren
      <4>1. /\ up' = up /\ relay' = relay /\ LastTx' = LastTx /\ retained' = retained
            /\ feedUp' = feedUp /\ inbox' = inbox /\ dropped' = dropped
        BY <2>2, <2>6 DEF charger, LastTx
      <4>2. ASSUME NEW fact \in Facts, FactInv(fact) PROVE FactInv(fact)'
        <5>1. LastIsIn(inbox, KindsOf(fact), TrueOf(fact))
          BY <2>6, <3>2, <4>2 DEF FactInv
        <5>2. TrueOf(fact)' = TrueOf(fact) /\ KindsOf(fact)' = KindsOf(fact)
          BY <4>1 DEF TrueOf, KindsOf
        <5> QED
          BY <4>1, <5>1, <5>2 DEF FactInv
      <4> QED
        BY <4>1, <4>2 DEF TruthInv
    <3> QED
      BY <3>1, <3>2
  <2> QED
    BY <2>4, <2>5, <2>6
<1>8. ASSUME NEW k \in Loads, LoadFails(k) PROVE TruthInv'
  <2>1. /\ \A j \in Loads : load'[j] = "free" \/ (load'[j] = load[j] /\ list'[j] = list[j])
        /\ UNCHANGED <<charger, feedUp, inbox, dropped, shown>>
    BY <1>8, ForgetDoes DEF LoadFails, page, history
  <2>2. Barren => Barren'
    BY <2>1, StaysBarren
  <2> QED
    BY <1>1, <2>1, <2>2
<1>9. CASE FeedConnects
  <2>1. UNCHANGED <<up, relay, retained>> /\ inbox' = OnSubscribe(retained)
    BY <1>9 DEF FeedConnects, charger
  <2>2. LastTx' = LastTx
    BY <1>9 DEF FeedConnects, charger, LastTx
  <2>3. ASSUME up', NEW fact \in Facts PROVE FactInv(fact)'
    <3> DEFINE a == Status(TRUE)
    <3> DEFINE b == Relay(relay)
    <3> DEFINE c == TxState(LastTx)
    <3>1. inbox' = <<a>> \o <<b>> \o <<c>>
      BY <2>1, <2>3 DEF OnSubscribe, TruthInv
    <3>2. a \in Message /\ b \in Message /\ c \in Message
      BY MessagesTyped DEF DataTypes, LastTx
    <3>3. a.kind = "status" /\ b.kind = "relay" /\ c.kind = "tx"
      BY MessagesTyped
    <3>4. a = Status(TRUE) /\ b = Relay(relay') /\ c = TxState(LastTx') /\ c \in TxMessages
      BY <2>1, <2>2 DEF LastTx, TxMessages
    <3> HIDE DEF a, b, c
    <3>5. <<a>> \in Seq(Message) /\ <<b>> \in Seq(Message) /\ <<c>> \in Seq(Message)
          /\ <<a>> \o <<b>> \in Seq(Message)
      BY <3>2, LiteralFacts, ConcatFacts
    <3>6. LastIsIn(<<a>> \o <<b>> \o <<c>>, KindsOf(fact), TrueOf(fact)')
      <4>1. CASE fact \in {"online", "transaction"}
        <5>1. c \in TrueOf(fact)'
          BY <3>4, <4>1 DEF TrueOf
        <5>2. LastIsIn(<<c>>, KindsOf(fact), TrueOf(fact)')
          BY <3>2, <5>1, SaidAtOnce
        <5> QED
          BY <3>5, <5>2, SaidInConcat
      <4>2. CASE fact = "relay"
        <5>1. b \in TrueOf(fact)' /\ c.kind \notin KindsOf(fact)
          BY <3>3, <3>4, <4>2 DEF TrueOf, KindsOf
        <5>2. LastIsIn(<<b>>, KindsOf(fact), TrueOf(fact)') /\ Silent(<<c>>, KindsOf(fact))
          BY <3>2, <5>1, SaidAtOnce
        <5>3. LastIsIn(<<a>> \o <<b>>, KindsOf(fact), TrueOf(fact)')
          BY <3>5, <5>2, SaidInConcat
        <5> QED
          BY <3>5, <5>2, <5>3, SaidInConcat
      <4> QED
        BY <4>1, <4>2 DEF Facts
    <3>7. KindsOf(fact)' = KindsOf(fact)
      BY DEF KindsOf
    <3> QED
      BY <3>1, <3>6, <3>7 DEF FactInv
  <2> QED
    BY <2>1, <2>2, <2>3 DEF TruthInv
<1>10. CASE FeedLost
  <2>1. UNCHANGED <<up, relay, retained>> /\ feedUp' = FALSE
    BY <1>10 DEF FeedLost, charger
  <2>2. LastTx' = LastTx
    BY <1>10 DEF FeedLost, charger, LastTx
  <2> QED
    BY <2>1, <2>2 DEF TruthInv
<1>11. CASE Receive
  <2>1. /\ feedUp /\ inbox # <<>> /\ inbox' = Tail(inbox) /\ Head(inbox) \in Message
        /\ UNCHANGED <<up, relay, retained, feedUp>>
        /\ inbox \in Seq(Message)
    BY <1>11, ReceiveDoes DEF charger, DataTypes
  <2>2. LastTx' = LastTx
    BY <1>11, ReceiveDoes DEF charger, LastTx
  <2>3. CASE dropped' = TRUE
    BY <2>1, <2>2, <2>3 DEF TruthInv
  <2>4. CASE /\ shown \in Card /\ shown' \in Card
             /\ shown'.live = applyMessage(shown.live, Head(inbox))
             /\ UNCHANGED <<dropped, loads, refetchDue>>
    <3>1. shown # NoCard /\ shown' # NoCard /\ shown.live \in Lives
      BY <2>4, CardIsNoNoCard DEF Card
    <3>2. ASSUME NEW fact \in Facts, FactInv(fact) PROVE FactInv(fact)'
      <4>1. TrueOf(fact)' = TrueOf(fact) /\ KindsOf(fact)' = KindsOf(fact)
        BY <2>1, <2>2 DEF TrueOf, KindsOf
      <4> DEFINE m == Head(inbox)
      <4> DEFINE live == shown.live
      <4>2. /\ m \in TrueOf(fact) => Shows(fact)'
            /\ m.kind \notin KindsOf(fact) /\ Shows(fact) => Shows(fact)'
        <5>1. m \in Message /\ live \in Lives /\ shown'.live = applyMessage(live, m)
          BY <2>1, <2>4, <3>1
        <5> HIDE DEF m, live
        <5> DEFINE new == applyMessage(live, m)
        <5>2. /\ m.kind \notin KindsOf(fact) =>
                   /\ fact = "online" => new.online = live.online
                   /\ fact = "relay" => new.relay = live.relay
                   /\ fact = "transaction" => new.transaction = live.transaction
              /\ m \in TrueOf(fact) =>
                   /\ fact = "online" => new.online = TRUE
                   /\ fact = "relay" => new.relay = relay
                   /\ fact = "transaction" =>
                        new.transaction = LastTx
          BY <5>1, MessageShows
        <5> HIDE DEF new
        <5>3. shown'.live = new
          BY <5>1 DEF new
        <5>4. CASE fact = "online"
          <6>1. /\ m \in TrueOf(fact) => shown'.live.online = TRUE
                /\ m.kind \notin KindsOf(fact) => shown'.live.online = live.online
            BY <5>2, <5>3, <5>4
          <6> QED
            BY <5>4, <6>1 DEF Shows, live
        <5>5. CASE fact = "relay"
          <6>1. /\ m \in TrueOf(fact) => shown'.live.relay = relay
                /\ m.kind \notin KindsOf(fact) => shown'.live.relay = live.relay
            BY <5>2, <5>3, <5>5
          <6> QED
            BY <2>1, <5>5, <6>1 DEF Shows, live
        <5>6. CASE fact = "transaction"
          <6> DEFINE tx == LastTx
          <6>1. /\ m \in TrueOf(fact) => shown'.live.transaction = tx
                /\ m.kind \notin KindsOf(fact) => shown'.live.transaction = live.transaction
            BY <5>2, <5>3, <5>6
          <6>2. tx = LastTx'
            BY <2>2
          <6> HIDE DEF tx
          <6>3. Shows(fact) => live.transaction = tx
            BY <5>6 DEF Shows, live, tx
          <6>4. shown'.live.transaction = tx => Shows(fact)'
            BY <5>6, <6>2 DEF Shows
          <6> QED
            BY <6>1, <6>3, <6>4
        <5> QED
          BY <5>4, <5>5, <5>6 DEF Facts
      <4>3. CASE LastIsIn(inbox, KindsOf(fact), TrueOf(fact))
        <5>1. \/ LastIsIn(Tail(inbox), KindsOf(fact), TrueOf(fact))
              \/ Head(inbox) \in TrueOf(fact) /\ Silent(Tail(inbox), KindsOf(fact))
          BY <2>1, <4>3, SaidInTail
        <5> QED
          BY <2>1, <3>1, <4>1, <4>2, <5>1 DEF FactInv
      <4>4. CASE Silent(inbox, KindsOf(fact)) /\ Shows(fact)
        <5>1. Head(inbox).kind \notin KindsOf(fact) /\ Silent(Tail(inbox), KindsOf(fact))
          BY <2>1, <4>4, SaidInTail
        <5> QED
          BY <2>1, <3>1, <4>1, <4>2, <4>4, <5>1 DEF FactInv
      <4> QED
        BY <3>1, <3>2, <4>3, <4>4 DEF FactInv
    <3> QED
      BY <2>1, <2>2, <2>4, <3>2 DEF TruthInv
  <2> QED
    BY <1>11, <2>3, <2>4, ReceiveDoes
<1>12. CASE RefetchComesDue
  BY <1>2, <1>12 DEF RefetchComesDue, requests, history
<1>13. ASSUME NEW to \in Tenant \union {NoTenant}, Assign(to) PROVE TruthInv'
  BY <1>2, <1>13 DEF Assign, page
<1>14. ASSUME NEW a \in asks, AssignArrives(a) PROVE TruthInv'
  <2>1. /\ UNCHANGED <<charger, feedUp, inbox, dropped, loads>>
        /\ shown = NoCard => shown' = NoCard
        /\ shown # NoCard => shown' # NoCard /\ shown'.live = shown.live
    BY <1>14, AssignArrivesDoes, CardIsNoNoCard DEF history
  <2>2. Barren' <=> Barren
    BY <2>1 DEF Barren, Old, loads
  <2> QED
    BY <1>1, <2>1, <2>2
<1>15. ASSUME NEW a \in asks, AssignFails(a) PROVE TruthInv'
  BY <1>2, <1>15 DEF AssignFails, page
<1>16. CASE UNCHANGED vars
  BY <1>2, <1>16 DEF vars, requests, page, history
<1> QED
  BY <1>3, <1>4, <1>5, <1>6, <1>7, <1>8, <1>9, <1>10, <1>11, <1>12, <1>13, <1>14, <1>15, <1>16
  DEF Next, Api, Page

----------------------------------------------------------------------------
(* The theorems                                                             *)

LEMMA InitHolds == Init => IInv
<1> SUFFICES ASSUME Init PROVE IInv
  OBVIOUS
<1>1. ListsInv
  BY DEF Init, ListsInv, Loads
<1>2. TruthInv
  BY DEF Init, TruthInv
<1>3. TenantInv
  BY DEF Init, TenantInv
<1> QED
  BY <1>1, <1>2, <1>3, InitTyped DEF IInv

\* However lists, answers and messages come, the last word about a charger is on its
\* way to the page or on its card, and a card shows the tenant that was assigned last
\* and is answered.
THEOREM InvariantHolds == Spec => []IInv
<1>1. IInv /\ [Next]_vars => IInv'
  <2> SUFFICES ASSUME IInv, [Next]_vars PROVE IInv'
    OBVIOUS
  <2>1. DataTypes'
    BY TypesStep DEF IInv
  <2>2. ListsInv' /\ TruthInv' /\ TenantInv'
    BY <2>1, ListsStep, TruthStep, TenantStep DEF IInv
  <2> QED
    BY <2>1, <2>2 DEF IInv
<1> QED
  BY <1>1, InitHolds, PTL DEF Spec

\* The card of a charger that is connected is true of it, when all that was sent has
\* arrived: load merges a list into the cards it has, and each connection starts with
\* what is retained.  Only a transaction that a forced off ended stays on it.
THEOREM CardsTellTheTruth == Spec => []CardsAreTrue
<1>1. IInv => CardsAreTrue
  <2> SUFFICES ASSUME IInv, Settled, up, shown # NoCard, ~dropped
               PROVE  \A fact \in Facts : Shows(fact)
    BY DEF CardsAreTrue, Facts, Shows, LastTx
  <2> TAKE fact \in Facts
  <2>1. FactInv(fact) /\ inbox = <<>>
    BY DEF IInv, TruthInv, Settled
  <2>2. ~LastIsIn(inbox, KindsOf(fact), TrueOf(fact))
    BY <2>1 DEF LastIsIn
  <2> QED
    BY <2>1, <2>2 DEF FactInv
<1> QED
  BY <1>1, InvariantHolds, PTL

\* The tenant a card shows is the one in the database, if one assignment was answered
\* before the next one was made: a list that comes late does not put an older one back.
THEOREM TenantsAreTrue == Spec => []TenantShownIsTrue
<1>1. IInv => TenantShownIsTrue
  BY DEF IInv, TenantInv, TenantShownIsTrue, Settled
<1> QED
  BY <1>1, InvariantHolds, PTL
==================================================================================
