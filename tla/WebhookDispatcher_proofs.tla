------------------------ MODULE WebhookDispatcher_proofs ------------------------
(***************************************************************************)
(* Proofs about WebhookDispatcher, for any number of transactions, events, *)
(* retries and troubles.                                                   *)
(***************************************************************************)
EXTENDS WebhookDispatcher, WellFoundedInduction, TLAPS

----------------------------------------------------------------------------
(* The inductive invariant                                                  *)

Posting(p) == p.await \in {"ok", "error"}

\* The transactions held up by a delivery the pass has left behind; that of the
\* delivery that is posted was not held up when its turn came.
HeldUp(p) == IF Posting(p) THEN p.blocked \ {TxOf(p)} ELSE p.blocked

\* What the pass has before it is as it was when the list was read.
ListIsFresh(p) ==
  \A d \in p.todo : /\ d.id \in DOMAIN deliveries
                    /\ Pending(d.id)
                    /\ deliveries[d.id].attempts = d.attempts

\* An event still to come, earlier than one of its transaction on the list, is on
\* the list too, or holds the transaction up.
NothingIsOvertaken(p) ==
  \A d \in p.todo : \A i \in 1..(d.id - 1) :
    Pending(i) /\ deliveries[i].tx = deliveries[d.id].tx =>
      deliveries[i].tx \in HeldUp(p) \/ \E e \in p.todo : e.id = i

PassInv(p) ==
  /\ p.await = "list" => p.todo = {}
  /\ Posting(p) => p.todo # {} /\ TxOf(p) \in p.blocked
  /\ p.await = "ok" => received[Id(p)] > 0
  /\ ListIsFresh(p)
  /\ NothingIsOvertaken(p)

OnePass == \A p, q \in passes : p = q

WithinSchedule == \A i \in DOMAIN deliveries : Pending(i) => deliveries[i].attempts <= Retries

IInv ==
  /\ TypeOK
  /\ OnePass
  /\ \A p \in passes : PassInv(p)
  /\ WithinSchedule
  /\ AttemptsAreCounted

----------------------------------------------------------------------------
(* The list                                                                 *)

\* A set of numbers that is not empty has a first one.
LEMMA FirstExists ==
  ASSUME NEW S \in SUBSET Nat, S # {}
  PROVE  \E i \in S : \A j \in S : i <= j
<1> DEFINE Less == {ss \in Nat \X Nat : ss[1] < ss[2]}
<1>1. IsWellFoundedOn(Less, Nat)
  BY NatLessThanWellFounded DEF OpToRel
<1>2. PICK i \in S : \A j \in S : <<j, i>> \notin Less
  <2> HIDE DEF Less
  <2> QED
    BY <1>1, WFMin
<1>3. \A j \in S : ~(j < i)
  BY <1>2
<1> QED
  BY <1>3

\* The loop's delivery is on the list, and first on it.
LEMMA CurrentIsFirst ==
  ASSUME NEW p \in Pass, p.todo # {}
  PROVE  /\ Current(p) \in p.todo
         /\ Current(p) \in [id : Nat, attempts : Nat]
         /\ \A e \in p.todo : Id(p) <= e.id
<1> DEFINE Numbers == {d.id : d \in p.todo}
<1>1. p.todo \in SUBSET [id : Nat, attempts : Nat]
  BY DEF Pass
<1>2. Numbers \in SUBSET Nat /\ Numbers # {}
  BY <1>1
<1>3. \E i \in Numbers : \A j \in Numbers : i <= j
  BY <1>2, FirstExists
<1>4. \E d \in p.todo : \A e \in p.todo : d.id <= e.id
  BY <1>3
<1> QED
  BY <1>1, <1>4 DEF Current, Id

----------------------------------------------------------------------------
(* What the steps of a pass have in common                                  *)

LEMMA TableTypes ==
  ASSUME TypeOK
  PROVE  /\ DOMAIN deliveries = 1..Len(deliveries) /\ Len(deliveries) \in Nat
         /\ DOMAIN received = DOMAIN deliveries
         /\ \A i \in DOMAIN deliveries : /\ i \in Nat /\ received[i] \in Nat
                                         /\ deliveries[i] \in Delivery
                                         /\ deliveries[i].attempts \in Nat
         /\ deaths \in Nat
<1>1. /\ DOMAIN deliveries = 1..Len(deliveries) /\ Len(deliveries) \in Nat
      /\ DOMAIN received = DOMAIN deliveries
      /\ \A i \in DOMAIN deliveries : i \in Nat /\ deliveries[i] \in Delivery /\ received[i] \in Nat
  BY DEF TypeOK
<1> QED
  BY <1>1 DEF TypeOK, Delivery

\* A pass that goes on is the only one, before and after.
LEMMA PassIsAlone ==
  ASSUME IInv, NEW p \in passes, NEW q, Becomes(p, q)
  PROVE  passes = {p} /\ passes' = {q} /\ p \in Pass /\ PassInv(p) /\ running
  BY DEF IInv, TypeOK, OnePass, Becomes

\* The loop's delivery is in the table as the pass read it.
LEMMA CurrentIsFresh ==
  ASSUME IInv, NEW p \in passes, p.todo # {}
  PROVE  /\ p \in Pass
         /\ Current(p) \in p.todo
         /\ Id(p) \in DOMAIN deliveries /\ Id(p) \in Nat
         /\ Pending(Id(p))
         /\ deliveries[Id(p)] \in Delivery
         /\ deliveries[Id(p)].attempts = Current(p).attempts
         /\ Current(p).attempts \in Nat
         /\ TxOf(p) \in Tx
         /\ \A d \in p.todo : d.id = Id(p) => d = Current(p)
         /\ \A d \in p.todo : Id(p) <= d.id
<1>1. p \in Pass /\ PassInv(p)
  BY DEF IInv, TypeOK
<1>2. /\ Current(p) \in p.todo
      /\ Current(p) \in [id : Nat, attempts : Nat]
      /\ \A d \in p.todo : Id(p) <= d.id
  BY <1>1, CurrentIsFirst
<1>3. /\ Id(p) \in DOMAIN deliveries /\ Pending(Id(p))
      /\ deliveries[Id(p)].attempts = Current(p).attempts
  BY <1>1, <1>2 DEF PassInv, ListIsFresh, Id
<1>4. deliveries[Id(p)] \in Delivery
  BY <1>3 DEF IInv, TypeOK
<1>5. \A d \in p.todo : d.id = Id(p) => d = Current(p)
  <2> SUFFICES ASSUME NEW d \in p.todo, d.id = Id(p) PROVE d = Current(p)
    OBVIOUS
  <2>1. d \in [id : Nat, attempts : Nat]
    BY <1>1 DEF Pass
  <2>2. d.attempts = Current(p).attempts
    BY <1>1, <1>3 DEF PassInv, ListIsFresh
  <2> QED
    BY <2>1, <2>2, <1>2 DEF Id
<1> QED
  BY <1>1, <1>2, <1>3, <1>4, <1>5 DEF TxOf, Delivery, Id, Ids

----------------------------------------------------------------------------
(* The steps of a pass                                                      *)

\* The list a pass reads is all that is pending, as it is.
LEMMA ListIsPending ==
  ASSUME TypeOK
  PROVE  /\ PendingList \in SUBSET [id : Nat, attempts : Nat]
         /\ \A i \in DOMAIN deliveries : Pending(i) => Snapshot(i) \in PendingList
         /\ \A d \in PendingList : d.id \in DOMAIN deliveries /\ Pending(d.id) /\ d = Snapshot(d.id)
<1>1. \A i \in DOMAIN deliveries : i \in Nat /\ deliveries[i].attempts \in Nat
  BY TableTypes
<1>2. \A d \in PendingList : \E i \in DOMAIN deliveries : Pending(i) /\ d = Snapshot(i)
  BY DEF PendingList, Pending
<1>3. \A i \in DOMAIN deliveries : Snapshot(i) \in [id : Nat, attempts : Nat] /\ Snapshot(i).id = i
  BY <1>1 DEF Snapshot
<1>4. \A i \in DOMAIN deliveries : Pending(i) => Snapshot(i) \in PendingList
  BY DEF PendingList, Pending
<1> QED
  BY <1>2, <1>3, <1>4

LEMMA ReadListKeeps ==
  ASSUME IInv, NEW p \in passes, ReadList(p)
  PROVE  IInv'
<1> DEFINE q == [p EXCEPT !.todo = PendingList, !.await = "none"]
<1>1. passes = {p} /\ passes' = {q} /\ p \in Pass /\ PassInv(p) /\ running
  BY PassIsAlone DEF ReadList
<1>2. UNCHANGED <<deliveries, webhookUrl, running, received, deaths, moves>>
  BY DEF ReadList
<1>3. DOMAIN deliveries = 1..Len(deliveries) /\ Len(deliveries) \in Nat
  BY DEF IInv, TypeOK
<1>4. q \in Pass
  <2>1. PendingList \in SUBSET [id : Nat, attempts : Nat]
    BY ListIsPending DEF IInv
  <2> HIDE DEF PendingList
  <2> QED
    BY <1>1, <2>1 DEF Pass
<1>5. TypeOK'
  BY <1>1, <1>2, <1>4 DEF IInv, TypeOK
<1>6. OnePass'
  BY <1>1 DEF OnePass
<1>7. ASSUME NEW x \in passes' PROVE PassInv(x)'
  <2>1. x.todo = PendingList /\ x.await = "none"
    BY <1>1 DEF Pass
  <2>2. ListIsFresh(x)'
    BY <2>1, <1>2, ListIsPending DEF ListIsFresh, Snapshot, Pending, IInv
  <2>3. NothingIsOvertaken(x)'
    <3> SUFFICES ASSUME NEW d \in x.todo, NEW i \in 1..(d.id - 1), Pending(i)
                 PROVE  \E e \in x.todo : e.id = i
      BY <1>2 DEF NothingIsOvertaken, Pending
    <3>1. d.id \in DOMAIN deliveries
      BY <2>1, ListIsPending DEF IInv
    <3>2. i \in DOMAIN deliveries
      BY <3>1, <1>3
    <3>3. Snapshot(i) \in x.todo /\ Snapshot(i).id = i
      BY <2>1, <3>2, ListIsPending DEF IInv, Snapshot
    <3> QED
      BY <3>3
  <2> QED
    BY <2>1, <2>2, <2>3 DEF PassInv, Posting
<1>8. WithinSchedule'
  BY <1>2 DEF IInv, WithinSchedule, Pending
<1>9. AttemptsAreCounted'
  BY <1>1, <1>2, <1>5 DEF IInv, AttemptsAreCounted, InPost, ReadList
<1> QED
  BY <1>5, <1>6, <1>7, <1>8, <1>9 DEF IInv

\* What is left behind holds up its transaction.
LEMMA SkipKeeps ==
  ASSUME IInv, NEW p \in passes, Skip(p)
  PROVE  IInv'
<1> DEFINE q == [p EXCEPT !.todo = Rest(p), !.blocked = @ \cup {TxOf(p)}]
<1>1. passes = {p} /\ passes' = {q} /\ p \in Pass /\ PassInv(p) /\ running
  BY PassIsAlone DEF Skip
<1>2. UNCHANGED <<deliveries, webhookUrl, running, received, deaths, moves>>
  BY DEF Skip
<1>3. p.todo # {} /\ p.await = "none"
  BY DEF Skip, Working
<1>4. TxOf(p) \in Tx /\ Current(p) \in p.todo
  BY <1>3, CurrentIsFresh
<1>5. /\ q \in Pass /\ q.todo = Rest(p) /\ q.await = "none"
      /\ q.blocked = p.blocked \cup {TxOf(p)}
  BY <1>1, <1>3, <1>4 DEF Pass, Rest
<1> HIDE DEF q
<1>6. TypeOK'
  BY <1>1, <1>2, <1>5 DEF IInv, TypeOK
<1>7. OnePass'
  BY <1>1 DEF OnePass
<1>8. ASSUME NEW x \in passes' PROVE PassInv(x)'
  <2>1. x = q
    BY <1>1
  <2>2. ListIsFresh(x)'
    BY <2>1, <1>1, <1>2, <1>5 DEF PassInv, ListIsFresh, Pending, Rest
  <2>3. NothingIsOvertaken(x)'
    <3> SUFFICES ASSUME NEW d \in x.todo, NEW i \in 1..(d.id - 1), Pending(i),
                        deliveries[i].tx = deliveries[d.id].tx,
                        deliveries[i].tx \notin x.blocked
                 PROVE  \E e \in x.todo : e.id = i
      BY <1>2, <1>5, <2>1 DEF NothingIsOvertaken, Pending, HeldUp, Posting
    <3>1. d \in p.todo /\ deliveries[i].tx \notin p.blocked /\ deliveries[i].tx # TxOf(p)
      BY <1>5, <2>1 DEF Rest
    <3>2. PICK e \in p.todo : e.id = i
      BY <3>1, <1>1, <1>3 DEF PassInv, NothingIsOvertaken, HeldUp, Posting
    <3>3. e # Current(p)
      BY <3>1, <3>2 DEF TxOf, Id
    <3> QED
      BY <3>2, <3>3, <1>5, <2>1 DEF Rest
  <2> QED
    BY <2>1, <2>2, <2>3, <1>5 DEF PassInv, Posting
<1>9. WithinSchedule'
  BY <1>2 DEF IInv, WithinSchedule, Pending
<1>10. AttemptsAreCounted'
  BY <1>1, <1>2, <1>3, <1>5, <1>6 DEF IInv, AttemptsAreCounted, InPost
<1> QED
  BY <1>6, <1>7, <1>8, <1>9, <1>10 DEF IInv

LEMMA PostKeeps ==
  ASSUME IInv, NEW p \in passes, NEW outcome \in {"ok", "error"}, NEW arrived \in BOOLEAN,
         Post(p, outcome, arrived)
  PROVE  IInv'
<1> DEFINE q == [p EXCEPT !.blocked = @ \cup {TxOf(p)}, !.attempts = @ + 1, !.await = outcome]
<1>1. passes = {p} /\ passes' = {q} /\ p \in Pass /\ PassInv(p) /\ running
  BY PassIsAlone DEF Post
<1>2. UNCHANGED <<deliveries, webhookUrl, running, deaths, moves>>
  BY DEF Post
<1>3. p.todo # {} /\ p.await = "none" /\ TxOf(p) \notin p.blocked
  BY DEF Post, Working, Attemptable
<1>4. TxOf(p) \in Tx /\ Id(p) \in DOMAIN deliveries
  BY <1>3, CurrentIsFresh
<1>5. /\ q \in Pass /\ q.todo = p.todo /\ q.await = outcome
      /\ q.blocked = p.blocked \cup {TxOf(p)}
  <2>1. /\ p.attempts + 1 \in Nat /\ p.blocked \cup {TxOf(p)} \in SUBSET Tx
        /\ outcome \in {"list", "none", "ok", "error"}
    BY <1>1, <1>4 DEF Pass
  <2> QED
    BY <1>1, <2>1 DEF Pass
<1> HIDE DEF q
<1>6. Id(q) = Id(p) /\ TxOf(q) = TxOf(p)
  BY <1>5 DEF Id, TxOf, Current
<1>7. /\ DOMAIN received = DOMAIN deliveries /\ deaths \in Nat
      /\ \A i \in DOMAIN received : received[i] \in Nat /\ deliveries[i].attempts \in Nat
  BY TableTypes DEF IInv
<1>8. /\ received' \in Seq(Nat) /\ Len(received') = Len(received)
      /\ \A i \in DOMAIN received : i # Id(p) => received'[i] = received[i]
      /\ received'[Id(p)] <= received[Id(p)] + 1
      /\ outcome = "ok" => received'[Id(p)] > 0
      /\ \A i \in DOMAIN received : received'[i] >= received[i]
  BY <1>4, <1>7 DEF Post, IInv, TypeOK
<1>9. TypeOK'
  BY <1>1, <1>2, <1>5, <1>8 DEF IInv, TypeOK
<1>10. OnePass'
  BY <1>1 DEF OnePass
<1>11. ASSUME NEW x \in passes' PROVE PassInv(x)'
  <2>1. x = q
    BY <1>1
  <2>2. ListIsFresh(x)'
    BY <2>1, <1>1, <1>2, <1>5 DEF PassInv, ListIsFresh, Pending
  <2>3. HeldUp(x)' = HeldUp(p)
    BY <2>1, <1>2, <1>3, <1>5, <1>6 DEF HeldUp, Posting, TxOf, Id, Current
  <2>4. NothingIsOvertaken(x)'
    BY <2>1, <2>3, <1>1, <1>2, <1>5 DEF PassInv, NothingIsOvertaken, Pending
  <2>5. Id(x)' = Id(p)
    BY <2>1, <1>6 DEF Id, Current
  <2> QED
    BY <2>1, <2>2, <2>4, <2>5, <1>2, <1>3, <1>5, <1>6, <1>8 DEF PassInv, Posting, TxOf,
      Id, Current
<1>12. WithinSchedule'
  BY <1>2 DEF IInv, WithinSchedule, Pending
<1>13. AttemptsAreCounted'
  <2>1. \A i \in DOMAIN deliveries : received[i] <= deliveries[i].attempts + deaths
    BY <1>1, <1>3, <1>7 DEF IInv, AttemptsAreCounted, InPost
  <2>2. InPost(Id(p))'
    BY <1>1, <1>5, <1>6 DEF InPost, Id, Current
  <2>3. ASSUME NEW i \in DOMAIN deliveries
        PROVE  received'[i] <= deliveries[i].attempts + deaths + (IF InPost(i)' THEN 1 ELSE 0)
    <3>1. CASE i = Id(p)
      BY <3>1, <2>1, <2>2, <1>4, <1>7, <1>8 DEF IInv, TypeOK
    <3>2. CASE i # Id(p)
      BY <3>2, <2>1, <1>7, <1>8 DEF IInv, TypeOK
    <3> QED
      BY <3>1, <3>2
  <2>4. \A i \in DOMAIN deliveries : deliveries[i].status = "delivered" => received'[i] > 0
    BY <1>7, <1>8 DEF IInv, TypeOK, AttemptsAreCounted
  <2> QED
    BY <2>3, <2>4, <1>2, <1>9 DEF IInv, AttemptsAreCounted
<1> QED
  BY <1>9, <1>10, <1>11, <1>12, <1>13 DEF IInv

\* A pass that writes what became of a delivery: the table counts the attempt, and
\* the delivery is settled or holds up its transaction.
LEMMA RecordKeeps ==
  ASSUME IInv, NEW p \in passes, NEW q \in Pass, NEW r \in Delivery,
         Becomes(p, q), UNCHANGED <<webhookUrl, running, received, deaths, moves>>,
         p.todo # {}, q.todo = Rest(p), q.await = "none",
         deliveries' = [deliveries EXCEPT ![Id(p)] = r],
         r.tx = TxOf(p),
         r.attempts = Current(p).attempts + 1,
         HeldUp(p) \subseteq q.blocked,
         r.status = "pending" => TxOf(p) \in q.blocked /\ r.attempts <= Retries,
         r.status = "delivered" => p.await = "ok",
         r.status = "failed" /\ r.error = "refused" /\ r.retry => r.attempts = Retries + 1
  PROVE  IInv'
<1>1. passes = {p} /\ passes' = {q} /\ p \in Pass /\ PassInv(p) /\ running
  BY PassIsAlone
<1>2. /\ Id(p) \in DOMAIN deliveries /\ Current(p) \in p.todo
      /\ deliveries[Id(p)].attempts = Current(p).attempts
      /\ \A d \in p.todo : d.id = Id(p) => d = Current(p)
  BY CurrentIsFresh
<1>3. /\ DOMAIN received = DOMAIN deliveries /\ deaths \in Nat
      /\ \A i \in DOMAIN deliveries : received[i] \in Nat /\ deliveries[i].attempts \in Nat
  BY TableTypes DEF IInv
<1>4. /\ deliveries' \in Seq(Delivery) /\ Len(deliveries') = Len(deliveries)
      /\ DOMAIN deliveries' = DOMAIN deliveries
      /\ deliveries'[Id(p)] = r
      /\ \A i \in DOMAIN deliveries : i # Id(p) => deliveries'[i] = deliveries[i]
      /\ \A i \in DOMAIN deliveries : deliveries'[i].tx = deliveries[i].tx
  BY <1>2 DEF IInv, TypeOK, TxOf
<1>5. TypeOK'
  BY <1>1, <1>4 DEF IInv, TypeOK
<1>6. OnePass'
  BY <1>1 DEF OnePass
<1>7. ASSUME NEW x \in passes' PROVE PassInv(x)'
  <2>1. x = q /\ x.todo = p.todo \ {Current(p)}
    BY <1>1 DEF Rest
  <2>2. \A d \in x.todo : d \in p.todo /\ d.id # Id(p) /\ d.id \in DOMAIN deliveries
    BY <2>1, <1>1, <1>2 DEF PassInv, ListIsFresh
  <2>3. ListIsFresh(x)'
    BY <2>2, <1>1, <1>4 DEF PassInv, ListIsFresh, Pending
  <2>4. NothingIsOvertaken(x)'
    <3> SUFFICES ASSUME NEW d \in x.todo, NEW i \in 1..(d.id - 1), Pending(i)',
                        deliveries'[i].tx = deliveries'[d.id].tx,
                        deliveries'[i].tx \notin x.blocked
                 PROVE  \E e \in x.todo : e.id = i
      BY <2>1 DEF NothingIsOvertaken, HeldUp, Posting
    <3>1. i \in DOMAIN deliveries
      BY <2>2, TableTypes DEF IInv
    <3>2. i # Id(p)
      BY <2>1, <1>4 DEF Pending
    <3>3. Pending(i) /\ deliveries[i].tx = deliveries[d.id].tx /\ deliveries[i].tx \notin HeldUp(p)
      BY <2>1, <2>2, <3>1, <3>2, <1>4 DEF Pending
    <3>4. PICK e \in p.todo : e.id = i
      BY <2>2, <3>3, <1>1 DEF PassInv, NothingIsOvertaken
    <3>5. e # Current(p)
      BY <3>2, <3>4 DEF Id
    <3> QED
      BY <2>1, <3>4, <3>5
  <2> QED
    BY <2>1, <2>3, <2>4 DEF PassInv, Posting
<1>8. WithinSchedule'
  BY <1>4 DEF IInv, WithinSchedule, Pending
<1>9. AttemptsAreCounted'
  <2>1. ASSUME NEW i \in DOMAIN deliveries
        PROVE  received[i] <= deliveries'[i].attempts + deaths + (IF InPost(i)' THEN 1 ELSE 0)
    <3>1. ~InPost(i)'
      BY <1>1 DEF InPost
    <3>2. received[i] <= deliveries[i].attempts + deaths + (IF InPost(i) THEN 1 ELSE 0)
      BY DEF IInv, AttemptsAreCounted
    <3>3. CASE i = Id(p)
      BY <3>1, <3>2, <3>3, <1>2, <1>3, <1>4
    <3>4. CASE i # Id(p)
      <4>1. ~InPost(i)
        BY <3>4, <1>1 DEF InPost
      <4> QED
        BY <3>1, <3>2, <3>4, <4>1, <1>3, <1>4
    <3> QED
      BY <3>3, <3>4
  <2>2. ASSUME NEW i \in DOMAIN deliveries
        PROVE  /\ deliveries'[i].status = "failed" /\ deliveries'[i].error = "refused"
                  /\ deliveries'[i].retry => deliveries'[i].attempts = Retries + 1
               /\ deliveries'[i].status = "delivered" => received[i] > 0
    <3>1. CASE i = Id(p)
      BY <3>1, <1>1, <1>4 DEF PassInv
    <3>2. CASE i # Id(p)
      BY <3>2, <1>4 DEF IInv, AttemptsAreCounted
    <3> QED
      BY <3>1, <3>2
  <2> QED
    BY <2>1, <2>2, <1>4, <1>5 DEF AttemptsAreCounted
<1> QED
  BY <1>5, <1>6, <1>7, <1>8, <1>9 DEF IInv

LEMMA NoUrlKeeps ==
  ASSUME IInv, NEW p \in passes, NoUrl(p)
  PROVE  IInv'
<1> DEFINE q == [p EXCEPT !.todo = Rest(p), !.blocked = @ \cup {TxOf(p)}, !.attempts = @ + 1]
           r == [deliveries[Id(p)] EXCEPT !.status = "failed", !.error = "no_url",
                                          !.attempts = Current(p).attempts + 1]
<1>1. p.todo # {} /\ p.await = "none"
  BY DEF NoUrl, Working
<1>2. p \in Pass /\ deliveries[Id(p)] \in Delivery /\ TxOf(p) \in Tx /\ Current(p).attempts + 1 \in Nat
  BY <1>1, CurrentIsFresh
<1>3. /\ q \in Pass /\ q.todo = Rest(p) /\ q.await = "none"
      /\ q.blocked = p.blocked \cup {TxOf(p)}
  <2>1. p.attempts + 1 \in Nat /\ p.blocked \cup {TxOf(p)} \in SUBSET Tx
        /\ Rest(p) \in SUBSET [id : Nat, attempts : Nat]
    BY <1>2 DEF Pass, Rest
  <2> QED
    BY <1>1, <1>2, <2>1 DEF Pass
<1>4. /\ r \in Delivery /\ r.tx = TxOf(p) /\ r.status = "failed" /\ r.error = "no_url"
      /\ r.attempts = Current(p).attempts + 1
  BY <1>2 DEF Delivery, TxOf
<1>5. deliveries' = [deliveries EXCEPT ![Id(p)] = r] /\ Becomes(p, q)
  BY DEF NoUrl
<1>6. UNCHANGED <<webhookUrl, running, received, deaths, moves>>
  BY DEF NoUrl
<1>7. HeldUp(p) \subseteq q.blocked
  BY <1>1, <1>3 DEF HeldUp, Posting
<1> HIDE DEF q, r
<1> QED
  BY <1>1, <1>3, <1>4, <1>5, <1>6, <1>7, RecordKeeps

LEMMA RecordDeliveredKeeps ==
  ASSUME IInv, NEW p \in passes, RecordDelivered(p)
  PROVE  IInv'
<1> DEFINE q == Unblocked(p)
           r == [deliveries[Id(p)] EXCEPT !.status = "delivered", !.error = "none",
                                          !.attempts = Current(p).attempts + 1]
<1>1. p.await = "ok" /\ p.todo # {}
  BY DEF RecordDelivered, IInv, PassInv, Posting
<1>2. p \in Pass /\ deliveries[Id(p)] \in Delivery /\ TxOf(p) \in Tx /\ Current(p).attempts + 1 \in Nat
  BY <1>1, CurrentIsFresh
<1>3. /\ q \in Pass /\ q.todo = Rest(p) /\ q.await = "none"
      /\ q.blocked = p.blocked \ {TxOf(p)}
  BY <1>2 DEF Pass, Rest, Unblocked
<1>4. /\ r \in Delivery /\ r.tx = TxOf(p) /\ r.status = "delivered" /\ r.error = "none"
      /\ r.attempts = Current(p).attempts + 1
  BY <1>2 DEF Delivery, TxOf
<1>5. deliveries' = [deliveries EXCEPT ![Id(p)] = r] /\ Becomes(p, q)
  BY DEF RecordDelivered
<1>6. UNCHANGED <<webhookUrl, running, received, deaths, moves>>
  BY DEF RecordDelivered
<1>7. HeldUp(p) \subseteq q.blocked
  BY <1>1, <1>3 DEF HeldUp, Posting
<1> HIDE DEF q, r
<1> QED
  BY <1>1, <1>3, <1>4, <1>5, <1>6, <1>7, RecordKeeps

LEMMA RecordFailedKeeps ==
  ASSUME IInv, NEW p \in passes, RecordFailed(p)
  PROVE  IInv'
<1> DEFINE i == Id(p)
           attempt == Current(p).attempts + 1
<1>1. p.await = "error" /\ p.todo # {}
  BY DEF RecordFailed, IInv, PassInv, Posting
<1>2. /\ p \in Pass /\ deliveries[i] \in Delivery /\ TxOf(p) \in Tx /\ attempt \in Nat
      /\ i \in DOMAIN deliveries
  BY <1>1, CurrentIsFresh
<1>3. attempt <= Retries + 1
  BY <1>1, CurrentIsFresh, ConstantsAssumption DEF IInv, WithinSchedule
<1>4. UNCHANGED <<webhookUrl, running, received, deaths, moves>>
  BY DEF RecordFailed
<1>5. CASE GivesUp(deliveries[i], attempt)
  <2> DEFINE q == Unblocked(p)
             r == [deliveries[i] EXCEPT !.status = "failed", !.error = "refused",
                                        !.attempts = attempt]
  <2>1. /\ q \in Pass /\ q.todo = Rest(p) /\ q.await = "none"
        /\ q.blocked = p.blocked \ {TxOf(p)}
    BY <1>2 DEF Pass, Rest, Unblocked
  <2>2. /\ r \in Delivery /\ r.tx = TxOf(p) /\ r.status = "failed" /\ r.attempts = attempt
        /\ r.retry = deliveries[i].retry
    BY <1>2 DEF Delivery, TxOf
  <2>3. r.retry => r.attempts = Retries + 1
    BY <1>2, <1>3, <1>5, <2>2, ConstantsAssumption DEF GivesUp
  <2>4. deliveries' = [deliveries EXCEPT ![i] = r] /\ Becomes(p, q)
    BY <1>2, <1>5 DEF RecordFailed
  <2>5. HeldUp(p) \subseteq q.blocked
    BY <1>1, <2>1 DEF HeldUp, Posting
  <2> HIDE DEF q, r
  <2> QED
    BY <1>1, <1>4, <2>1, <2>2, <2>3, <2>4, <2>5, RecordKeeps
<1>6. CASE ~GivesUp(deliveries[i], attempt)
  <2> DEFINE q == [p EXCEPT !.todo = Rest(p), !.await = "none"]
             r == [deliveries[i] EXCEPT !.due = FALSE, !.error = "refused", !.attempts = attempt]
  <2>1. /\ q \in Pass /\ q.todo = Rest(p) /\ q.await = "none" /\ q.blocked = p.blocked
    BY <1>2 DEF Pass, Rest
  <2>2. /\ r \in Delivery /\ r.tx = TxOf(p) /\ r.attempts = attempt
        /\ r.status = deliveries[i].status
    BY <1>2 DEF Delivery, TxOf
  <2>3. r.attempts <= Retries /\ r.status = "pending"
    BY <1>1, <1>2, <1>6, <2>2, CurrentIsFresh, ConstantsAssumption DEF GivesUp, Pending
  <2>4. deliveries' = [deliveries EXCEPT ![i] = r] /\ Becomes(p, q)
    BY <1>2, <1>6 DEF RecordFailed
  <2>5. HeldUp(p) \subseteq q.blocked
    BY <2>1 DEF HeldUp
  <2>6. TxOf(p) \in q.blocked
    BY <1>1, <2>1 DEF IInv, PassInv, Posting
  <2> HIDE DEF q, r
  <2> QED
    BY <1>1, <1>4, <2>1, <2>2, <2>3, <2>4, <2>5, <2>6, RecordKeeps
<1> QED
  BY <1>5, <1>6

\* A pass that is over: at its end nothing is in doubt, in its middle one post is.
LEMMA PassEnds ==
  ASSUME IInv, NEW p \in passes, EndPass(p) \/ PassDies(p)
  PROVE  IInv'
<1>1. passes = {p} /\ passes' = {} /\ running' = FALSE
  BY DEF IInv, OnePass, EndPass, PassDies
<1>2. UNCHANGED <<deliveries, webhookUrl, received, moves>>
  BY DEF EndPass, PassDies
<1>3. /\ \A i \in DOMAIN deliveries : received[i] \in Nat /\ deliveries[i].attempts \in Nat
      /\ deaths \in Nat
  BY TableTypes DEF IInv
<1>4. deaths' \in Nat
  BY <1>3 DEF EndPass, PassDies
<1>5. TypeOK'
  BY <1>1, <1>2, <1>4 DEF IInv, TypeOK
<1>6. \A i \in DOMAIN deliveries : received[i] <= deliveries[i].attempts + deaths'
  <2>1. CASE EndPass(p)
    BY <2>1, <1>1, <1>3 DEF EndPass, IInv, AttemptsAreCounted, InPost
  <2>2. CASE PassDies(p)
    BY <2>2, <1>3 DEF PassDies, IInv, AttemptsAreCounted
  <2> QED
    BY <2>1, <2>2
<1>7. AttemptsAreCounted'
  <2>1. \A i \in DOMAIN deliveries : ~InPost(i)'
    BY <1>1 DEF InPost
  <2> QED
    BY <2>1, <1>2, <1>3, <1>4, <1>5, <1>6 DEF IInv, AttemptsAreCounted
<1> QED
  BY <1>1, <1>2, <1>5, <1>7 DEF IInv, OnePass, WithinSchedule, Pending

----------------------------------------------------------------------------
(* The steps around it                                                      *)

LEMMA RunOnceKeeps ==
  ASSUME IInv, RunOnce
  PROVE  IInv'
<1>1. passes = {} /\ passes' = {NewPass} /\ running' = TRUE
  BY DEF IInv, TypeOK, RunOnce
<1>2. UNCHANGED <<deliveries, webhookUrl, received, deaths, moves>>
  BY DEF RunOnce
<1>3. NewPass \in Pass /\ NewPass.todo = {} /\ NewPass.await = "list"
  BY DEF IInv, TypeOK, NewPass, Pass
<1>4. TypeOK'
  BY <1>1, <1>2, <1>3 DEF IInv, TypeOK
<1>5. OnePass'
  BY <1>1 DEF OnePass
<1>6. ASSUME NEW x \in passes' PROVE PassInv(x)'
  BY <1>1, <1>3 DEF PassInv, Posting, ListIsFresh, NothingIsOvertaken
<1>7. \A i : InPost(i)' <=> InPost(i)
  BY <1>1, <1>3 DEF InPost
<1>8. AttemptsAreCounted'
  BY <1>2, <1>4, <1>7 DEF IInv, AttemptsAreCounted
<1> QED
  BY <1>2, <1>4, <1>5, <1>6, <1>8 DEF IInv, WithinSchedule, Pending

\* A new event is behind all that are on a list.
LEMMA EnqueueKeeps ==
  ASSUME IInv, NEW t \in Tx, NEW retry \in BOOLEAN, Enqueue(t, retry)
  PROVE  IInv'
<1> DEFINE new == NewDelivery(t, retry)
<1>1. UNCHANGED <<webhookUrl, running, passes, deaths, moves>>
  BY DEF Enqueue
<1>2. /\ new \in Delivery /\ new.attempts = 0 /\ new.status = "pending"
  BY DEF NewDelivery, Delivery
<1>3. /\ DOMAIN deliveries = 1..Len(deliveries) /\ Len(deliveries) \in Nat
      /\ DOMAIN received = DOMAIN deliveries
      /\ \A i \in DOMAIN deliveries : received[i] \in Nat /\ deliveries[i].attempts \in Nat
      /\ deaths \in Nat
  BY TableTypes DEF IInv
<1> HIDE DEF new
<1>4. /\ deliveries' \in Seq(Delivery) /\ Len(deliveries') = Len(deliveries) + 1
      /\ DOMAIN deliveries' = DOMAIN deliveries \cup {Len(deliveries) + 1}
      /\ deliveries'[Len(deliveries) + 1] = new
      /\ \A i \in DOMAIN deliveries : deliveries'[i] = deliveries[i]
  BY <1>2, <1>3 DEF Enqueue, IInv, TypeOK, new
<1>5. /\ received' \in Seq(Nat) /\ Len(received') = Len(received) + 1
      /\ received'[Len(deliveries) + 1] = 0
      /\ \A i \in DOMAIN deliveries : received'[i] = received[i]
  BY <1>3 DEF Enqueue, IInv, TypeOK
<1>6. TypeOK'
  BY <1>1, <1>4, <1>5 DEF IInv, TypeOK
<1>7. ASSUME NEW x \in passes PROVE PassInv(x)'
  <2>1. PassInv(x) /\ x \in Pass
    BY DEF IInv, TypeOK
  <2>2. ListIsFresh(x)'
    BY <2>1, <1>4 DEF PassInv, ListIsFresh, Pending
  <2>3. Posting(x) => Id(x)' = Id(x) /\ TxOf(x)' = TxOf(x) /\ Id(x) \in DOMAIN deliveries
    BY <1>4, CurrentIsFresh, <2>1 DEF PassInv, Id, TxOf, Current
  <2>4. HeldUp(x)' = HeldUp(x)
    BY <2>3 DEF HeldUp, Posting
  <2>5. NothingIsOvertaken(x)'
    <3> SUFFICES ASSUME NEW d \in x.todo, NEW i \in 1..(d.id - 1), Pending(i)',
                        deliveries'[i].tx = deliveries'[d.id].tx
                 PROVE  deliveries'[i].tx \in HeldUp(x) \/ \E e \in x.todo : e.id = i
      BY <2>4 DEF NothingIsOvertaken
    <3>1. d.id \in DOMAIN deliveries
      BY <2>1 DEF PassInv, ListIsFresh
    <3>2. i \in DOMAIN deliveries
      BY <3>1, <1>3
    <3> QED
      BY <2>1, <3>1, <3>2, <1>4 DEF PassInv, NothingIsOvertaken, Pending
  <2>6. x.await = "ok" => received'[Id(x)] > 0
    BY <2>1, <2>3, <1>5 DEF PassInv, Posting
  <2> QED
    BY <2>1, <2>2, <2>3, <2>5, <2>6 DEF PassInv, Posting
<1>8. WithinSchedule'
  BY <1>2, <1>4, ConstantsAssumption DEF IInv, WithinSchedule, Pending
<1>9. AttemptsAreCounted'
  <2>1. \A i \in DOMAIN deliveries : InPost(i)' <=> InPost(i)
    BY <1>1 DEF InPost, Id, Current
  <2>2. ASSUME NEW i \in DOMAIN deliveries'
        PROVE  received'[i] <= deliveries'[i].attempts + deaths + (IF InPost(i)' THEN 1 ELSE 0)
    <3>1. CASE i \in DOMAIN deliveries
      BY <3>1, <2>1, <1>4, <1>5 DEF IInv, AttemptsAreCounted
    <3>2. CASE i = Len(deliveries) + 1
      BY <3>2, <1>2, <1>3, <1>4, <1>5
    <3> QED
      BY <3>1, <3>2, <1>4
  <2>3. ASSUME NEW i \in DOMAIN deliveries'
        PROVE  /\ deliveries'[i].status = "failed" /\ deliveries'[i].error = "refused"
                  /\ deliveries'[i].retry => deliveries'[i].attempts = Retries + 1
               /\ deliveries'[i].status = "delivered" => received'[i] > 0
    <3>1. CASE i \in DOMAIN deliveries
      BY <3>1, <1>4, <1>5 DEF IInv, AttemptsAreCounted
    <3>2. CASE i = Len(deliveries) + 1
      BY <3>2, <1>2, <1>4
    <3> QED
      BY <3>1, <3>2, <1>4
  <2> QED
    BY <2>2, <2>3, <1>1, <1>6 DEF AttemptsAreCounted
<1> QED
  BY <1>1, <1>6, <1>7, <1>8, <1>9 DEF IInv, OnePass

\* Nothing the invariant speaks of depends on the URL or on the time.
LEMMA TimeAndUrlKeep ==
  ASSUME IInv, MoveUrl \/ \E i \in DOMAIN deliveries : ComesDue(i)
  PROVE  IInv'
<1>1. UNCHANGED <<running, passes, received,
                  deaths>> /\ moves' \in Nat /\ webhookUrl' \in BOOLEAN
  <2>1. UNCHANGED <<running, passes, received, deaths>>
    BY DEF MoveUrl, ComesDue
  <2>2. moves' \in Nat
    BY DEF IInv, TypeOK, MoveUrl, ComesDue
  <2>3. webhookUrl' \in BOOLEAN
    BY Zenon DEF IInv, TypeOK, MoveUrl, ComesDue
  <2> QED
    BY <2>1, <2>2, <2>3
<1>2. /\ deliveries' \in Seq(Delivery) /\ Len(deliveries') = Len(deliveries)
      /\ DOMAIN deliveries' = DOMAIN deliveries
      /\ \A i \in DOMAIN deliveries :
           /\ deliveries'[i].tx = deliveries[i].tx /\ deliveries'[i].retry = deliveries[i].retry
           /\ deliveries'[i].status = deliveries[i].status
           /\ deliveries'[i].attempts = deliveries[i].attempts
           /\ deliveries'[i].error = deliveries[i].error
  <2>1. CASE MoveUrl
    BY <2>1 DEF MoveUrl, IInv, TypeOK
  <2>2. CASE \E i \in DOMAIN deliveries : ComesDue(i)
    <3>1. PICK j \in DOMAIN deliveries : ComesDue(j)
      BY <2>2
    <3> DEFINE r == [deliveries[j] EXCEPT !.due = TRUE]
    <3>2. deliveries[j] \in Delivery
      BY TableTypes DEF IInv
    <3>3. /\ r \in Delivery /\ r.tx = deliveries[j].tx /\ r.retry = deliveries[j].retry
          /\ r.status = deliveries[j].status /\ r.attempts = deliveries[j].attempts
          /\ r.error = deliveries[j].error
      BY <3>2 DEF Delivery
    <3>4. deliveries' = [deliveries EXCEPT ![j] = r]
      BY <3>1 DEF ComesDue
    <3> HIDE DEF r
    <3>5. deliveries \in Seq(Delivery)
      BY DEF IInv, TypeOK
    <3> QED
      BY <3>3, <3>4, <3>5
  <2> QED
    BY <2>1, <2>2
<1>3. TypeOK'
  BY <1>1, <1>2 DEF IInv, TypeOK
<1>4. \A i \in DOMAIN deliveries : Pending(i)' <=> Pending(i)
  BY <1>2 DEF Pending
<1>5. ASSUME NEW x \in passes PROVE PassInv(x)'
  <2>1. PassInv(x)
    BY DEF IInv
  <2>2. ListIsFresh(x)'
    BY <2>1, <1>2, <1>4 DEF PassInv, ListIsFresh
  <2>3. x.todo # {} => Id(x)' = Id(x) /\ TxOf(x)' = TxOf(x)
    BY <1>2, CurrentIsFresh DEF Id, TxOf, Current
  <2>4. HeldUp(x)' = HeldUp(x)
    BY <2>1, <2>3 DEF HeldUp, Posting, PassInv
  <2>5. NothingIsOvertaken(x)'
    <3> SUFFICES ASSUME NEW d \in x.todo, NEW i \in 1..(d.id - 1), Pending(i)',
                        deliveries'[i].tx = deliveries'[d.id].tx
                 PROVE  deliveries'[i].tx \in HeldUp(x) \/ \E e \in x.todo : e.id = i
      BY <2>4 DEF NothingIsOvertaken
    <3>1. d.id \in DOMAIN deliveries /\ i \in DOMAIN deliveries
      BY <2>1, TableTypes DEF PassInv, ListIsFresh, IInv
    <3> QED
      BY <2>1, <3>1, <1>2, <1>4 DEF PassInv, NothingIsOvertaken
  <2> QED
    BY <2>1, <2>2, <2>3, <2>5, <1>1 DEF PassInv, Posting
<1>6. WithinSchedule'
  BY <1>2, <1>4 DEF IInv, WithinSchedule
<1>7. AttemptsAreCounted'
  <2>1. \A i \in DOMAIN deliveries : InPost(i)' <=> InPost(i)
    BY <1>1 DEF InPost, Id, Current
  <2> QED
    BY <2>1, <1>1, <1>2, <1>3 DEF IInv, AttemptsAreCounted
<1> QED
  BY <1>1, <1>3, <1>5, <1>6, <1>7 DEF IInv, OnePass

----------------------------------------------------------------------------
(* The theorems                                                             *)

LEMMA InitIsFine == Init => IInv
<1> SUFFICES ASSUME Init PROVE IInv
  OBVIOUS
<1>1. running \in BOOLEAN /\ webhookUrl \in BOOLEAN /\ (running <=> passes # {})
  BY Zenon DEF Init
<1>2. deliveries \in Seq(Delivery) /\ received \in Seq(Nat) /\ Len(received) = Len(deliveries)
  BY DEF Init
<1>3. passes \subseteq Pass /\ deaths \in Nat /\ moves \in Nat
  BY DEF Init
<1>4. TypeOK
  BY <1>1, <1>2, <1>3 DEF TypeOK
<1> QED
  BY <1>4 DEF Init, IInv, OnePass, WithinSchedule, AttemptsAreCounted

LEMMA NextKeeps == IInv /\ [Next]_vars => IInv'
<1> SUFFICES ASSUME IInv, [Next]_vars PROVE IInv'
  OBVIOUS
<1>1. CASE RunOnce
  BY <1>1, RunOnceKeeps
<1>2. ASSUME NEW p \in passes, Step(p) PROVE IInv'
  BY <1>2, ReadListKeeps, SkipKeeps, NoUrlKeeps, RecordDeliveredKeeps,
    RecordFailedKeeps,
     PassEnds, PostKeeps DEF Step
<1>3. ASSUME NEW p \in passes, PassDies(p) PROVE IInv'
  BY <1>3, PassEnds
<1>4. ASSUME NEW t \in Tx, NEW retry \in BOOLEAN, Enqueue(t, retry) PROVE IInv'
  BY <1>4, EnqueueKeeps
<1>5. CASE MoveUrl \/ \E i \in DOMAIN deliveries : ComesDue(i)
  BY <1>5, TimeAndUrlKeep
<1>6. CASE UNCHANGED vars
  <2>1. TypeOK' /\ OnePass'
    BY <1>6 DEF vars, IInv, TypeOK, OnePass
  <2>2. ASSUME NEW x \in passes' PROVE PassInv(x)'
    BY <1>6 DEF vars, IInv, PassInv, Posting, ListIsFresh, NothingIsOvertaken, HeldUp,
      Pending,
                Id, TxOf, Current
  <2>3. WithinSchedule'
    BY <1>6 DEF vars, IInv, WithinSchedule, Pending
  <2>4. AttemptsAreCounted'
    BY <1>6, <2>1 DEF vars, IInv, AttemptsAreCounted, InPost, Id, Current
  <2> QED
    BY <2>1, <2>2, <2>3, <2>4 DEF IInv
<1> QED
  BY <1>1, <1>2, <1>3, <1>4, <1>5, <1>6 DEF Next, Dispatch

\* One pass at a time; what it has before it is what the table holds, and all of it.
THEOREM InvariantHolds == Spec => []IInv
  BY InitIsFine, NextKeeps, PTL DEF Spec

\* The table accounts for what the tenant received, whatever schedule, limit and
\* number of events, endpoints, passes that die: webhooks.ts counts attempts in the
\* table and remembers nothing else.
THEOREM TableAccounts == Spec => []AttemptsAreCounted
<1>1. IInv => AttemptsAreCounted
  BY DEF IInv
<1> QED
  BY <1>1, InvariantHolds, PTL

\* Only a post delivers, and what it delivers is the loop's delivery, whose
\* transaction nothing holds up.
LEMMA OnlyPostsDeliver ==
  ASSUME IInv, [Next]_vars, NEW j \in DOMAIN received, received'[j] > received[j]
  PROVE  \E p \in passes : /\ p.todo # {} /\ p.await = "none" /\ TxOf(p) \notin p.blocked
                           /\ j = Id(p)
<1>1. received[j] \in Nat /\ j \in DOMAIN deliveries
  BY TableTypes DEF IInv
<1>2. received'[j] # received[j]
  BY <1>1
<1>3. CASE \E p \in passes, outcome \in {"ok", "error"}, arrived \in BOOLEAN :
             Post(p, outcome, arrived)
  <2>1. PICK p \in passes, outcome \in {"ok", "error"}, arrived \in BOOLEAN :
          Post(p, outcome, arrived)
    BY <1>3
  <2>2. p.todo # {} /\ p.await = "none" /\ TxOf(p) \notin p.blocked
    BY <2>1 DEF Post, Working, Attemptable
  <2>3. j = Id(p)
    BY <2>1, <1>2 DEF Post
  <2> QED
    BY <2>2, <2>3
<1>4. CASE \E t \in Tx, retry \in BOOLEAN : Enqueue(t, retry)
  BY <1>2, <1>4 DEF Enqueue, IInv, TypeOK
<1>5. CASE received' = received
  BY <1>2, <1>5
<1> QED
  BY <1>3, <1>4, <1>5 DEF Next, Dispatch, Step, RunOnce, ReadList, Skip, NoUrl,
    RecordDelivered,
     RecordFailed, EndPass, PassDies, MoveUrl, ComesDue, vars

\* Nothing recorded as delivered or given up is sent again.
THEOREM SettledStaysSettled == Spec => SettledIsNotSent
<1>1. IInv /\ [Next]_vars =>
        [\A j \in DOMAIN received : received'[j] > received[j] => Pending(j)]_vars
  BY OnlyPostsDeliver, CurrentIsFresh
<1> QED
  BY <1>1, InvariantHolds, PTL DEF Spec, SettledIsNotSent

\* Events of a transaction arrive in the order in which they were written.
THEOREM OrderIsKept == Spec => EventsArriveInOrder
<1>1. ASSUME IInv, [Next]_vars, NEW j \in DOMAIN received, received'[j] > received[j],
             NEW i \in 1..(j - 1), deliveries[i].tx = deliveries[j].tx, Pending(i)
      PROVE  FALSE
  <2>1. PICK p \in passes : /\ p.todo # {} /\ p.await = "none" /\ TxOf(p) \notin p.blocked
                            /\ j = Id(p)
    BY <1>1, OnlyPostsDeliver
  <2>2. /\ Current(p) \in p.todo /\ Current(p).id = j /\ deliveries[j].tx = TxOf(p)
        /\ \A d \in p.todo : j <= d.id
        /\ p \in Pass
    BY <1>1, <2>1, CurrentIsFresh DEF TxOf, Id
  <2>3. PICK e \in p.todo : e.id = i
    BY <1>1, <2>1, <2>2 DEF IInv, PassInv, NothingIsOvertaken, HeldUp, Posting
  <2>4. j \in Nat
    BY <1>1, TableTypes DEF IInv
  <2> QED
    BY <2>2, <2>3, <2>4
<1>2. IInv /\ [Next]_vars =>
        [\A j \in DOMAIN received : received'[j] > received[j] =>
           \A i \in 1..(j - 1) : deliveries[i].tx = deliveries[j].tx => ~Pending(i)]_vars
  BY <1>1
<1> QED
  BY <1>2, InvariantHolds, PTL DEF Spec, EventsArriveInOrder
================================================================================
