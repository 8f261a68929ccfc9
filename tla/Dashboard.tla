------------------------------- MODULE Dashboard -------------------------------
(***************************************************************************)
(* The portal's page of device cards: a list fetched from the API, kept    *)
(* up to date by MQTT messages straight from the broker, and refetched     *)
(* when a charger speaks that is not on it.  One charger, registered while *)
(* the page is open or before, and one page.  The list names the newest    *)
(* chargers only, so enough others registered later take this one off it.  *)
(*                                                                         *)
(* The list, the retained messages and the live ones come over different   *)
(* connections: nothing orders an answer of the API among the messages, or *)
(* two answers among each other.                                           *)
(***************************************************************************)
EXTENDS DeviceProtocol, Naturals

CONSTANTS
  Tenant, NoTenant,  \* whom the charger may be assigned to
  Session,           \* the transaction of a session: ids are not told apart
  MaxChanges,        \* bound: what happens at the charger
  MaxFaults,         \* bound: connections lost, requests that fail
  MaxAssigns,        \* bound: choices of a tenant
  ListLimit          \* how many chargers the list names: 200

ASSUME DashboardAssumption ==
  /\ NoTenant \notin Tenant /\ Session # NoTx
  /\ Unknown \notin Tenant \union {NoTenant}
  /\ {MaxChanges, MaxFaults, MaxAssigns} \subseteq Nat /\ ListLimit \in Nat \ {0}

VARIABLES
  \* the charger and the broker
  up, relay, charging, retained,
  cutOff,      \* history: its last session was ended by a forced off, and no
               \* state was told since
  \* the API and its database
  registered,  \* the charger has a row
  newer,       \* how many registered after it, up to ListLimit
  tenant,      \* its tenant_id
  view,        \* what the API's device bus believes
  \* requests on their way, and answers
  load,        \* requests for the list: "free", "asked" or "answered"
  list,        \* what an answered one says of the charger
  asks,        \* assignments: [tenant, done]
  \* the page
  feedUp,      \* connected and subscribed
  inbox,       \* messages on their way to the page
  shown,       \* the card, or NoCard; there is one if and only if it is known
  refetchDue,  \* UNKNOWN_DEVICE_REFETCH_MS have passed
  changes, faults, assigns,   \* so far
  \* history
  dropped,     \* since the last subscription a message was dropped, or a card
               \* with what it had been told taken off by a list too short for it
  blurred      \* two assignments at a time, one whose answer was lost, or a
               \* card taken off by a list older than the one that brought it

charger == <<up, relay, charging, cutOff, retained>>
database == <<registered, newer, tenant>>
loads == <<load, list>>
requests == <<loads, asks>>
page == <<shown, refetchDue>>
counters == <<changes, faults, assigns>>
history == <<dropped, blurred>>
vars == <<charger, database, view, requests, feedUp, inbox, page, counters, history>>

NoCard == [tenant |-> Unknown, live |-> emptyDeviceState]

\* At most two requests for the list at a time: see RefetchComesDue.
Loads == {1, 2}

Init ==
  /\ up = FALSE /\ relay = FALSE /\ charging = FALSE /\ cutOff = FALSE
  /\ retained = NothingRetained
  /\ registered \in BOOLEAN /\ newer = 0 /\ tenant = NoTenant /\ view = emptyDeviceState
  /\ load = [k \in Loads |-> IF k = 1 THEN "asked" ELSE "free"]
  /\ list = [k \in Loads |-> NoCard] /\ asks = {}
  /\ feedUp = FALSE /\ inbox = <<>>
  /\ shown = NoCard /\ refetchDue = TRUE
  /\ changes = 0 /\ faults = 0 /\ assigns = 0
  /\ dropped = FALSE /\ blurred = FALSE

Fault == faults < MaxFaults /\ faults' = faults + 1 /\ UNCHANGED <<changes, assigns>>

----------------------------------------------------------------------------
(* The charger                                                              *)

ThisTx == TxState(IF charging THEN Session ELSE NoTx)

\* The API follows at once, the page when it reads the messages.
Publish(messages) ==
  /\ retained' = RetainAll(retained, messages)
  /\ view' = FoldLeft(applyMessage, view, messages)
  /\ inbox' = IF feedUp THEN inbox \o messages ELSE inbox

Changes ==
  /\ changes < MaxChanges
  /\ changes' = changes + 1
  /\ UNCHANGED <<faults, assigns, database, requests, feedUp, page, history>>

ComesUp ==
  /\ ~up /\ up' = TRUE
  /\ Publish(<<Status(TRUE), Relay(relay), ThisTx>>) /\ cutOff' = FALSE
  /\ Changes /\ UNCHANGED <<relay, charging>>

GoesDown ==
  /\ up /\ up' = FALSE
  /\ Publish(<<Status(FALSE)>>)
  /\ Changes /\ UNCHANGED <<relay, charging, cutOff>>

\* A relay command: a session keeps the contactor closed.
Switches(on) ==
  /\ up /\ relay' = IF charging THEN relay ELSE on
  /\ Publish(<<Relay(relay')>>)
  /\ Changes /\ UNCHANGED <<up, charging, cutOff>>

\* A start of the session that is on, or a stop of one that is not.
Repeats ==
  /\ up /\ Publish(<<ThisTx>>) /\ cutOff' = FALSE
  /\ Changes /\ UNCHANGED <<up, relay, charging>>

\* A start ends the session that is on, whose contactor opens for a moment.
Starts ==
  /\ up /\ charging' = TRUE /\ relay' = TRUE /\ cutOff' = FALSE
  /\ IF charging
       THEN Publish(<<Relay(FALSE), TxState(Session), Relay(TRUE)>>)
       ELSE Publish(<<TxState(Session), Relay(TRUE)>>)
  /\ Changes /\ UNCHANGED up

Ends ==
  /\ up /\ charging /\ charging' = FALSE /\ relay' = FALSE /\ cutOff' = FALSE
  /\ Publish(<<Relay(FALSE), TxState(NoTx)>>)
  /\ Changes /\ UNCHANGED up

\* A forced off ends the session, and publishes no transaction state.
IsForcedOff ==
  /\ up /\ charging /\ charging' = FALSE /\ relay' = FALSE /\ cutOff' = TRUE
  /\ Publish(<<Relay(FALSE), Relay(FALSE)>>)
  /\ Changes /\ UNCHANGED up

\* Readings come for ever; only what they say of the charger is told apart.
Measures ==
  /\ up /\ inbox = <<>>
  /\ Publish(<<Meter(Unknown)>>)
  /\ UNCHANGED <<up, relay, charging, cutOff, database, requests, feedUp, page,
                 counters, history>>

----------------------------------------------------------------------------
(* The API                                                                  *)

Register ==
  /\ ~registered /\ registered' = TRUE
  /\ UNCHANGED <<charger, newer, tenant, view, requests, feedUp, inbox, page, counters,
                 history>>

\* Later ones than ListLimit make no difference.
RegisterAnother ==
  /\ registered /\ newer < ListLimit
  /\ newer' = newer + 1
  /\ UNCHANGED <<charger, registered, tenant, view, requests, feedUp, inbox, page,
                 counters, history>>

\* The newest first, and no more than ListLimit.
Listed == registered /\ newer < ListLimit

\* A card as listRoute and assignTenantRoute give it: without a transaction.
toLiveDevice(to) ==
  [tenant |-> to, live |-> [view EXCEPT !.transaction = Unknown]]

AnswerList(k) ==
  /\ load[k] = "asked"
  /\ load' = [load EXCEPT ![k] = "answered"]
  /\ list' = [list EXCEPT ![k] = IF Listed THEN toLiveDevice(tenant) ELSE NoCard]
  /\ UNCHANGED <<charger, database, view, asks, feedUp, inbox, page, counters, history>>

AnswerAssign(a) ==
  /\ a \in asks /\ ~a.done
  /\ tenant' = a.tenant
  /\ asks' = (asks \ {a}) \union {[a EXCEPT !.done = TRUE]}
  /\ UNCHANGED <<charger, registered, newer, view, loads, feedUp, inbox, page, counters,
                 history>>

----------------------------------------------------------------------------
(* The page                                                                 *)

\* MUTANT of Merge: the list is taken as it is.
Merge_Snapshot(next) == next

\* setDevices in load: a card that is there is kept.
Merge(next) == IF next # NoCard /\ shown # NoCard THEN shown ELSE next

Forget(k) ==
  /\ load' = [load EXCEPT ![k] = "free"]
  /\ list' = [list EXCEPT ![k] = NoCard]

\* The answers come in any order.
ListArrives(k) ==
  /\ load[k] = "answered"
  /\ Forget(k)
  /\ shown' = Merge(list[k])
  /\ LET takenOff == shown # NoCard /\ shown' = NoCard
     IN  /\ blurred' = (blurred \/ takenOff)
         /\ dropped' = (dropped \/ (takenOff /\ newer >= ListLimit))
  /\ UNCHANGED <<charger, database, view, asks, feedUp, inbox, refetchDue, counters>>

LoadFails(k) ==
  /\ load[k] # "free" /\ Fault
  /\ Forget(k)
  /\ UNCHANGED <<charger, database, view, asks, feedUp, inbox, page, history>>

\* MUTANT of FeedConnects: subscribed to what comes, without what is retained.
FeedConnects_Unretained ==
  /\ ~feedUp
  /\ feedUp' = TRUE
  /\ inbox' = <<>>
  /\ dropped' = FALSE
  /\ UNCHANGED <<charger, database, view, requests, page, counters, blurred>>

\* Subscribed anew on every connect; the retained messages come first.
FeedConnects ==
  /\ ~feedUp
  /\ feedUp' = TRUE
  /\ inbox' = OnSubscribe(retained)
  /\ dropped' = FALSE
  /\ UNCHANGED <<charger, database, view, requests, page, counters, blurred>>

\* QoS 0 and a clean session: what was on its way is lost.
FeedLost ==
  /\ feedUp /\ Fault
  /\ feedUp' = FALSE
  /\ inbox' = <<>>
  /\ UNCHANGED <<charger, database, view, requests, page, history>>

\* MUTANT of Receive: an unknown charger starts no refetch.
Receive_NoRefetch ==
  /\ feedUp /\ inbox # <<>>
  /\ inbox' = Tail(inbox)
  /\ IF shown = NoCard
       THEN dropped' = TRUE /\ UNCHANGED shown
       ELSE /\ shown' = [shown EXCEPT !.live = applyMessage(@, Head(inbox))]
            /\ UNCHANGED dropped
  /\ UNCHANGED <<charger, database, view, requests, refetchDue, feedUp, counters, blurred>>

\* A message of a charger without a card is dropped, and starts a refetch when
\* one is due; any other is applied to the card.
Receive ==
  /\ feedUp /\ inbox # <<>>
  /\ inbox' = Tail(inbox)
  /\ IF shown = NoCard
       THEN /\ dropped' = TRUE
            /\ IF refetchDue
                 THEN LET k == CHOOSE k \in Loads : load[k] = "free"
                      IN  load' = [load EXCEPT ![k] = "asked"]
                 ELSE UNCHANGED load
            /\ refetchDue' = FALSE
            /\ UNCHANGED <<shown, list>>
       ELSE /\ shown' = [shown EXCEPT !.live = applyMessage(@, Head(inbox))]
            /\ UNCHANGED <<dropped, loads, refetchDue>>
  /\ UNCHANGED <<charger, database, view, asks, feedUp, counters, blurred>>

\* Half a minute passes.  A request is over by then, or was given up.
RefetchComesDue ==
  /\ ~refetchDue /\ \E k \in Loads : load[k] = "free"
  /\ refetchDue' = TRUE
  /\ UNCHANGED <<charger, database, view, requests, feedUp, inbox, shown, counters,
                 history>>

\* The list of tenants is a menu that nothing disables.
Assign(to) ==
  /\ shown # NoCard /\ assigns < MaxAssigns
  /\ assigns' = assigns + 1
  /\ asks' = asks \union {[tenant |-> to, done |-> FALSE]}
  /\ blurred' = (blurred \/ asks # {})
  /\ UNCHANGED <<charger, database, view, loads, feedUp, inbox, page, changes, faults,
                 dropped>>

AssignArrives(a) ==
  /\ a \in asks /\ a.done
  /\ asks' = asks \ {a}
  /\ shown' = IF shown = NoCard THEN NoCard ELSE [shown EXCEPT !.tenant = a.tenant]
  /\ UNCHANGED <<charger, database, view, loads, feedUp, inbox, refetchDue, counters,
                 history>>

AssignFails(a) ==
  /\ a \in asks /\ Fault
  /\ asks' = asks \ {a}
  /\ blurred' = TRUE
  /\ UNCHANGED <<charger, database, view, loads, feedUp, inbox, page, dropped>>

----------------------------------------------------------------------------

Charger ==
  \/ ComesUp \/ GoesDown \/ (\E on \in BOOLEAN : Switches(on)) \/ Repeats
  \/ Starts \/ Ends \/ IsForcedOff \/ Measures

Api ==
  \/ Register \/ RegisterAnother
  \/ \E k \in Loads : AnswerList(k)
  \/ \E a \in asks : AnswerAssign(a)

Page ==
  \/ \E k \in Loads : ListArrives(k) \/ LoadFails(k)
  \/ FeedConnects \/ FeedLost \/ Receive \/ RefetchComesDue
  \/ \E to \in Tenant \union {NoTenant} : Assign(to)
  \/ \E a \in asks : AssignArrives(a) \/ AssignFails(a)

Next == Charger \/ Api \/ Page

Spec == Init /\ [][Next]_vars

\* The client reconnects for ever, some request for the list is answered, readings
\* come and time passes.
FairSpec ==
  /\ Spec
  /\ WF_vars(Measures) /\ WF_vars(FeedConnects \/ Receive)
  /\ WF_vars(\E k \in Loads : AnswerList(k) \/ ListArrives(k))
  /\ WF_vars(RefetchComesDue)

----------------------------------------------------------------------------
(* Properties                                                               *)

\* All that was sent to the page has arrived.
Settled == feedUp /\ inbox = <<>> /\ asks = {} /\ \A k \in Loads : load[k] = "free"

\* The card of a charger that is connected is true, transaction included:
\* however list, retained and live messages came, unless a message came before
\* the list it was for.  A transaction it shows may be one that a forced off
\* ended, which no state tells of.
CardsAreTrue ==
  Settled /\ up /\ shown # NoCard /\ ~dropped =>
    /\ shown.live.online = TRUE
    /\ shown.live.relay = relay
    /\ shown.live.transaction = IF charging \/ cutOff THEN Session ELSE NoTx

\* The tenant a card shows is the one in the database, whatever lists were read
\* before or come in between, if one assignment was answered before the next
\* one was made and the card was there all the time.
TenantShownIsTrue ==
  Settled /\ shown # NoCard /\ ~blurred => shown.tenant = tenant

\* A registered charger that stays connected, and among the newest ListLimit, has
\* a card before long, and again when a list older than the last one took it off.
RegisteredIsShown == []<>(Listed /\ up => shown # NoCard)
===============================================================================
