--------------------------- MODULE WebhookDispatcher ---------------------------
(***************************************************************************)
(* Delivery of one tenant's outbox: passes over the pending deliveries, in *)
(* the order they were written, one post at a time, with a retry schedule. *)
(*                                                                         *)
(* A pass reads the pending rows once and then works through that list,    *)
(* one database or HTTP call at a time, while events are still written and *)
(* the tenant's URL may change.  A pass can die between any two calls (the *)
(* process is killed, the database is away), even between a post that the  *)
(* tenant received and the update that says so.                            *)
(***************************************************************************)
EXTENDS Naturals, Sequences

CONSTANTS
  Tx,          \* transactions the events are about
  Retries,     \* entries of BACKOFF_MS
  MaxPerPass,  \* MAX_PER_TENANT_PER_PASS
  MaxEvents,   \* bound: events written
  MaxTroubles  \* bound: passes that die and changes of the webhook URL

ASSUME ConstantsAssumption ==
  /\ Retries \in Nat
  /\ MaxPerPass \in Nat \ {0}
  /\ MaxEvents \in Nat
  /\ MaxTroubles \in Nat

VARIABLES
  deliveries,  \* webhook_deliveries, in creation order
  webhookUrl,  \* whether the tenant has one
  running,     \* the flag that keeps passes from piling up
  passes,      \* passes in progress
  received,    \* tenant: how often each delivery arrived
  deaths,      \* passes that died so far
  moves        \* changes of the URL so far

vars == <<deliveries, webhookUrl, running, passes, received, deaths, moves>>

----------------------------------------------------------------------------
Ids == 1..MaxEvents

Delivery ==
  [tx : Tx, retry : BOOLEAN, status : {"pending", "delivered", "failed"},
   attempts : Nat, due : BOOLEAN, error : {"none", "no_url", "refused"}]

\* due: nextAttemptAt has come.  It is the database's now() to begin with.
NewDelivery(t, retry) ==
  [tx |-> t, retry |-> retry, status |-> "pending", attempts |-> 0, due |-> TRUE,
   error |-> "none"]

\* A delivery as the pass read it: which one, and its attempts at that time.
Snapshot(i) == [id |-> i, attempts |-> deliveries[i].attempts]

\* todo: what is left of the list; blocked: transactions whose later events wait.
\* await: what the pass awaits: the list, nothing, or the update that follows a
\* post with this outcome.
Pass ==
  [todo : SUBSET [id : Nat, attempts : Nat], blocked : SUBSET Tx, attempts : Nat,
   hasUrl : BOOLEAN, await : {"list", "none", "ok", "error"}]

\* The tenants are read first, then the tenant's pending deliveries.
NewPass ==
  [todo |-> {}, blocked |-> {}, attempts |-> 0, hasUrl |-> webhookUrl, await |-> "list"]

PendingList ==
  {Snapshot(i) : i \in {i \in DOMAIN deliveries : deliveries[i].status = "pending"}}

\* The loop's delivery: in the order of creation.
Current(p) == CHOOSE d \in p.todo : \A e \in p.todo : d.id <= e.id

Rest(p) == p.todo \ {Current(p)}

Id(p) == Current(p).id

TxOf(p) == deliveries[Id(p)].tx

Becomes(p, q) == passes' = (passes \ {p}) \cup {q}

----------------------------------------------------------------------------
Init ==
  /\ deliveries = <<>>
  /\ webhookUrl = TRUE
  /\ running = FALSE
  /\ passes = {}
  /\ received = <<>>
  /\ deaths = 0
  /\ moves = 0

\* Another process writes an event (WebhookOutbox.enqueue).
Enqueue(t, retry) ==
  /\ Len(deliveries) < MaxEvents
  /\ deliveries' = Append(deliveries, NewDelivery(t, retry))
  /\ received' = Append(received, 0)
  /\ UNCHANGED <<webhookUrl, running, passes, deaths, moves>>

\* An administrator sets or removes the tenant's URL.
MoveUrl ==
  /\ deaths + moves < MaxTroubles
  /\ moves' = moves + 1
  /\ webhookUrl' = ~webhookUrl
  /\ UNCHANGED <<deliveries, running, passes, received, deaths>>

\* Time passes until the next attempt of a delivery.
ComesDue(i) ==
  /\ ~deliveries[i].due
  /\ deliveries' = [deliveries EXCEPT ![i].due = TRUE]
  /\ UNCHANGED <<webhookUrl, running, passes, received, deaths, moves>>

\* MUTANT of RunOnce: passes pile up behind a slow endpoint.
RunOnce_PilesUp ==
  /\ running' = TRUE
  /\ passes' = passes \cup {NewPass}
  /\ UNCHANGED <<deliveries, webhookUrl, received, deaths, moves>>

\* Every two seconds, unless a pass is still running.
RunOnce ==
  /\ ~running
  /\ running' = TRUE
  /\ passes' = passes \cup {NewPass}
  /\ UNCHANGED <<deliveries, webhookUrl, received, deaths, moves>>

ReadList(p) ==
  /\ p.await = "list"
  /\ Becomes(p, [p EXCEPT !.todo = PendingList, !.await = "none"])
  /\ UNCHANGED <<deliveries, webhookUrl, running, received, deaths, moves>>

Working(p) == p.todo # {} /\ p.await = "none"

Attemptable(p) ==
  /\ TxOf(p) \notin p.blocked
  /\ deliveries[Id(p)].due
  /\ p.attempts < MaxPerPass

\* MUTANT of Skip: a delivery that waits does not hold up later ones.
Skip_LeavesOpen(p) ==
  /\ Working(p)
  /\ ~Attemptable(p)
  /\ Becomes(p, [p EXCEPT !.todo = Rest(p)])
  /\ UNCHANGED <<deliveries, webhookUrl, running, received, deaths, moves>>

\* Not now: and whatever the reason, later events of the transaction wait too.
Skip(p) ==
  /\ Working(p)
  /\ ~Attemptable(p)
  /\ Becomes(p, [p EXCEPT !.todo = Rest(p), !.blocked = @ \cup {TxOf(p)}])
  /\ UNCHANGED <<deliveries, webhookUrl, running, received, deaths, moves>>

\* Nowhere to send it to: failed for good, and the transaction's turn is over.
NoUrl(p) ==
  /\ Working(p)
  /\ Attemptable(p)
  /\ ~p.hasUrl
  /\ deliveries' = [deliveries EXCEPT ![Id(p)].status = "failed",
                                      ![Id(p)].error = "no_url",
                                      ![Id(p)].attempts = Current(p).attempts + 1]
  /\ Becomes(p, [p EXCEPT !.todo = Rest(p), !.blocked = @ \cup {TxOf(p)}, !.attempts = @ + 1])
  /\ UNCHANGED <<webhookUrl, running, received, deaths, moves>>

\* The post.  When it fails the tenant may have received it all the same.
Post(p, outcome, arrived) ==
  /\ Working(p)
  /\ Attemptable(p)
  /\ p.hasUrl
  /\ outcome = "ok" => arrived
  /\ received' = IF arrived THEN [received EXCEPT ![Id(p)] = @ + 1] ELSE received
  /\ Becomes(p, [p EXCEPT !.blocked = @ \cup {TxOf(p)}, !.attempts = @ + 1, !.await = outcome])
  /\ UNCHANGED <<deliveries, webhookUrl, running, deaths, moves>>

GivesUp(delivery, attempt) == ~delivery.retry \/ attempt > Retries

\* The next event of the transaction may go in the same pass.
Unblocked(p) ==
  [p EXCEPT !.todo = Rest(p), !.blocked = @ \ {TxOf(p)}, !.await = "none"]

RecordDelivered(p) ==
  /\ p.await = "ok"
  /\ deliveries' = [deliveries EXCEPT ![Id(p)].status = "delivered",
                                      ![Id(p)].error = "none",
                                      ![Id(p)].attempts = Current(p).attempts + 1]
  /\ Becomes(p, Unblocked(p))
  /\ UNCHANGED <<webhookUrl, running, received, deaths, moves>>

\* MUTANT of RecordFailed: the failed attempt is not counted.
RecordFailed_Uncounted(p) ==
  /\ p.await = "error"
  /\ LET i == Id(p)
         attempt == Current(p).attempts + 1
     IN IF GivesUp(deliveries[i], attempt)
        THEN /\ deliveries' = [deliveries EXCEPT ![i].status = "failed", ![i].error = "refused"]
             /\ Becomes(p, Unblocked(p))
        ELSE /\ deliveries' = [deliveries EXCEPT ![i].due = FALSE, ![i].error = "refused"]
             /\ Becomes(p, [p EXCEPT !.todo = Rest(p), !.await = "none"])
  /\ UNCHANGED <<webhookUrl, running, received, deaths, moves>>

\* Given up, the transaction goes on without it; else it waits for its time, and
\* the transaction with it.
RecordFailed(p) ==
  /\ p.await = "error"
  /\ LET i == Id(p)
         attempt == Current(p).attempts + 1
         failed == [deliveries EXCEPT ![i].attempts = attempt, ![i].error = "refused"]
     IN IF GivesUp(deliveries[i], attempt)
        THEN /\ deliveries' = [failed EXCEPT ![i].status = "failed"]
             /\ Becomes(p, Unblocked(p))
        ELSE /\ deliveries' = [failed EXCEPT ![i].due = FALSE]
             /\ Becomes(p, [p EXCEPT !.todo = Rest(p), !.await = "none"])
  /\ UNCHANGED <<webhookUrl, running, received, deaths, moves>>

EndPass(p) ==
  /\ p.todo = {}
  /\ p.await = "none"
  /\ passes' = passes \ {p}
  /\ running' = FALSE
  /\ UNCHANGED <<deliveries, webhookUrl, received, deaths, moves>>

\* MUTANT of PassDies: the flag is reset at the end of a pass only.
PassDies_KeepsFlag(p) ==
  /\ deaths + moves < MaxTroubles
  /\ deaths' = deaths + 1
  /\ passes' = passes \ {p}
  /\ UNCHANGED <<deliveries, webhookUrl, running, received, moves>>

\* A call fails or the process dies: the pass is over, what it posted is not undone.
PassDies(p) ==
  /\ deaths + moves < MaxTroubles
  /\ deaths' = deaths + 1
  /\ passes' = passes \ {p}
  /\ running' = FALSE
  /\ UNCHANGED <<deliveries, webhookUrl, received, moves>>

----------------------------------------------------------------------------
Step(p) ==
  \/ ReadList(p) \/ Skip(p) \/ NoUrl(p) \/ RecordDelivered(p) \/ RecordFailed(p) \/ EndPass(p)
  \/ \E outcome \in {"ok", "error"}, arrived \in BOOLEAN : Post(p, outcome, arrived)

Dispatch == RunOnce \/ \E p \in passes : Step(p)

Next ==
  \/ Dispatch
  \/ \E p \in passes : PassDies(p)
  \/ \E t \in Tx, retry \in BOOLEAN : Enqueue(t, retry)
  \/ MoveUrl
  \/ \E i \in DOMAIN deliveries : ComesDue(i)

Spec == Init /\ [][Next]_vars

\* The timer goes off, passes make progress, and time passes.  Nothing is assumed
\* of the endpoint: it may refuse every single post.
Fairness ==
  /\ WF_vars(Dispatch)
  /\ WF_vars(\E i \in DOMAIN deliveries : ComesDue(i))

FairSpec == Spec /\ Fairness

----------------------------------------------------------------------------
(* Properties                                                               *)

\* The flag is up exactly while a pass is in progress, however that pass ends.
TypeOK ==
  /\ deliveries \in Seq(Delivery)
  /\ webhookUrl \in BOOLEAN
  /\ running \in BOOLEAN
  /\ passes \subseteq Pass
  /\ running <=> passes # {}
  /\ received \in Seq(Nat)
  /\ Len(received) = Len(deliveries)
  /\ deaths \in Nat
  /\ moves \in Nat

Pending(i) == deliveries[i].status = "pending"

\* Whatever was retried, given up or interrupted: the tenant is not sent an event
\* of a transaction while an earlier one is still to come.
EventsArriveInOrder ==
  [][\A j \in DOMAIN received : received'[j] > received[j] =>
       \A i \in 1..(j - 1) : deliveries[i].tx = deliveries[j].tx => ~Pending(i)]_vars

\* The tenant may receive an event again, but never one that is recorded as
\* delivered or given up.
SettledIsNotSent ==
  [][\A j \in DOMAIN received : received'[j] > received[j] => Pending(j)]_vars

InPost(i) == \E p \in passes : p.await \in {"ok", "error"} /\ Id(p) = i

\* "Retries need no memory": the table accounts for everything the tenant
\* received, up to one duplicate per pass that died.  In particular a best effort
\* event arrives once, and the schedule bounds the others.  An event that must
\* arrive is given up only after the whole schedule, and what is delivered was
\* received.
AttemptsAreCounted ==
  /\ TypeOK
  /\ \A i \in DOMAIN deliveries :
       received[i] <= deliveries[i].attempts + deaths + (IF InPost(i) THEN 1 ELSE 0)
  /\ \A i \in DOMAIN deliveries :
       /\ deliveries[i].status = "failed" /\ deliveries[i].error = "refused"
          /\ deliveries[i].retry => deliveries[i].attempts = Retries + 1
       /\ deliveries[i].status = "delivered" => received[i] > 0

\* However the endpoint behaves, no event waits forever: not behind another of its
\* transaction, nor behind a full pass.
EveryEventSettles ==
  \A i \in Ids : (i \in DOMAIN deliveries /\ Pending(i))
                   ~> (i \in DOMAIN deliveries /\ ~Pending(i))
==============================================================================
