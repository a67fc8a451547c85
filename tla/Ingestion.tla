------------------------------ MODULE Ingestion ------------------------------
(***************************************************************************)
(* The ingestion of the events of one dispute                              *)
(* (src/backend/app/services/ingestion.py, api/endpoints/webhooks.py).     *)
(*                                                                         *)
(* Razorpay delivers an event once or more, in any order.  Each delivery is *)
(* one transaction of one of several API processes: it inserts the event   *)
(* (UNIQUE external_event_id), reads the dispute without a lock, and       *)
(* commits what follows from what it read.                                 *)
(***************************************************************************)
EXTENDS Case

CONSTANTS
  Deliveries,    \* deliveries of events
  Events,        \* external_event_id
  EventOf,       \* the event of a delivery
  EventTime,     \* event_time of an event
  EventStatus    \* the status of the dispute that an event reports

ASSUME IngestionAssumption ==
  /\ EventOf \in [Deliveries -> Events]
  /\ EventTime \in [Events -> Nat]

VARIABLES
  delivery,   \* progress of each delivery and the dispute it read
  webhooks,   \* events with a committed WebhookEvent row
  disputes,   \* the Dispute row of each case
  history     \* DisputeEvent rows, each with the delivery that wrote it

ingestionVars == <<delivery, webhooks, disputes, history>>

\* A new UUID.
FreshCase == CHOOSE c \in Cases : processingState[c] = "ABSENT"

Statuses == {EventStatus[e] : e \in Events}

NoDispute == [status |-> "none", updated |-> 0]
NoCase == "none"
Unread == [case |-> NoCase, status |-> "none", updated |-> 0]

DisputeRow == [status : Statuses, updated : Nat]
DisputeRead == [case : Cases, status : Statuses, updated : Nat]
DeliveryState == [pc : {"waiting", "handling", "done"}, seen : DisputeRead \cup {Unread}]

IngestionTypeOK ==
  /\ delivery \in [Deliveries -> DeliveryState]
  /\ webhooks \subseteq Events
  /\ disputes \in [Cases -> DisputeRow \cup {NoDispute}]
  /\ history \subseteq [by : Deliveries, case : Cases, old : Statuses \cup {"none"},
                        accepted : BOOLEAN]

IngestionInit ==
  /\ delivery = [d \in Deliveries |-> [pc |-> "waiting", seen |-> Unread]]
  /\ webhooks = {}
  /\ disputes = [c \in Cases |-> NoDispute]
  /\ history = {}

-----------------------------------------------------------------------------
Step(d, pc, seen) == delivery' = [delivery EXCEPT ![d] = [pc |-> pc, seen |-> seen]]

Stored == {c \in Cases : disputes[c] # NoDispute}

\* What SELECT ... first() may return: there may be two disputes of the same
\* external_dispute_id, which is indexed but not UNIQUE.
ReadDispute ==
  IF Stored = {} THEN {Unread}
  ELSE {[case |-> c, status |-> disputes[c].status, updated |-> disputes[c].updated] : c \in Stored}

\* Mutant: nothing makes external_event_id UNIQUE.
NeverSeen(d) == TRUE

\* The INSERT of the event waits for the transaction of another delivery of it.
Unseen(d) == EventOf[d] \notin webhooks

Busy(d) == \E e \in Deliveries \ {d} : EventOf[e] = EventOf[d] /\ delivery[e].pc = "handling"

Receive(d) ==
  /\ delivery[d].pc = "waiting"
  /\ Unseen(d) /\ ~Busy(d)
  /\ \E seen \in ReadDispute : Step(d, "handling", seen)
  /\ UNCHANGED <<webhooks, disputes, history, processingState>>

\* The UNIQUE constraint fires: rollback, and a 202 all the same.
ReceiveDuplicate(d) ==
  /\ delivery[d].pc = "waiting"
  /\ ~Unseen(d)
  /\ Step(d, "done", Unread)
  /\ UNCHANGED <<webhooks, disputes, history, processingState>>

\* A missing field, a merchant that is unknown or not active, a failed commit:
\* everything is rolled back, the event too.
Reject(d) ==
  /\ delivery[d].pc = "handling"
  /\ Step(d, "done", Unread)
  /\ UNCHANGED <<webhooks, disputes, history, processingState>>

RecordNew(d, c) ==
  /\ delivery[d].pc = "handling" /\ delivery[d].seen = Unread
  /\ processingState[c] = "ABSENT" /\ c = FreshCase
  /\ SetState(c, "INGESTED")
  /\ disputes' = [disputes EXCEPT ![c] = [status  |-> EventStatus[EventOf[d]],
                                          updated |-> EventTime[EventOf[d]]]]
  /\ history' = history \cup {[by |-> d, case |-> c, old |-> "none", accepted |-> TRUE]}
  /\ webhooks' = webhooks \cup {EventOf[d]}
  /\ Step(d, "done", Unread)

\* Mutant: the comparison is the wrong way round.
StaleIfOlder(d) == delivery[d].seen.updated < EventTime[EventOf[d]]

Stale(d) == delivery[d].seen.updated > EventTime[EventOf[d]]

\* SQLAlchemy writes the attributes that differ from what was read, over
\* whatever another transaction has committed since.
RecordUpdate(d, c) ==
  LET seen == delivery[d].seen
      status == EventStatus[EventOf[d]]
  IN
  /\ delivery[d].pc = "handling" /\ seen # Unread /\ seen.case = c
  /\ IF Stale(d)
     THEN UNCHANGED <<disputes, processingState>>
     ELSE /\ disputes' = [disputes EXCEPT
               ![c] = [status  |-> IF status = seen.status THEN @.status ELSE status,
                       updated |-> IF EventTime[EventOf[d]] = seen.updated THEN @.updated
                                   ELSE EventTime[EventOf[d]]]]
          /\ IF processingState[c] \in {"RECEIVED", "VALIDATED"}
             THEN SetState(c, "INGESTED") ELSE UNCHANGED processingState
  /\ history' = history \cup {[by |-> d, case |-> c, old |-> seen.status, accepted |-> ~Stale(d)]}
  /\ webhooks' = webhooks \cup {EventOf[d]}
  /\ Step(d, "done", Unread)
=============================================================================
