----------------------------- MODULE Intake_proofs -----------------------------
(***************************************************************************)
(* The intake of a dispute, for any number of cases, events, deliveries    *)
(* and tasks, whatever the providers say.                                  *)
(***************************************************************************)
EXTENDS Intake, Enrichment_proofs

\* A delivery that is being handled is the only one of its event, and the event
\* is not stored yet: what the UNIQUE constraint and the open transaction do.
OneHandling ==
  \A d \in Deliveries : delivery[d].pc = "handling" =>
    /\ EventOf[d] \notin webhooks
    /\ \A e \in Deliveries :
         delivery[e].pc = "handling" /\ EventOf[e] = EventOf[d] => e = d

\* The rows of a case that was not created yet.
NoRowBeforeCase == \A c \in Cases : processingState[c] = "ABSENT" => disputes[c] = NoDispute

\* A case that a delivery has read has been created and has a row.
ReadIsStored ==
  \A d \in Deliveries : delivery[d].seen # Unread =>
    /\ processingState[delivery[d].seen.case] # "ABSENT"
    /\ disputes[delivery[d].seen.case] \in DisputeRow

\* The part of the inductive invariant that is about events.
EventInv ==
  /\ CaseTypeOK /\ IngestionTypeOK
  /\ OneHandling /\ EventHasEffectOnce /\ NoRowBeforeCase /\ ReadIsStored

-----------------------------------------------------------------------------
(*                       Events: one lemma per action                      *)

LEMMA EventInit == Init => EventInv
BY DEF Init, IngestionInit, EventInv, CaseTypeOK, IngestionTypeOK, OneHandling,
       EventHasEffectOnce, NoRowBeforeCase, ReadIsStored, DeliveryState, Unread

LEMMA ReadIsTyped ==
  ASSUME EventInv, NEW seen \in ReadDispute
  PROVE  /\ seen \in DisputeRead \cup {Unread}
         /\ seen # Unread => /\ processingState[seen.case] # "ABSENT"
                            /\ disputes[seen.case] \in DisputeRow
<1>1. CASE Stored = {}
  BY <1>1 DEF ReadDispute
<1>2. CASE Stored # {}
  <2>1. PICK c \in Stored :
          seen = [case |-> c, status |-> disputes[c].status, updated |-> disputes[c].updated]
    BY <1>2 DEF ReadDispute
  <2>2. c \in Cases /\ disputes[c] \in DisputeRow
    BY DEF EventInv, IngestionTypeOK, Stored
  <2>3. processingState[c] # "ABSENT"
    BY <2>2 DEF EventInv, NoRowBeforeCase, Stored
  <2> QED
    BY <2>1, <2>2, <2>3 DEF DisputeRow, DisputeRead
<1> QED
  BY <1>1, <1>2

\* What a delivery leaves when its own row moves and nothing else does.
LEMMA EventReceive ==
  ASSUME EventInv, NEW d \in Deliveries, Receive(d)
  PROVE  EventInv'
<1>1. PICK seen \in ReadDispute :
        delivery' = [delivery EXCEPT ![d] = [pc |-> "handling", seen |-> seen]]
  BY DEF Receive, Step
<1>2. [pc |-> "handling", seen |-> seen] \in DeliveryState
  BY ReadIsTyped DEF DeliveryState
<1>3. UNCHANGED <<webhooks, disputes, history, processingState>>
  BY DEF Receive
<1>4. IngestionTypeOK'
  BY <1>1, <1>2, <1>3 DEF EventInv, IngestionTypeOK
<1>5. OneHandling'
  BY <1>1, <1>3 DEF EventInv, IngestionTypeOK, OneHandling, Receive, Unseen, Busy
<1>6. ReadIsStored'
  <2>1. \A e \in Deliveries : e # d => delivery'[e] = delivery[e]
    BY <1>1 DEF EventInv, IngestionTypeOK
  <2>2. delivery'[d].seen = seen
    BY <1>1 DEF EventInv, IngestionTypeOK
  <2> QED
    BY <1>3, <2>1, <2>2, ReadIsTyped DEF EventInv, ReadIsStored
<1> QED
  BY <1>3, <1>4, <1>5, <1>6 DEF EventInv, CaseTypeOK, EventHasEffectOnce, NoRowBeforeCase

LEMMA EventNotRecorded ==
  ASSUME EventInv, NEW d \in Deliveries, ReceiveDuplicate(d) \/ Reject(d)
  PROVE  EventInv'
<1>1. delivery' = [delivery EXCEPT ![d] = [pc |-> "done", seen |-> Unread]]
  BY DEF ReceiveDuplicate, Reject, Step
<1>2. UNCHANGED <<webhooks, disputes, history, processingState>>
  BY DEF ReceiveDuplicate, Reject
<1>3. IngestionTypeOK'
  BY <1>1, <1>2 DEF EventInv, IngestionTypeOK, DeliveryState
<1>4. OneHandling'
  BY <1>1, <1>2 DEF EventInv, IngestionTypeOK, OneHandling
<1>5. ReadIsStored'
  BY <1>1, <1>2 DEF EventInv, IngestionTypeOK, ReadIsStored
<1> QED
  BY <1>2, <1>3, <1>4, <1>5 DEF EventInv, CaseTypeOK, EventHasEffectOnce, NoRowBeforeCase

\* A commit: the event and its line of the history are stored together.
LEMMA Committed ==
  ASSUME EventInv, NEW d \in Deliveries, delivery[d].pc = "handling",
         NEW row, row.by = d,
         history' = history \cup {row}, webhooks' = webhooks \cup {EventOf[d]},
         Step(d, "done", Unread)
  PROVE  OneHandling' /\ EventHasEffectOnce'
<1>1. delivery' = [delivery EXCEPT ![d] = [pc |-> "done", seen |-> Unread]]
  BY DEF Step
<1>2. \A e \in Deliveries : e # d => delivery'[e] = delivery[e]
  BY <1>1 DEF EventInv, IngestionTypeOK
<1>3. delivery'[d].pc = "done"
  BY <1>1 DEF EventInv, IngestionTypeOK
<1>4. OneHandling'
  <2> SUFFICES ASSUME NEW a \in Deliveries, delivery'[a].pc = "handling"
               PROVE  /\ EventOf[a] \notin webhooks'
                      /\ \A e \in Deliveries :
                           delivery'[e].pc = "handling" /\ EventOf[e] = EventOf[a] => e = a
    BY DEF OneHandling
  <2>1. a # d /\ delivery[a].pc = "handling"
    BY <1>2, <1>3
  <2>2. EventOf[a] \notin webhooks /\ EventOf[a] # EventOf[d]
    BY <2>1 DEF EventInv, OneHandling
  <2> QED
    BY <1>2, <1>3, <2>1, <2>2 DEF EventInv, OneHandling
<1>5. \A x \in history : EventOf[x.by] # EventOf[d]
  BY DEF EventInv, OneHandling, EventHasEffectOnce
<1>6. \A x, y \in history' : EventOf[x.by] = EventOf[y.by] => x = y
  BY <1>5 DEF EventInv, EventHasEffectOnce
<1>7. webhooks' = {EventOf[x.by] : x \in history'}
  BY DEF EventInv, EventHasEffectOnce
<1> QED
  BY <1>4, <1>6, <1>7 DEF EventHasEffectOnce

LEMMA EventFacts ==
  ASSUME NEW d \in Deliveries
  PROVE  /\ EventOf[d] \in Events
         /\ EventTime[EventOf[d]] \in Nat
         /\ EventStatus[EventOf[d]] \in Statuses
BY IngestionAssumption DEF Statuses

LEMMA SeenIsTyped ==
  ASSUME EventInv, NEW d \in Deliveries, delivery[d].seen # Unread
  PROVE  /\ delivery[d].seen.case \in Cases
         /\ delivery[d].seen.status \in Statuses
         /\ delivery[d].seen.updated \in Nat
BY DEF EventInv, IngestionTypeOK, DeliveryState, DisputeRead

LEMMA EventRecordNew ==
  ASSUME EventInv, NEW d \in Deliveries, NEW c \in Cases, RecordNew(d, c)
  PROVE  EventInv'
<1> DEFINE row == [by |-> d, case |-> c, old |-> "none", accepted |-> TRUE]
<1>1. row \in [by : Deliveries, case : Cases, old : Statuses \cup {"none"}, accepted : BOOLEAN]
  OBVIOUS
<1>2. history' = history \cup {row} /\ webhooks' = webhooks \cup {EventOf[d]}
  BY DEF RecordNew
<1>3. OneHandling' /\ EventHasEffectOnce'
  BY <1>2, Committed DEF RecordNew
<1>4. IngestionTypeOK'
  <2>1. delivery' \in [Deliveries -> DeliveryState]
    BY DEF RecordNew, Step, EventInv, IngestionTypeOK, DeliveryState
  <2>2. disputes' \in [Cases -> DisputeRow \cup {NoDispute}]
    BY EventFacts DEF RecordNew, EventInv, IngestionTypeOK, DisputeRow
  <2> QED
    BY <1>1, <1>2, <2>1, <2>2, EventFacts DEF EventInv, IngestionTypeOK
<1>5. CaseTypeOK' /\ NoRowBeforeCase'
  BY DEF RecordNew, SetState, EventInv, CaseTypeOK, NoRowBeforeCase, ProcessingState,
         IngestionTypeOK
<1>6. ReadIsStored'
  <2> SUFFICES ASSUME NEW e \in Deliveries, delivery'[e].seen # Unread
               PROVE  /\ processingState'[delivery'[e].seen.case] # "ABSENT"
                      /\ disputes'[delivery'[e].seen.case] \in DisputeRow
    BY DEF ReadIsStored
  <2>1. e # d /\ delivery'[e] = delivery[e]
    BY DEF RecordNew, Step, EventInv, IngestionTypeOK
  <2>2. delivery[e].seen.case \in Cases /\ delivery[e].seen.case # c
    BY <2>1, SeenIsTyped DEF RecordNew, EventInv, ReadIsStored
  <2>3. disputes'[delivery[e].seen.case] = disputes[delivery[e].seen.case]
    BY <2>2 DEF RecordNew, EventInv, IngestionTypeOK
  <2>4. processingState'[delivery[e].seen.case] = processingState[delivery[e].seen.case]
    BY <2>2 DEF RecordNew, SetState, EventInv, CaseTypeOK
  <2> QED
    BY <2>1, <2>3, <2>4 DEF EventInv, ReadIsStored
<1> QED
  BY <1>3, <1>4, <1>5, <1>6 DEF EventInv

\* The row an event that is not stale leaves, of the row that is there and the one read.
Written(d, row) ==
  [status  |-> IF EventStatus[EventOf[d]] = delivery[d].seen.status THEN row.status
               ELSE EventStatus[EventOf[d]],
   updated |-> IF EventTime[EventOf[d]] = delivery[d].seen.updated THEN row.updated
               ELSE EventTime[EventOf[d]]]

LEMMA EventRecordUpdate ==
  ASSUME EventInv, NEW d \in Deliveries, NEW c \in Cases, RecordUpdate(d, c)
  PROVE  EventInv'
<1> DEFINE row == [by |-> d, case |-> c, old |-> delivery[d].seen.status, accepted |-> ~Stale(d)]
<1>1. row \in [by : Deliveries, case : Cases, old : Statuses \cup {"none"}, accepted : BOOLEAN]
  BY SeenIsTyped DEF RecordUpdate, Stale
<1>2. history' = history \cup {row} /\ webhooks' = webhooks \cup {EventOf[d]}
  BY DEF RecordUpdate
<1>3. OneHandling' /\ EventHasEffectOnce'
  BY <1>2, Committed DEF RecordUpdate
<1>4. delivery' \in [Deliveries -> DeliveryState]
  BY DEF RecordUpdate, Step, EventInv, IngestionTypeOK, DeliveryState
<1>5. delivery'[d].seen = Unread /\ \A e \in Deliveries : e # d => delivery'[e] = delivery[e]
  BY DEF RecordUpdate, Step, EventInv, IngestionTypeOK
<1>6. CASE Stale(d)
  <2>1. UNCHANGED <<processingState, disputes>>
    BY <1>6 DEF RecordUpdate
  <2>2. IngestionTypeOK'
    BY <1>1, <1>2, <1>4, <2>1, EventFacts DEF EventInv, IngestionTypeOK
  <2>3. CaseTypeOK' /\ NoRowBeforeCase'
    BY <2>1 DEF EventInv, CaseTypeOK, NoRowBeforeCase
  <2>4. ReadIsStored'
    BY <1>5, <2>1 DEF EventInv, ReadIsStored
  <2> QED
    BY <1>3, <2>2, <2>3, <2>4 DEF EventInv
<1>7. CASE ~Stale(d)
  <2>1. disputes' = [disputes EXCEPT ![c] = Written(d, disputes[c])]
    BY <1>7 DEF RecordUpdate, Written
  <2>2. processingState[c] # "ABSENT" /\ disputes[c] \in DisputeRow
    BY DEF RecordUpdate, EventInv, ReadIsStored
  <2>3. Written(d, disputes[c]) \in DisputeRow
    BY <2>2, EventFacts DEF Written, DisputeRow
  <2>4. /\ disputes' \in [Cases -> DisputeRow \cup {NoDispute}]
        /\ disputes'[c] \in DisputeRow
        /\ \A b \in Cases : b # c => disputes'[b] = disputes[b]
    BY <2>1, <2>3 DEF EventInv, IngestionTypeOK
  <2>5. /\ CaseTypeOK'
        /\ \A b \in Cases : processingState'[b] = "ABSENT" <=> processingState[b] = "ABSENT"
    <3>1. CASE processingState[c] \in {"RECEIVED", "VALIDATED"}
      BY <1>7, <3>1 DEF RecordUpdate, SetState, EventInv, CaseTypeOK, ProcessingState
    <3>2. CASE processingState[c] \notin {"RECEIVED", "VALIDATED"}
      BY <1>7, <3>2 DEF RecordUpdate, EventInv, CaseTypeOK
    <3> QED
      BY <3>1, <3>2
  <2>6. NoRowBeforeCase'
    BY <2>2, <2>4, <2>5 DEF EventInv, NoRowBeforeCase
  <2>7. ReadIsStored'
    <3> SUFFICES ASSUME NEW e \in Deliveries, delivery'[e].seen # Unread
                 PROVE  /\ processingState'[delivery'[e].seen.case] # "ABSENT"
                        /\ disputes'[delivery'[e].seen.case] \in DisputeRow
      BY DEF ReadIsStored
    <3>1. delivery'[e] = delivery[e]
      BY <1>5
    <3>2. delivery[e].seen.case \in Cases
      BY <3>1, SeenIsTyped
    <3> QED
      BY <2>4, <2>5, <3>1, <3>2 DEF EventInv, ReadIsStored
  <2> QED
    BY <1>1, <1>2, <1>3, <1>4, <2>4, <2>5, <2>6, <2>7, EventFacts DEF EventInv, IngestionTypeOK
<1> QED
  BY <1>6, <1>7

\* Nothing an enrichment does undoes the creation of a case.
LEMMA EventFrame ==
  ASSUME EventInv, UNCHANGED ingestionVars, CaseTypeOK',
         \A c \in Cases : processingState'[c] = "ABSENT" => processingState[c] = "ABSENT"
  PROVE  EventInv'
<1>1. IngestionTypeOK' /\ OneHandling' /\ EventHasEffectOnce' /\ NoRowBeforeCase'
  BY DEF EventInv, IngestionTypeOK, OneHandling, EventHasEffectOnce, NoRowBeforeCase, ingestionVars
<1>2. ReadIsStored'
  BY SeenIsTyped DEF EventInv, ReadIsStored, ingestionVars
<1> QED
  BY <1>1, <1>2 DEF EventInv

-----------------------------------------------------------------------------
(*                               Theorems                                  *)

\* Every step of an enrichment leaves the states of cases among those that the
\* code names, and creates or deletes no case.
LEMMA EnrichmentStates ==
  ASSUME EventInv, EnrichInv, NEW t \in Tasks, EnrichmentStep(t) \/ EnrichmentFails(t)
  PROVE  /\ CaseTypeOK'
         /\ \A c \in Cases : processingState'[c] = "ABSENT" => processingState[c] = "ABSENT"
BY DEF EventInv, CaseTypeOK, EnrichmentStep, EnrichmentFails, Load, MarkEnriching,
       ProviderUnavailable, PaymentMissing, PaymentFound, Store, SetState, ProcessingState

LEMMA StepKeepsInv ==
  ASSUME EventInv, EnrichInv, ReportInv, [Next]_vars
  PROVE  EventInv' /\ EnrichInv' /\ ReportInv'
<1>1. errors \subseteq Cases
  BY DEF ReportInv, RestType
<1>2. UNCHANGED stored => ReportInv'
  BY <1>1, ReportUnchanged DEF stored
<1>3. CASE UNCHANGED vars
  <2>1. CaseTypeOK' /\ processingState' = processingState
    BY <1>3 DEF vars, EventInv, CaseTypeOK
  <2>2. UNCHANGED ingestionVars /\ UNCHANGED <<enrich, stored>>
    BY <1>3 DEF vars, enrichmentVars
  <2> QED
    BY <1>2, <2>1, <2>2, EventFrame, EnrichUnchanged
<1>4. ASSUME NEW d \in Deliveries, Ingest(d)
      PROVE  EventInv' /\ EnrichInv' /\ ReportInv'
  <2>1. UNCHANGED <<enrich, stored>>
    BY <1>4 DEF Ingest, enrichmentVars
  <2>2. Receive(d) \/ ReceiveDuplicate(d) \/ Reject(d)
    BY <1>4 DEF Ingest
  <2> QED
    BY <1>2, <2>1, <2>2, EventReceive, EventNotRecorded, EnrichUnchanged
<1>5. ASSUME NEW d \in Deliveries, NEW c \in Cases, Record(d, c)
      PROVE  EventInv' /\ EnrichInv' /\ ReportInv'
  <2>1. EventOf[d] \in Tasks
    BY EventFacts, IntakeAssumption
  <2>2. RecordNew(d, c) \/ RecordUpdate(d, c)
    BY <1>5 DEF Record
  <2>3. EventInv'
    BY <2>2, EventRecordNew, EventRecordUpdate
  <2>4. UNCHANGED stored
    BY <1>5 DEF Record
  <2>5. EnrichInv'
    BY <1>5, <2>1, <2>4, EnrichEnqueue, EnrichUnchanged DEF Record
  <2> QED
    BY <1>2, <2>3, <2>4, <2>5
<1>6. ASSUME NEW t \in Tasks, NEW c \in Cases, TriggerEnrichment(t, c), UNCHANGED ingestionVars
      PROVE  EventInv' /\ EnrichInv' /\ ReportInv'
  <2>1. Enqueue(t, c) /\ UNCHANGED stored /\ processingState' = processingState
    BY <1>6 DEF TriggerEnrichment
  <2>2. CaseTypeOK'
    BY <2>1 DEF EventInv, CaseTypeOK
  <2> QED
    BY <1>2, <1>6, <2>1, <2>2, EventFrame, EnrichEnqueue
<1>7. ASSUME NEW t \in Tasks, EnrichmentStep(t) \/ EnrichmentFails(t), UNCHANGED ingestionVars
      PROVE  EventInv' /\ EnrichInv' /\ ReportInv'
  <2>1. EventInv'
    BY <1>7, EnrichmentStates, EventFrame
  <2> QED
    BY <1>7, <2>1, EnrichmentKeepsInv
<1> QED
  BY <1>3, <1>4, <1>5, <1>6, <1>7 DEF Next

\* All parts of the inductive invariant hold in every reachable state.
THEOREM IntakeInvariance == Spec => [](EventInv /\ EnrichInv /\ ReportInv)
<1>1. Init => EventInv /\ EnrichInv /\ ReportInv
  BY EventInit, EnrichInit, ReportInit DEF Init
<1>2. EventInv /\ EnrichInv /\ ReportInv /\ [Next]_vars => (EventInv /\ EnrichInv /\ ReportInv)'
  BY StepKeepsInv
<1> QED
  BY <1>1, <1>2, PTL DEF Spec

\* Whatever is delivered, triggered and answered, the rows of cases, deliveries
\* and enrichments are what their columns may hold.
THEOREM IntakeTypeCorrect == Spec => []TypeOK
<1>1. EventInv /\ EnrichInv /\ ReportInv => TypeOK
  BY EnrichmentTyped DEF EventInv, TypeOK
<1> QED
  BY <1>1, IntakeInvariance, PTL

\* The flags and the completeness of a case tell the truth of its rows, for any
\* number of refunds and whatever the sources say.
THEOREM FlagsTrue == Spec => []FlagsAreTrue
<1> QED
  BY ReportIsTrue, IntakeInvariance, PTL

\* An event has its effect once, however often it is delivered.
THEOREM IntakeOnce == Spec => []EventHasEffectOnce
<1>1. EventInv => EventHasEffectOnce
  BY DEF EventInv
<1> QED
  BY <1>1, IntakeInvariance, PTL

\* The rows a case has are those of its newest enrichment, and no two
\* enrichments have the same version.
THEOREM EnrichmentsAreWhole == Spec => []EnrichmentIsWhole
<1>1. EnrichInv => EnrichmentIsWhole
  BY DEF EnrichInv
<1> QED
  BY <1>1, IntakeInvariance, PTL

\* The dispute of a case goes back to an older event only through a delivery
\* that read it before the newer event was committed.
THEOREM StaleReadsOnly == Spec => NewerEventStands
<1> DEFINE A == \A c \in Cases : disputes'[c].updated < disputes[c].updated =>
                  \E d \in Deliveries :
                    /\ delivery[d].pc = "handling" /\ delivery'[d].pc = "done"
                    /\ delivery[d].seen.case = c
                    /\ delivery[d].seen.updated < disputes[c].updated
<1>1. ASSUME EventInv, [Next]_vars
      PROVE  A
  <2> SUFFICES ASSUME NEW c \in Cases, disputes'[c].updated < disputes[c].updated
               PROVE  \E d \in Deliveries :
                        /\ delivery[d].pc = "handling" /\ delivery'[d].pc = "done"
                        /\ delivery[d].seen.case = c
                        /\ delivery[d].seen.updated < disputes[c].updated
    OBVIOUS
  <2>1. disputes[c].updated \in Nat
    BY <1>1 DEF EventInv, IngestionTypeOK, DisputeRow, NoDispute
  <2>2. disputes'[c] # disputes[c]
    BY <2>1
  <2>3. PICK d \in Deliveries, b \in Cases : Record(d, b)
    BY <1>1, <2>2 DEF Next, vars, ingestionVars, Ingest, Receive, ReceiveDuplicate, Reject
  <2>4. ~RecordNew(d, b)
    <3> SUFFICES ASSUME RecordNew(d, b) PROVE FALSE
      OBVIOUS
    <3>1. b = c
      BY <2>2 DEF RecordNew, EventInv, IngestionTypeOK
    <3>2. disputes[c].updated = 0
      BY <1>1, <3>1 DEF RecordNew, EventInv, NoRowBeforeCase, NoDispute
    <3>3. disputes'[c].updated = EventTime[EventOf[d]]
      BY <1>1, <3>1 DEF RecordNew, EventInv, IngestionTypeOK
    <3> QED
      BY <3>2, <3>3, EventFacts
  <2>5. RecordUpdate(d, b) /\ ~Stale(d)
    BY <2>2, <2>3, <2>4 DEF Record, RecordUpdate
  <2>6. disputes' = [disputes EXCEPT ![b] = Written(d, disputes[b])]
    BY <2>5 DEF RecordUpdate, Written
  <2>7. b = c /\ disputes'[c].updated = Written(d, disputes[c]).updated
    BY <1>1, <2>2, <2>6 DEF EventInv, IngestionTypeOK
  <2>8. disputes'[c].updated = EventTime[EventOf[d]]
    BY <2>1, <2>7 DEF Written
  <2>9. delivery[d].seen.updated \in Nat /\ EventTime[EventOf[d]] \in Nat
    BY <1>1, <2>5, SeenIsTyped, EventFacts DEF RecordUpdate
  <2>10. delivery[d].seen.updated < disputes[c].updated
    BY <2>1, <2>5, <2>8, <2>9 DEF Stale
  <2>11. delivery'[d].pc = "done"
    BY <1>1, <2>5 DEF RecordUpdate, Step, EventInv, IngestionTypeOK
  <2> QED
    BY <2>5, <2>7, <2>10, <2>11 DEF RecordUpdate
<1>2. EventInv /\ [Next]_vars => [A]_vars
  BY <1>1
<1> QED
  BY <1>2, IntakeInvariance, PTL DEF Spec, NewerEventStands
=============================================================================
