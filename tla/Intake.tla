-------------------------------- MODULE Intake --------------------------------
(***************************************************************************)
(* A case from the events of its dispute to its enrichment: the ingestion  *)
(* commits a case and then sends a Celery message for its enrichment; the  *)
(* message may be lost (a failed dispatch is logged and forgotten).  An     *)
(* event sends one message at most, which is named after it.               *)
(***************************************************************************)
EXTENDS Ingestion, Enrichment

\* The message an event sends is the task named after it.
ASSUME IntakeAssumption == Events \subseteq Tasks

vars == <<processingState, ingestionVars, enrichmentVars>>

Init ==
  /\ processingState = [c \in Cases |-> "ABSENT"]
  /\ IngestionInit
  /\ EnrichmentInit

TypeOK == CaseTypeOK /\ IngestionTypeOK /\ EnrichmentTypeOK

\* The commit of a delivery, and the message that follows it.
Record(d, c) ==
  /\ RecordNew(d, c) \/ RecordUpdate(d, c)
  /\ Enqueue(EventOf[d], c) \/ UNCHANGED enrich
  /\ UNCHANGED stored

Ingest(d) ==
  /\ Receive(d) \/ ReceiveDuplicate(d) \/ Reject(d)
  /\ UNCHANGED enrichmentVars

Next ==
  \/ \E d \in Deliveries : Ingest(d)
  \/ \E d \in Deliveries, c \in Cases : Record(d, c)
  \/ \E t \in Tasks \ Events, c \in Cases : TriggerEnrichment(t, c) /\ UNCHANGED ingestionVars
  \/ \E t \in Tasks : (EnrichmentStep(t) \/ EnrichmentFails(t)) /\ UNCHANGED ingestionVars

Spec == Init /\ [][Next]_vars

\* Celery workers take what is queued and go on with it; nobody has to fail.
FairSpec == Spec /\ \A t \in Tasks : WF_vars(EnrichmentStep(t) /\ UNCHANGED ingestionVars)
-----------------------------------------------------------------------------
\* An event has its effect once, however often and by however many processes
\* it is delivered at once (Idempotency Check, ingestion.py:32).
EventHasEffectOnce ==
  /\ \A x, y \in history : EventOf[x.by] = EventOf[y.by] => x = y
  /\ webhooks = {EventOf[x.by] : x \in history}

\* The stored dispute goes back to an older event only through a delivery that
\* read it before the newer event was committed.
NewerEventStands ==
  [][\A c \in Cases : disputes'[c].updated < disputes[c].updated =>
       \E d \in Deliveries :
         /\ delivery[d].pc = "handling" /\ delivery'[d].pc = "done"
         /\ delivery[d].seen.case = c
         /\ delivery[d].seen.updated < disputes[c].updated]_vars

\* Whatever the providers do, and although they wait for each other's row
\* lock, enrichments end.
EnrichmentEnds ==
  \A t \in Tasks : (enrich[t].pc = "queued") ~> (enrich[t].pc = "done")
=============================================================================
