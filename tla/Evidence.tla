------------------------------- MODULE Evidence -------------------------------
(***************************************************************************)
(* The evidence of a case while it is enriched, once or again: uploads,    *)
(* evaluations of the coverage and the enrichment write the state of the   *)
(* case, each from its own earlier reading of it, while scans and document *)
(* processing move the documents.  What writes the row of the case waits   *)
(* for an enrichment that holds its lock.                                  *)
(***************************************************************************)
EXTENDS DocumentIntelligence, Enrichment, ValidationRules

CONSTANT Seeded   \* the documents that are there from the start

\* Theirs is the UNIQUE (case_id, sha256) as well.
ASSUME SeededAssumption ==
  /\ Seeded \subseteq Uploads /\ IsFiniteSet(Seeded)
  /\ \A u, v \in Seeded : Same(u, v) => u = v

vars == <<processingState, intakeVars, intelligenceVars, enrichmentVars>>

Init ==
  /\ processingState \in [Cases -> {"INGESTED", "ENRICHED", "AWAITING_EVIDENCE"}]
  /\ IntakeInit(Seeded)
  /\ IntelligenceInit
  /\ EnrichmentInit

TypeOK == CaseTypeOK /\ IntakeTypeOK /\ IntelligenceTypeOK /\ EnrichmentTypeOK

Free(c) == ~CaseLocked(c)

Upload(u) ==
  /\ \/ CheckUpload(u) \/ StoreObject(u) \/ StoreFails(u)
     \/ (AdvancesCase(u) => Free(CaseOf[u])) /\ CommitDocument(u)
     \/ Compensate(u) \/ SendScan(u) \/ AbandonUpload(u)
     \/ Scan(u) \/ GiveUpScan(u)
  /\ UNCHANGED <<intelligenceVars, enrichmentVars>>

Evaluate(e) ==
  /\ \/ e \in Readers /\ ListEvidence(e)
     \/ ReadDocuments(e)
     \/ (Covered(e) => Free(CaseOf[e])) /\ WriteCoverage(e)
     \/ EvaluationFails(e)
  /\ UNCHANGED <<intelligenceVars, enrichmentVars>>

Process ==
  /\ IntelligenceStep
  /\ UNCHANGED <<processingState, upload, objects, scans, evaluations, coverage, enrichmentVars>>

Enrich(t) ==
  /\ \/ \E c \in Cases : TriggerEnrichment(t, c)
     \/ EnrichmentStep(t) \/ EnrichmentFails(t)
  /\ UNCHANGED <<intakeVars, intelligenceVars>>

Next ==
  \/ \E u \in Uploads : Upload(u)
  \/ \E e \in Evaluators : Evaluate(e)
  \/ Process
  \/ \E t \in Tasks : Enrich(t)

Spec == Init /\ [][Next]_vars
-----------------------------------------------------------------------------
\* EVIDENCE_READY is never a mistake: whatever was uploaded twice, refused by
\* the scanner or moved on meanwhile, and whoever else wrote the state of the
\* case, each required type has a document that passed the scan.
ReadyIsCovered ==
  \A c \in Cases : processingState[c] = "EVIDENCE_READY" =>
    \A t \in Required : \E u \in Uploads :
      CaseOf[u] = c /\ TypeOf[u] = t /\ documents[u] \in ScannedClean

\* A case has a content once, and a document has its object; only an upload
\* that was answered with an error after its commit may have deleted its own.
ObjectOfDocument ==
  /\ \A u, v \in Uploads : Same(u, v) /\ documents[u] # "none" /\ documents[v] # "none" => u = v
  /\ \A u \in Uploads \ Seeded : documents[u] # "none" => u \in objects \/ upload[u].pc = "failed"

Progress(status) ==
  CASE status \in {"none", "QUARANTINED"}                              -> 0
    [] status \in {"READY_FOR_OCR", "REJECTED", "SCAN_FAILED", "QUEUED"} -> 1
    [] status = "OCR_QUEUED"                                           -> 2
    [] status \in {"OCR_PROCESSING", "PROCESSING"}                      -> 3
    [] OTHER                                                           -> 4

\* Requests at once, retries and dead workers never send a document or its job
\* back, and the document always says what its job does.
ProcessingMovesOn ==
  [][\A u \in Uploads :
       /\ Progress(documents'[u]) >= Progress(documents[u])
       /\ Progress(jobs'[u]) >= Progress(jobs[u])
       /\ jobs'[u] # "none" =>
            documents'[u] \in CASE jobs'[u] = "QUEUED"     -> {"OCR_QUEUED"}
                                [] jobs'[u] = "PROCESSING" -> {"OCR_PROCESSING"}
                                [] jobs'[u] = "FAILED"     -> {"OCR_FAILED"}
                                [] OTHER                   -> {"REVIEW_REQUIRED", "EXTRACTED"}]_vars

\* Whatever the documents went through and in whatever order they are loaded, a
\* validation run takes the best of them.
AssessmentIsBest ==
  \A c \in Cases, t \in Types :
    LET loaded == {u \in Uploads : CaseOf[u] = c /\ TypeOf[u] = t /\ Loaded(documents[u])} IN
    \A order \in SetToSeqs(loaded) :
      Assessment([i \in DOMAIN order |-> documents[order[i]]]) = BestOf({documents[u] : u \in loaded})
=============================================================================
