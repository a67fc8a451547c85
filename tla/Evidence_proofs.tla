---------------------------- MODULE Evidence_proofs ----------------------------
(***************************************************************************)
(* The evidence of cases, for any number of cases, uploads, readers and    *)
(* requests.  The proof has three parts: the uploads and their objects, the *)
(* documents and their jobs, and the coverage of the cases.                *)
(***************************************************************************)
EXTENDS Evidence, Enrichment_proofs

\* A document has no row before its upload commits it, and an object then.
Uploaded ==
  \A u \in Uploads :
    /\ upload[u].pc \in {"waiting", "checked", "stored"} => documents[u] = "none"
    /\ upload[u].pc \in {"stored", "committed"} => u \in objects

UploadInv == IntakeTypeOK /\ Uploaded /\ ObjectOfDocument

\* What a document is while its job has a status.
InStep(job, document) ==
  /\ job = "none"       => document \in Unscanned \cup {"none", "READY_FOR_OCR"}
  /\ job = "QUEUED"     => document = "OCR_QUEUED"
  /\ job = "PROCESSING" => document = "OCR_PROCESSING"
  /\ job = "FAILED"     => document = "OCR_FAILED"
  /\ job = "COMPLETED"  => document \in {"REVIEW_REQUIRED", "EXTRACTED"}

\* A message is sent once, by the request that created the job.
Created(r, u) == request[r].pc = "created" /\ request[r].document = u

JobsInStep ==
  /\ \A u \in Uploads :
       /\ InStep(jobs[u], documents[u])
       /\ messages[u].pc = "queued" =>
            jobs[u] \in {"QUEUED", "PROCESSING"} /\ messages[u].attempts < MaxAttempts
       /\ messages[u].pc = "processing" => jobs[u] = "PROCESSING"
       /\ jobs[u] = "none" => messages[u].pc = "absent"
       /\ messages[u].pc = "absent" => messages[u].attempts = 0
  /\ \A r \in Requests, u \in Uploads :
       /\ request[r].pc = "eligible" /\ request[r].document = u /\ jobs[u] = "none" =>
            documents[u] = "READY_FOR_OCR"
       /\ Created(r, u) => jobs[u] = "QUEUED" /\ messages[u].pc = "absent"
  /\ \A r, s \in Requests, u \in Uploads : Created(r, u) /\ Created(s, u) => r = s

JobInv == IntelligenceTypeOK /\ JobsInStep

\* What an evaluation has found goes on being there.
Found(c, t) ==
  \E u \in Uploads : CaseOf[u] = c /\ TypeOf[u] = t /\ documents[u] \in ScannedClean

FindingsStand ==
  \A e \in Evaluators : evaluations[e].pc = "read" =>
    \A t \in evaluations[e].available : Found(CaseOf[e], t)

CoverageInv == CaseTypeOK /\ FindingsStand /\ ReadyIsCovered

\* The inductive invariant.
EvidenceInv == UploadInv /\ JobInv /\ CoverageInv

-----------------------------------------------------------------------------
\* A row comes only with an upload.
RowsKept == \A u \in Uploads : documents[u] = "none" <=> documents'[u] = "none"

\* A document that passed the scan goes on having passed it.
CleanKept ==
  \A u \in Uploads : documents[u] \in ScannedClean => documents'[u] \in ScannedClean

LEMMA EvidenceInit == Init => EvidenceInv
<1> SUFFICES ASSUME Init PROVE EvidenceInv
  OBVIOUS
<1>1. IntakeTypeOK
  BY DEF Init, IntakeInit, IntakeTypeOK, NoEvaluation, NoRow, ScannedClean
<1>2. UploadInv
  BY <1>1, SeededAssumption DEF Init, IntakeInit, UploadInv, Uploaded, ObjectOfDocument
<1>3. IntelligenceTypeOK
  BY IntelligenceAssumption DEF Init, IntelligenceInit, IntelligenceTypeOK, NoRequest
<1>4. JobsInStep
  BY DEF Init, IntakeInit, IntelligenceInit, JobsInStep, InStep, Created, NoRequest, Unscanned
<1>5. CoverageInv
  BY DEF Init, IntakeInit, CoverageInv, CaseTypeOK, ProcessingState, FindingsStand,
         ReadyIsCovered, NoEvaluation
<1> QED
  BY <1>2, <1>3, <1>4, <1>5 DEF EvidenceInv, JobInv

-----------------------------------------------------------------------------
(*              Frames: what a part leaves of the others                   *)

LEMMA UploadFrame ==
  ASSUME UploadInv, IntakeTypeOK', UNCHANGED <<upload, objects>>, RowsKept
  PROVE  UploadInv'
BY DEF UploadInv, Uploaded, ObjectOfDocument, RowsKept

\* The steps before the processing of a document.
Early(old, new) ==
  new = old \/ (old \in {"none", "QUARANTINED"} /\ new \in Unscanned \cup {"READY_FOR_OCR"})

LEMMA JobFrame ==
  ASSUME JobInv, UNCHANGED intelligenceVars, \A u \in Uploads : Early(documents[u], documents'[u])
  PROVE  JobInv'
<1>1. UNCHANGED <<request, jobs, messages>>
  BY DEF intelligenceVars
<1>2. IntelligenceTypeOK'
  BY <1>1 DEF JobInv, IntelligenceTypeOK
<1>3. \A u \in Uploads : InStep(jobs'[u], documents'[u])
  BY <1>1 DEF JobInv, IntelligenceTypeOK, JobsInStep, InStep, Early, Unscanned
<1>4. \A r \in Requests, u \in Uploads :
        request'[r].pc = "eligible" /\ request'[r].document = u /\ jobs'[u] = "none" =>
          documents'[u] = "READY_FOR_OCR"
  BY <1>1 DEF JobInv, JobsInStep, Early
<1> QED
  BY <1>1, <1>2, <1>3, <1>4 DEF JobInv, JobsInStep, Created

LEMMA CoverageFrame ==
  ASSUME CoverageInv, CleanKept, CaseTypeOK',
         \A e \in Evaluators : evaluations'[e] = evaluations[e] \/ evaluations'[e].pc # "read",
         \A c \in Cases : processingState'[c] = "EVIDENCE_READY" =>
                            processingState[c] = "EVIDENCE_READY"
  PROVE  CoverageInv'
<1>1. FindingsStand'
  BY DEF CoverageInv, CleanKept, FindingsStand, Found
<1>2. ReadyIsCovered'
  BY DEF CoverageInv, CleanKept, ReadyIsCovered
<1> QED
  BY <1>1, <1>2 DEF CoverageInv

-----------------------------------------------------------------------------
(*                        Uploads: one lemma per action                    *)

LEMMA CaseOfType ==
  ASSUME NEW e \in Evaluators
  PROVE  CaseOf[e] \in Cases
BY EvidenceAssumption DEF Evaluators

\* What is left to show of a step of an upload that writes no document.
LEMMA NothingElse ==
  ASSUME EvidenceInv, UploadInv',
         UNCHANGED <<processingState, documents, evaluations, intelligenceVars>>
  PROVE  EvidenceInv'
<1>1. JobInv'
  BY JobFrame DEF EvidenceInv, Early
<1>2. CoverageInv'
  BY CoverageFrame DEF EvidenceInv, CoverageInv, CaseTypeOK, CleanKept
<1> QED
  BY <1>1, <1>2 DEF EvidenceInv

LEMMA StepCheckUpload ==
  ASSUME EvidenceInv, NEW u \in Uploads, CheckUpload(u), UNCHANGED intelligenceVars
  PROVE  EvidenceInv'
<1>1. PICK pc \in {"failed", "checked"} :
        upload' = [upload EXCEPT ![u] = [pc |-> pc, seen |-> processingState[CaseOf[u]]]]
  BY DEF CheckUpload
<1>2. processingState[CaseOf[u]] \in ProcessingState \cup {"ABSENT"}
  BY CaseOfType DEF EvidenceInv, CoverageInv, CaseTypeOK, Evaluators
<1>3. UNCHANGED <<processingState, documents, objects, scans, evaluations, coverage>>
  BY DEF CheckUpload
<1>4. IntakeTypeOK'
  BY <1>1, <1>2, <1>3 DEF EvidenceInv, UploadInv, IntakeTypeOK
<1>5. /\ \A v \in Uploads : v # u => upload'[v] = upload[v]
      /\ upload'[u].pc = pc
  BY <1>1 DEF EvidenceInv, UploadInv, IntakeTypeOK
<1>6. documents[u] = "none" /\ upload[u].pc = "waiting"
  BY DEF EvidenceInv, UploadInv, Uploaded, CheckUpload
<1>7. Uploaded' /\ ObjectOfDocument'
  BY <1>1, <1>3, <1>5, <1>6 DEF EvidenceInv, UploadInv, Uploaded, ObjectOfDocument
<1> QED
  BY <1>3, <1>4, <1>7, NothingElse DEF UploadInv

\* The steps that leave the rows of the documents as they are.
LEMMA StepMove ==
  ASSUME EvidenceInv, NEW u \in Uploads, UNCHANGED intelligenceVars,
         StoreObject(u) \/ StoreFails(u) \/ Compensate(u) \/ SendScan(u) \/ AbandonUpload(u)
  PROVE  EvidenceInv'
<1>1. PICK pc \in {"stored", "failed", "done"} : upload' = [upload EXCEPT ![u].pc = pc]
  BY DEF StoreObject, StoreFails, Compensate, SendScan, AbandonUpload, Goto
<1>2. /\ \A v \in Uploads : v # u => upload'[v] = upload[v]
      /\ upload'[u].pc = pc
  BY <1>1 DEF EvidenceInv, UploadInv, IntakeTypeOK
<1>3. UNCHANGED <<processingState, documents, evaluations, coverage>>
  BY DEF StoreObject, StoreFails, Compensate, SendScan, AbandonUpload
<1>4. /\ objects' \subseteq Uploads
      /\ \A v \in Uploads : v # u /\ v \in objects => v \in objects'
      /\ pc = "stored" => u \in objects' /\ documents[u] = "none"
      /\ pc = "done" => (u \in objects => u \in objects')
      /\ upload[u].pc # "failed"
      /\ scans' \in [Uploads -> {"absent", "queued", "done"}]
  <2>1. CASE StoreObject(u)
    BY <1>1, <1>2, <2>1 DEF StoreObject, Goto, EvidenceInv, UploadInv, Uploaded, IntakeTypeOK
  <2>2. CASE StoreFails(u)
    BY <1>1, <1>2, <2>2 DEF StoreFails, Goto, EvidenceInv, UploadInv, Uploaded, IntakeTypeOK
  <2>3. CASE Compensate(u)
    BY <1>1, <1>2, <2>3 DEF Compensate, Removed, Goto, EvidenceInv, UploadInv, Uploaded, IntakeTypeOK
  <2>4. CASE SendScan(u)
    BY <1>1, <1>2, <2>4 DEF SendScan, Goto, EvidenceInv, UploadInv, Uploaded, IntakeTypeOK
  <2>5. CASE AbandonUpload(u)
    BY <1>1, <1>2, <2>5 DEF AbandonUpload, Goto, EvidenceInv, UploadInv, Uploaded, IntakeTypeOK
  <2> QED
    BY <2>1, <2>2, <2>3, <2>4, <2>5
<1>5. IntakeTypeOK'
  <2>1. upload \in [Uploads -> [pc : {"waiting", "checked", "stored", "committed", "done", "failed"},
                                seen : ProcessingState \cup {"ABSENT"}]]
    BY DEF EvidenceInv, UploadInv, IntakeTypeOK
  <2>2. upload' \in [Uploads -> [pc : {"waiting", "checked", "stored", "committed", "done", "failed"},
                                 seen : ProcessingState \cup {"ABSENT"}]]
    BY <2>1, <1>1
  <2> QED
    BY <2>2, <1>3, <1>4 DEF EvidenceInv, UploadInv, IntakeTypeOK
<1>6. Uploaded'
  BY <1>2, <1>3, <1>4 DEF EvidenceInv, UploadInv, Uploaded
<1>7. ObjectOfDocument'
  BY <1>2, <1>3, <1>4 DEF EvidenceInv, UploadInv, ObjectOfDocument
<1> QED
  BY <1>3, <1>5, <1>6, <1>7, NothingElse DEF UploadInv

LEMMA StepCommitDocument ==
  ASSUME EvidenceInv, NEW u \in Uploads, CommitDocument(u), UNCHANGED intelligenceVars
  PROVE  EvidenceInv'
<1>1. /\ documents[u] = "none" /\ u \in objects /\ upload[u].pc = "stored"
      /\ \A v \in Uploads \ {u} : Same(u, v) => documents[v] = "none"
  BY DEF EvidenceInv, UploadInv, Uploaded, CommitDocument, Duplicate
<1>2. /\ documents'[u] = "QUARANTINED" /\ upload'[u].pc = "committed"
      /\ \A v \in Uploads : v # u => documents'[v] = documents[v] /\ upload'[v] = upload[v]
  BY DEF EvidenceInv, UploadInv, IntakeTypeOK, CommitDocument, Goto
<1>3. UNCHANGED <<objects, scans, evaluations, coverage>>
  BY DEF CommitDocument
<1>4. IntakeTypeOK'
  BY <1>3 DEF EvidenceInv, UploadInv, IntakeTypeOK, CommitDocument, Goto, Unscanned
<1>5. Uploaded'
  BY <1>1, <1>2, <1>3 DEF EvidenceInv, UploadInv, Uploaded
<1>6. ObjectOfDocument'
  <2>1. \A v, w \in Uploads : Same(v, w) /\ documents'[v] # "none" /\ documents'[w] # "none" => v = w
    BY <1>1, <1>2 DEF EvidenceInv, UploadInv, ObjectOfDocument, Same
  <2>2. \A v \in Uploads \ Seeded : documents'[v] # "none" => v \in objects' \/ upload'[v].pc = "failed"
    BY <1>1, <1>2, <1>3 DEF EvidenceInv, UploadInv, ObjectOfDocument
  <2> QED
    BY <2>1, <2>2 DEF ObjectOfDocument
<1>7. JobInv'
  BY <1>1, <1>2, JobFrame DEF EvidenceInv, Early, Unscanned
<1>8. CoverageInv'
  <2>1. CleanKept
    BY <1>1, <1>2 DEF CleanKept, ScannedClean
  <2>2. CaseTypeOK' /\ \A c \in Cases : processingState'[c] = "EVIDENCE_READY" =>
                                          processingState[c] = "EVIDENCE_READY"
    BY DEF CommitDocument, SetState, EvidenceInv, CoverageInv, CaseTypeOK, ProcessingState
  <2> QED
    BY <1>3, <2>1, <2>2, CoverageFrame DEF EvidenceInv
<1> QED
  BY <1>4, <1>5, <1>6, <1>7, <1>8 DEF EvidenceInv, UploadInv

LEMMA StepScan ==
  ASSUME EvidenceInv, NEW u \in Uploads, Scan(u) \/ GiveUpScan(u), UNCHANGED intelligenceVars
  PROVE  EvidenceInv'
<1>1. UNCHANGED <<processingState, upload, objects, coverage>>
  BY DEF Scan, GiveUpScan
<1>2. scans' \in [Uploads -> {"absent", "queued", "done"}]
  BY DEF Scan, GiveUpScan, EvidenceInv, UploadInv, IntakeTypeOK
<1>3. \/ UNCHANGED <<documents, evaluations>>
      \/ /\ documents[u] = "QUARANTINED"
         /\ \E s \in {"READY_FOR_OCR", "REJECTED", "SCAN_FAILED"} :
              documents' = [documents EXCEPT ![u] = s]
         /\ Open(u) \/ UNCHANGED evaluations
  BY DEF Scan, GiveUpScan
<1>4. /\ documents' \in [Uploads -> Unscanned \cup ScannedClean \cup {"none"}]
      /\ \A v \in Uploads : documents'[v] = documents[v] \/
           (/\ documents[v] = "QUARANTINED"
            /\ documents'[v] \in {"READY_FOR_OCR", "REJECTED", "SCAN_FAILED"})
  <2>1. documents \in [Uploads -> Unscanned \cup ScannedClean \cup {"none"}]
    BY DEF EvidenceInv, UploadInv, IntakeTypeOK
  <2>2. CASE UNCHANGED documents
    BY <2>1, <2>2
  <2>3. ASSUME NEW s \in {"READY_FOR_OCR", "REJECTED", "SCAN_FAILED"},
               documents' = [documents EXCEPT ![u] = s], documents[u] = "QUARANTINED"
        PROVE  /\ documents' \in [Uploads -> Unscanned \cup ScannedClean \cup {"none"}]
               /\ \A v \in Uploads : documents'[v] = documents[v] \/
                    (/\ documents[v] = "QUARANTINED"
                     /\ documents'[v] \in {"READY_FOR_OCR", "REJECTED", "SCAN_FAILED"})
    <3>1. s \in Unscanned \cup ScannedClean \cup {"none"}
      BY DEF Unscanned, ScannedClean
    <3> QED
      BY <2>1, <2>3, <3>1
  <2> QED
    BY <1>3, <2>2, <2>3
<1>5. /\ evaluations' \in [Evaluators -> [pc : {"idle", "open", "read"},
                             seen : ProcessingState \cup {"ABSENT"},
                             available : SUBSET Types, row : BOOLEAN]]
      /\ \A e \in Evaluators : evaluations'[e] = evaluations[e] \/ evaluations'[e].pc # "read"
  <2>1. CASE Open(u)
    <3>1. processingState[CaseOf[u]] \in ProcessingState \cup {"ABSENT"}
      BY CaseOfType DEF EvidenceInv, CoverageInv, CaseTypeOK, Evaluators
    <3> QED
      BY <2>1, <3>1 DEF Open, EvidenceInv, UploadInv, IntakeTypeOK
  <2>2. CASE UNCHANGED evaluations
    BY <2>2 DEF EvidenceInv, UploadInv, IntakeTypeOK
  <2> QED
    BY <1>3, <2>1, <2>2
<1>6. UploadInv'
  BY <1>1, <1>2, <1>4, <1>5, UploadFrame DEF EvidenceInv, UploadInv, IntakeTypeOK, RowsKept
<1>7. JobInv'
  BY <1>4, JobFrame DEF EvidenceInv, Early, Unscanned
<1>8. CoverageInv'
  BY <1>1, <1>4, <1>5, CoverageFrame
     DEF EvidenceInv, CoverageInv, CaseTypeOK, CleanKept, ScannedClean
<1> QED
  BY <1>6, <1>7, <1>8 DEF EvidenceInv

-----------------------------------------------------------------------------
(*                       Coverage: one lemma per action                    *)

\* What an evaluation, which writes no document, leaves of the other parts.
LEMMA DocumentsUnchanged ==
  ASSUME EvidenceInv, UNCHANGED <<upload, documents, objects, scans, intelligenceVars>>,
         evaluations' \in [Evaluators -> [pc : {"idle", "open", "read"},
                             seen : ProcessingState \cup {"ABSENT"},
                             available : SUBSET Types, row : BOOLEAN]],
         coverage' \in [Cases -> {NoRow} \cup SUBSET Types]
  PROVE  UploadInv' /\ JobInv' /\ CleanKept
<1>1. UploadInv'
  BY UploadFrame DEF EvidenceInv, UploadInv, IntakeTypeOK, RowsKept
<1>2. JobInv'
  BY JobFrame DEF EvidenceInv, Early
<1> QED
  BY <1>1, <1>2 DEF CleanKept

LEMMA StepOpenOrClose ==
  ASSUME EvidenceInv, NEW e \in Evaluators, UNCHANGED intelligenceVars,
         ListEvidence(e) \/ EvaluationFails(e)
  PROVE  EvidenceInv'
<1>1. UNCHANGED <<processingState, upload, documents, objects, scans, coverage>>
  BY DEF ListEvidence, EvaluationFails
<1>2. processingState[CaseOf[e]] \in ProcessingState \cup {"ABSENT"}
  BY CaseOfType DEF EvidenceInv, CoverageInv, CaseTypeOK
<1>3. PICK n \in [pc : {"idle", "open"}, seen : ProcessingState \cup {"ABSENT"},
                  available : SUBSET Types, row : BOOLEAN] :
        evaluations' = [evaluations EXCEPT ![e] = n]
  BY <1>2 DEF ListEvidence, EvaluationFails, Open, Close, NoEvaluation
<1>4. /\ evaluations' \in [Evaluators -> [pc : {"idle", "open", "read"},
                             seen : ProcessingState \cup {"ABSENT"},
                             available : SUBSET Types, row : BOOLEAN]]
      /\ \A f \in Evaluators : evaluations'[f] = evaluations[f] \/ evaluations'[f].pc # "read"
  BY <1>3 DEF EvidenceInv, UploadInv, IntakeTypeOK
<1>5. coverage' \in [Cases -> {NoRow} \cup SUBSET Types]
  BY <1>1 DEF EvidenceInv, UploadInv, IntakeTypeOK
<1>6. UploadInv' /\ JobInv' /\ CleanKept
  BY <1>1, <1>4, <1>5, DocumentsUnchanged
<1> QED
  BY <1>1, <1>4, <1>6, CoverageFrame DEF EvidenceInv, CoverageInv, CaseTypeOK

LEMMA StepReadDocuments ==
  ASSUME EvidenceInv, NEW e \in Evaluators, UNCHANGED intelligenceVars, ReadDocuments(e)
  PROVE  EvidenceInv'
<1> DEFINE found == Available(CaseOf[e]) \cap Required
           n == [evaluations[e] EXCEPT !.pc = "read", !.available = found,
                                       !.row = coverage[CaseOf[e]] # NoRow]
<1>1. UNCHANGED <<processingState, upload, documents, objects, scans, coverage>>
  BY DEF ReadDocuments
<1>2. evaluations' = [evaluations EXCEPT ![e] = n]
  BY DEF ReadDocuments
<1>3. found \subseteq Types /\ \A t \in found : Found(CaseOf[e], t)
  BY DEF Available, Types, Found, ScannedClean
<1> HIDE DEF found
<1>4. /\ n \in [pc : {"idle", "open", "read"}, seen : ProcessingState \cup {"ABSENT"},
                available : SUBSET Types, row : BOOLEAN]
      /\ n.available = found
  BY <1>3 DEF EvidenceInv, UploadInv, IntakeTypeOK
<1> HIDE DEF n
<1>5. evaluations' \in [Evaluators -> [pc : {"idle", "open", "read"},
                          seen : ProcessingState \cup {"ABSENT"},
                          available : SUBSET Types, row : BOOLEAN]]
  BY <1>2, <1>4 DEF EvidenceInv, UploadInv, IntakeTypeOK
<1>6. \A f \in Evaluators : f # e => evaluations'[f] = evaluations[f]
  BY <1>2 DEF EvidenceInv, UploadInv, IntakeTypeOK
<1>7. evaluations'[e] = n
  BY <1>2 DEF EvidenceInv, UploadInv, IntakeTypeOK
<1>8. coverage' \in [Cases -> {NoRow} \cup SUBSET Types]
  BY <1>1 DEF EvidenceInv, UploadInv, IntakeTypeOK
<1>9. UploadInv' /\ JobInv'
  BY <1>1, <1>5, <1>8, DocumentsUnchanged
<1>10. FindingsStand'
  BY <1>1, <1>3, <1>4, <1>6, <1>7 DEF EvidenceInv, CoverageInv, FindingsStand, Found
<1> QED
  BY <1>1, <1>9, <1>10 DEF EvidenceInv, CoverageInv, CaseTypeOK, ReadyIsCovered

\* EVIDENCE_READY is written on the strength of findings that still stand.
LEMMA StepWriteCoverage ==
  ASSUME EvidenceInv, NEW e \in Evaluators, UNCHANGED intelligenceVars, WriteCoverage(e)
  PROVE  EvidenceInv'
<1>1. UNCHANGED <<upload, documents, objects, scans>>
  BY DEF WriteCoverage
<1>2. evaluations' = [evaluations EXCEPT ![e] = NoEvaluation]
  BY DEF WriteCoverage, Close
<1>3. NoEvaluation \in [pc : {"idle", "open", "read"}, seen : ProcessingState \cup {"ABSENT"},
                        available : SUBSET Types, row : BOOLEAN]
  BY DEF NoEvaluation
<1>4. evaluations' \in [Evaluators -> [pc : {"idle", "open", "read"},
                          seen : ProcessingState \cup {"ABSENT"},
                          available : SUBSET Types, row : BOOLEAN]]
  BY <1>2, <1>3 DEF EvidenceInv, UploadInv, IntakeTypeOK
<1>5. coverage' \in [Cases -> {NoRow} \cup SUBSET Types]
  <2>1. evaluations[e].available \subseteq Types
    BY DEF EvidenceInv, UploadInv, IntakeTypeOK
  <2> QED
    BY <2>1 DEF WriteCoverage, EvidenceInv, UploadInv, IntakeTypeOK
<1>6. UploadInv' /\ JobInv' /\ CleanKept
  BY <1>1, <1>4, <1>5, DocumentsUnchanged
<1>7. \A f \in Evaluators : evaluations'[f] = evaluations[f] \/ evaluations'[f].pc # "read"
  BY <1>2 DEF EvidenceInv, UploadInv, IntakeTypeOK, NoEvaluation
<1>8. FindingsStand'
  BY <1>6, <1>7 DEF EvidenceInv, CoverageInv, CleanKept, FindingsStand, Found
<1>9. CaseTypeOK'
  BY DEF WriteCoverage, SetState, EvidenceInv, CoverageInv, CaseTypeOK, ProcessingState
<1>10. ReadyIsCovered'
  <2> SUFFICES ASSUME NEW c \in Cases, processingState'[c] = "EVIDENCE_READY", NEW t \in Required
               PROVE  Found(c, t)
    BY <1>1 DEF ReadyIsCovered, Found
  <2>1. CASE processingState[c] = "EVIDENCE_READY"
    BY <2>1 DEF EvidenceInv, CoverageInv, ReadyIsCovered, Found
  <2>2. CASE processingState[c] # "EVIDENCE_READY"
    <3>1. Covered(e) /\ c = CaseOf[e]
      BY <2>2 DEF WriteCoverage, SetState, EvidenceInv, CoverageInv, CaseTypeOK
    <3> QED
      BY <3>1 DEF Covered, EvidenceInv, CoverageInv, FindingsStand
  <2> QED
    BY <2>1, <2>2
<1> QED
  BY <1>6, <1>8, <1>9, <1>10 DEF EvidenceInv, CoverageInv

-----------------------------------------------------------------------------
(*                      Processing: one lemma per action                   *)

\* What the processing of a document, which writes no case, leaves.
LEMMA CasesUnchanged ==
  ASSUME EvidenceInv, NEW u \in Uploads, NEW s \in ScannedClean,
         UNCHANGED <<processingState, upload, objects, scans, evaluations, coverage>>,
         documents' = documents
         \/ (documents[u] \in ScannedClean /\ documents' = [documents EXCEPT ![u] = s])
  PROVE  UploadInv' /\ CoverageInv'
<1>1. /\ documents' \in [Uploads -> Unscanned \cup ScannedClean \cup {"none"}]
      /\ \A v \in Uploads : documents'[v] = documents[v] \/
           (documents[v] \in ScannedClean /\ documents'[v] \in ScannedClean)
  BY DEF EvidenceInv, UploadInv, IntakeTypeOK
<1>2. UploadInv'
  BY <1>1, UploadFrame DEF EvidenceInv, UploadInv, IntakeTypeOK, RowsKept, ScannedClean
<1>3. CoverageInv'
  BY <1>1, CoverageFrame DEF EvidenceInv, CoverageInv, CaseTypeOK, CleanKept
<1> QED
  BY <1>2, <1>3

\* No document and no job goes back.
NoneGoesBack ==
  \A u \in Uploads : /\ Progress(documents'[u]) >= Progress(documents[u])
                     /\ Progress(jobs'[u]) >= Progress(jobs[u])

Others == <<processingState, upload, objects, scans, evaluations, coverage>>

LEMMA ProgressIsInteger == \A status : Progress(status) \in 0..4
BY DEF Progress

\* The steps of a request that write no document: the request alone moves, or it
\* sends the message of the job that it created.
LEMMA StepRequest ==
  ASSUME EvidenceInv, UNCHANGED Others, NEW r \in Requests, NEW u \in Uploads,
         RequestProcessing(r, u) \/ AbandonRequest(r)
  PROVE  EvidenceInv' /\ NoneGoesBack
<1>1. UNCHANGED <<documents, jobs, messages>>
  BY DEF RequestProcessing, AbandonRequest
<1>2. PICK n \in [pc : {"eligible", "done"}, document : Uploads \cup {"none"}] :
        /\ request' = [request EXCEPT ![r] = n]
        /\ n.pc = "eligible" => n.document \in Uploads /\ documents[n.document] = "READY_FOR_OCR"
  <2>1. CASE RequestProcessing(r, u)
    <3> DEFINE q == [pc |-> "eligible", document |-> u]
    <3>1. documents[u] = "READY_FOR_OCR"
      BY <2>1 DEF RequestProcessing, Eligible, EvidenceInv, JobInv, JobsInStep, InStep, Unscanned
    <3>2. q \in [pc : {"eligible", "done"}, document : Uploads \cup {"none"}]
      OBVIOUS
    <3> QED
      BY <2>1, <3>1, <3>2 DEF RequestProcessing
  <2>2. CASE AbandonRequest(r)
    <3> DEFINE q == [request[r] EXCEPT !.pc = "done"]
    <3>1. q \in [pc : {"eligible", "done"}, document : Uploads \cup {"none"}] /\ q.pc = "done"
      BY DEF EvidenceInv, JobInv, IntelligenceTypeOK
    <3>2. request' = [request EXCEPT ![r] = q]
      BY <2>2 DEF AbandonRequest
    <3> HIDE DEF q
    <3> QED
      BY <3>1, <3>2
  <2> QED
    BY <2>1, <2>2
<1>3. request'[r] = n /\ \A t \in Requests : t # r => request'[t] = request[t]
  BY <1>2 DEF EvidenceInv, JobInv, IntelligenceTypeOK
<1>4. IntelligenceTypeOK'
  BY <1>1, <1>2, <1>3 DEF EvidenceInv, JobInv, IntelligenceTypeOK
<1>5. JobsInStep'
  BY <1>1, <1>2, <1>3 DEF EvidenceInv, JobInv, JobsInStep, Created
<1>6. UploadInv' /\ CoverageInv'
  BY <1>1, CasesUnchanged DEF Others, ScannedClean
<1>7. NoneGoesBack
  BY <1>1, ProgressIsInteger DEF NoneGoesBack
<1> QED
  BY <1>4, <1>5, <1>6, <1>7 DEF EvidenceInv, JobInv

LEMMA StepCreateJob ==
  ASSUME EvidenceInv, UNCHANGED Others, NEW r \in Requests, CreateJob(r)
  PROVE  EvidenceInv' /\ NoneGoesBack
<1>1. PICK u \in Uploads : u = request[r].document
  BY DEF EvidenceInv, JobInv, IntelligenceTypeOK, CreateJob
<1>2. PICK pc \in {"created", "done"} : request' = [request EXCEPT ![r].pc = pc]
  BY DEF CreateJob
<1>3. /\ request'[r].pc = pc /\ request'[r].document = u
      /\ \A t \in Requests : t # r => request'[t] = request[t]
      /\ request' \in [Requests -> [pc : {"waiting", "eligible", "created", "done"},
                                    document : Uploads \cup {"none"}]]
      /\ \A t \in Requests : request'[t].pc \in {"eligible", "created"} =>
                               request'[t].document \in Uploads
  BY <1>1, <1>2 DEF EvidenceInv, JobInv, IntelligenceTypeOK
<1>4. UNCHANGED messages
  BY DEF CreateJob
<1>5. CASE NewKey(u)
  <2>1. /\ jobs[u] = "none" /\ documents[u] = "READY_FOR_OCR" /\ messages[u].pc = "absent"
        /\ \A t \in Requests : ~Created(t, u)
    BY <1>1, <1>5 DEF NewKey, CreateJob, EvidenceInv, JobInv, JobsInStep
  <2>2. /\ jobs' = [jobs EXCEPT ![u] = "QUEUED"]
        /\ documents' = [documents EXCEPT ![u] = "OCR_QUEUED"]
    BY <1>1, <1>5 DEF CreateJob
  <2>3. /\ jobs'[u] = "QUEUED" /\ documents'[u] = "OCR_QUEUED"
        /\ \A v \in Uploads : v # u => jobs'[v] = jobs[v] /\ documents'[v] = documents[v]
    BY <2>2 DEF EvidenceInv, JobInv, IntelligenceTypeOK, UploadInv, IntakeTypeOK
  <2>4. IntelligenceTypeOK'
    BY <1>3, <1>4, <2>2 DEF EvidenceInv, JobInv, IntelligenceTypeOK
  <2>5. JobsInStep'
    BY <1>3, <1>4, <2>1, <2>3 DEF EvidenceInv, JobInv, JobsInStep, InStep, Created
  <2>6. UploadInv' /\ CoverageInv'
    BY <2>1, <2>2, CasesUnchanged DEF Others, ScannedClean
  <2>7. NoneGoesBack
    BY <2>1, <2>3 DEF NoneGoesBack, Progress
  <2> QED
    BY <2>4, <2>5, <2>6, <2>7 DEF EvidenceInv, JobInv
<1>6. CASE ~NewKey(u)
  <2>1. UNCHANGED <<documents, jobs>> /\ pc = "done"
    BY <1>1, <1>3, <1>6 DEF CreateJob, EvidenceInv, JobInv, IntelligenceTypeOK
  <2>2. IntelligenceTypeOK'
    BY <1>3, <1>4, <2>1 DEF EvidenceInv, JobInv, IntelligenceTypeOK
  <2>3. JobsInStep'
    BY <1>3, <1>4, <2>1 DEF EvidenceInv, JobInv, JobsInStep, Created
  <2>4. UploadInv' /\ CoverageInv'
    BY <2>1, CasesUnchanged DEF Others, ScannedClean
  <2>5. NoneGoesBack
    BY <2>1, ProgressIsInteger DEF NoneGoesBack
  <2> QED
    BY <2>2, <2>3, <2>4, <2>5 DEF EvidenceInv, JobInv
<1> QED
  BY <1>5, <1>6

LEMMA StepDispatch ==
  ASSUME EvidenceInv, UNCHANGED Others, NEW r \in Requests, Dispatch(r)
  PROVE  EvidenceInv' /\ NoneGoesBack
<1>1. PICK u \in Uploads : u = request[r].document
  BY DEF EvidenceInv, JobInv, IntelligenceTypeOK, Dispatch
<1>2. /\ request'[r].pc = "done" /\ \A t \in Requests : t # r => request'[t] = request[t]
      /\ request' \in [Requests -> [pc : {"waiting", "eligible", "created", "done"},
                                    document : Uploads \cup {"none"}]]
      /\ \A t \in Requests : request'[t].pc \in {"eligible", "created"} =>
                               request'[t].document \in Uploads
  BY DEF Dispatch, EvidenceInv, JobInv, IntelligenceTypeOK
<1>3. UNCHANGED <<documents, jobs>>
  BY DEF Dispatch
<1>4. /\ jobs[u] = "QUEUED" /\ messages[u].pc = "absent" /\ messages[u].attempts = 0
      /\ \A t \in Requests : Created(t, u) => t = r
  BY <1>1 DEF Dispatch, Created, EvidenceInv, JobInv, JobsInStep
<1>5. /\ messages' \in [Uploads -> [pc : {"absent", "queued", "processing", "done"},
                                    attempts : 0..MaxAttempts]]
      /\ messages'[u].pc = "queued" /\ messages'[u].attempts = messages[u].attempts
      /\ \A v \in Uploads : v # u => messages'[v] = messages[v]
  BY <1>1 DEF Dispatch, EvidenceInv, JobInv, IntelligenceTypeOK
<1>6. IntelligenceTypeOK'
  BY <1>2, <1>3, <1>5 DEF EvidenceInv, JobInv, IntelligenceTypeOK
<1>7. JobsInStep'
  <2>1. 0 < MaxAttempts
    BY IntelligenceAssumption
  <2>2. JobsInStep
    BY DEF EvidenceInv, JobInv
  <2>3. \A t \in Requests, v \in Uploads : Created(t, v)' => Created(t, v) /\ t # r
    BY <1>2 DEF Created
  <2>4. ASSUME NEW v \in Uploads
        PROVE  /\ InStep(jobs[v], documents[v])'
               /\ messages'[v].pc = "queued" =>
                    jobs'[v] \in {"QUEUED", "PROCESSING"} /\ messages'[v].attempts < MaxAttempts
               /\ messages'[v].pc = "processing" => jobs'[v] = "PROCESSING"
               /\ jobs'[v] = "none" => messages'[v].pc = "absent"
               /\ messages'[v].pc = "absent" => messages'[v].attempts = 0
    <3>1. CASE v = u
      BY <1>3, <1>4, <1>5, <2>1, <2>2, <3>1 DEF JobsInStep, InStep
    <3>2. CASE v # u
      BY <1>3, <1>5, <2>2, <3>2 DEF JobsInStep, InStep
    <3> QED
      BY <3>1, <3>2
  <2>5. ASSUME NEW t \in Requests, NEW v \in Uploads
        PROVE  /\ request'[t].pc = "eligible" /\ request'[t].document = v /\ jobs'[v] = "none" =>
                    documents'[v] = "READY_FOR_OCR"
               /\ Created(t, v)' => jobs'[v] = "QUEUED" /\ messages'[v].pc = "absent"
    <3>1. request'[t].pc = "eligible" => request'[t] = request[t]
      BY <1>2
    <3>2. Created(t, v)' => v # u
      BY <1>4, <2>3
    <3> QED
      BY <1>3, <1>5, <2>2, <2>3, <3>1, <3>2 DEF JobsInStep
  <2>6. \A t, x \in Requests, v \in Uploads : Created(t, v)' /\ Created(x, v)' => t = x
    BY <2>2, <2>3 DEF JobsInStep
  <2> QED
    BY <2>4, <2>5, <2>6 DEF JobsInStep
<1>8. UploadInv' /\ CoverageInv'
  BY <1>3, CasesUnchanged DEF Others, ScannedClean
<1>9. NoneGoesBack
  BY <1>3, ProgressIsInteger DEF NoneGoesBack
<1> QED
  BY <1>6, <1>7, <1>8, <1>9 DEF EvidenceInv, JobInv

MessageState == [pc : {"absent", "queued", "processing", "done"}, attempts : 0..MaxAttempts]

\* What a task does to its document: the message, the job and the document of u
\* become n, j and d.
LEMMA TaskMoves ==
  ASSUME EvidenceInv, UNCHANGED Others, UNCHANGED request, NEW u \in Uploads,
         messages[u].pc \in {"queued", "processing"},
         NEW n \in MessageState, n.pc # "absent",
         NEW j \in {"PROCESSING", "COMPLETED", "FAILED", jobs[u]},
         NEW d \in ScannedClean,
         InStep(j, d), Progress(j) >= Progress(jobs[u]), Progress(d) >= Progress(documents[u]),
         n.pc = "queued" => j \in {"QUEUED", "PROCESSING"} /\ n.attempts < MaxAttempts,
         n.pc = "processing" => j = "PROCESSING",
         messages' = [messages EXCEPT ![u] = n],
         jobs' = [jobs EXCEPT ![u] = j],
         documents' = [documents EXCEPT ![u] = d]
  PROVE  EvidenceInv' /\ NoneGoesBack
<1>1. jobs[u] # "none" /\ documents[u] \in ScannedClean
  BY DEF EvidenceInv, JobInv, JobsInStep, InStep, IntelligenceTypeOK, ScannedClean
<1>2. /\ messages' \in [Uploads -> MessageState]
      /\ jobs' \in [Uploads -> {"none", "QUEUED", "PROCESSING", "COMPLETED", "FAILED"}]
  BY DEF EvidenceInv, JobInv, IntelligenceTypeOK, MessageState
<1>3. /\ messages'[u] = n /\ jobs'[u] = j /\ documents'[u] = d
      /\ \A v \in Uploads : v # u => /\ messages'[v] = messages[v]
                                     /\ jobs'[v] = jobs[v]
                                     /\ documents'[v] = documents[v]
  BY DEF EvidenceInv, JobInv, IntelligenceTypeOK, UploadInv, IntakeTypeOK
<1>4. IntelligenceTypeOK'
  BY <1>2 DEF EvidenceInv, JobInv, IntelligenceTypeOK, MessageState
<1>5. j # "none"
  BY <1>1
<1>6. \A r \in Requests : ~Created(r, u)
  BY DEF EvidenceInv, JobInv, JobsInStep
<1>7. JobsInStep'
  BY <1>1, <1>3, <1>5, <1>6 DEF EvidenceInv, JobInv, JobsInStep, Created, InStep
<1>8. UploadInv' /\ CoverageInv'
  BY <1>1, CasesUnchanged DEF Others
<1>9. NoneGoesBack
  BY <1>3, ProgressIsInteger DEF NoneGoesBack
<1> QED
  BY <1>4, <1>7, <1>8, <1>9 DEF EvidenceInv, JobInv

LEMMA StepTask ==
  ASSUME EvidenceInv, UNCHANGED Others, NEW u \in Uploads,
         Start(u) \/ TaskDies(u) \/ FailTerminally(u) \/ Retry(u) \/ Complete(u)
  PROVE  EvidenceInv' /\ NoneGoesBack
<1>1. /\ messages \in [Uploads -> MessageState]
      /\ jobs \in [Uploads -> {"none", "QUEUED", "PROCESSING", "COMPLETED", "FAILED"}]
      /\ documents \in [Uploads -> Unscanned \cup ScannedClean \cup {"none"}]
  BY DEF EvidenceInv, JobInv, IntelligenceTypeOK, UploadInv, IntakeTypeOK, MessageState
<1>2. messages[u].pc \in {"queued", "processing"} =>
        /\ documents[u] \in ScannedClean /\ InStep(jobs[u], documents[u])
        /\ messages[u].pc = "queued" => messages[u].attempts < MaxAttempts
        /\ messages[u].pc = "processing" => jobs[u] = "PROCESSING" /\ documents[u] = "OCR_PROCESSING"
  BY DEF EvidenceInv, JobInv, JobsInStep, InStep, IntelligenceTypeOK, ScannedClean
<1>3. MaxAttempts \in Nat
  BY IntelligenceAssumption
<1>4. CASE Start(u)
  <2> DEFINE n == [messages[u] EXCEPT !.pc = "processing", !.attempts = messages[u].attempts + 1]
  <2>1. messages[u].attempts + 1 \in 0..MaxAttempts
    BY <1>1, <1>2, <1>3, <1>4 DEF Start, MessageState
  <2>2. n \in MessageState /\ n.pc = "processing"
    BY <1>1, <2>1 DEF MessageState
  <2>3. messages' = [messages EXCEPT ![u] = n]
    BY <1>4 DEF Start
  <2> HIDE DEF n
  <2>4. /\ Progress("PROCESSING") >= Progress(jobs[u])
        /\ Progress("OCR_PROCESSING") >= Progress(documents[u])
        /\ InStep("PROCESSING", "OCR_PROCESSING")
    BY <1>2, <1>4 DEF Start, InStep, Progress
  <2>5. /\ jobs' = [jobs EXCEPT ![u] = "PROCESSING"]
        /\ documents' = [documents EXCEPT ![u] = "OCR_PROCESSING"]
        /\ UNCHANGED request /\ messages[u].pc = "queued"
    BY <1>4 DEF Start
  <2> QED
    BY <2>2, <2>3, <2>4, <2>5, TaskMoves DEF ScannedClean
<1>5. CASE TaskDies(u) \/ Retry(u)
  <2>1. PICK pc \in {"queued", "done"} :
          /\ messages' = [messages EXCEPT ![u].pc = pc]
          /\ pc = "queued" => messages[u].pc = "processing" /\ messages[u].attempts < MaxAttempts
    BY <1>5 DEF TaskDies, Retry
  <2> DEFINE n == [messages[u] EXCEPT !.pc = pc]
  <2>2. n \in MessageState /\ n.pc = pc /\ n.attempts = messages[u].attempts
    BY <1>1 DEF MessageState
  <2>3. messages' = [messages EXCEPT ![u] = n]
    BY <2>1
  <2> HIDE DEF n
  <2>4. /\ jobs' = [jobs EXCEPT ![u] = jobs[u]]
        /\ documents' = [documents EXCEPT ![u] = documents[u]]
        /\ UNCHANGED request /\ messages[u].pc \in {"queued", "processing"}
    BY <1>1, <1>5 DEF TaskDies, Retry
  <2>5. PICK j \in {"PROCESSING", "COMPLETED", "FAILED", jobs[u]}, d \in ScannedClean :
          j = jobs[u] /\ d = documents[u]
    BY <1>2, <2>4
  <2>6. /\ InStep(j, d) /\ Progress(j) >= Progress(jobs[u]) /\ Progress(d) >= Progress(documents[u])
        /\ n.pc = "queued" => j \in {"QUEUED", "PROCESSING"} /\ n.attempts < MaxAttempts
        /\ n.pc # "processing" /\ n.pc # "absent"
    BY <1>2, <2>1, <2>2, <2>4, <2>5, ProgressIsInteger
  <2>7. /\ jobs' = [jobs EXCEPT ![u] = j]
        /\ documents' = [documents EXCEPT ![u] = d]
    BY <2>4, <2>5
  <2> QED
    BY <2>2, <2>3, <2>4, <2>6, <2>7, TaskMoves
<1>6. CASE FailTerminally(u) \/ Complete(u)
  <2>1. PICK j \in {"COMPLETED", "FAILED"}, d \in {"REVIEW_REQUIRED", "OCR_FAILED"} :
          InStep(j, d) /\ Finish(u, j, d)
    BY <1>6 DEF FailTerminally, Complete, InStep
  <2> DEFINE n == [messages[u] EXCEPT !.pc = "done"]
  <2>2. n \in MessageState /\ n.pc = "done"
    BY <1>1 DEF MessageState
  <2>3. messages' = [messages EXCEPT ![u] = n]
    BY <2>1 DEF Finish
  <2> HIDE DEF n
  <2>4. Progress(j) >= Progress(jobs[u]) /\ Progress(d) >= Progress(documents[u])
    BY <2>1, ProgressIsInteger DEF Progress
  <2>5. /\ jobs' = [jobs EXCEPT ![u] = j] /\ documents' = [documents EXCEPT ![u] = d]
        /\ UNCHANGED request /\ messages[u].pc = "processing"
    BY <1>6, <2>1 DEF Finish, FailTerminally, Complete
  <2> QED
    BY <2>1, <2>2, <2>3, <2>4, <2>5, TaskMoves DEF ScannedClean
<1> QED
  BY <1>4, <1>5, <1>6

-----------------------------------------------------------------------------
(*                               Theorems                                  *)

LEMMA StepEnrich ==
  ASSUME EvidenceInv, NEW t \in Tasks, Enrich(t)
  PROVE  EvidenceInv'
<1>1. UNCHANGED <<intakeVars, intelligenceVars>>
  BY DEF Enrich
<1>2. UNCHANGED <<upload, documents, objects, scans, evaluations, coverage>>
  BY <1>1 DEF intakeVars
<1>3. /\ CaseTypeOK'
      /\ \A c \in Cases : processingState'[c] = "EVIDENCE_READY" =>
                            processingState[c] = "EVIDENCE_READY"
  BY DEF Enrich, TriggerEnrichment, EnrichmentStep, EnrichmentFails, Load, MarkEnriching,
         ProviderUnavailable, PaymentMissing, PaymentFound, Store, SetState, ProcessingState,
         EvidenceInv, CoverageInv, CaseTypeOK
<1>4. UploadInv'
  BY <1>2, UploadFrame DEF EvidenceInv, UploadInv, IntakeTypeOK, RowsKept
<1>5. JobInv'
  BY <1>1, <1>2, JobFrame DEF EvidenceInv, Early
<1>6. CoverageInv'
  BY <1>2, <1>3, CoverageFrame DEF EvidenceInv, CleanKept
<1> QED
  BY <1>4, <1>5, <1>6 DEF EvidenceInv

LEMMA StepUpload ==
  ASSUME EvidenceInv, NEW u \in Uploads, Upload(u)
  PROVE  EvidenceInv'
BY StepCheckUpload, StepMove, StepCommitDocument, StepScan DEF Upload

LEMMA StepEvaluate ==
  ASSUME EvidenceInv, NEW e \in Evaluators, Evaluate(e)
  PROVE  EvidenceInv'
BY StepOpenOrClose, StepReadDocuments, StepWriteCoverage DEF Evaluate

LEMMA StepProcess ==
  ASSUME EvidenceInv, Process
  PROVE  EvidenceInv' /\ NoneGoesBack
<1>1. UNCHANGED Others
  BY DEF Process, Others
<1>2. ASSUME NEW r \in Requests, AbandonRequest(r)
      PROVE  EvidenceInv' /\ NoneGoesBack
  <2>1. request[r].document \in Uploads
    BY <1>2 DEF AbandonRequest, EvidenceInv, JobInv, IntelligenceTypeOK
  <2> QED
    BY <1>1, <1>2, <2>1, StepRequest
<1> QED
  BY <1>1, <1>2, StepRequest, StepCreateJob, StepDispatch, StepTask DEF Process, IntelligenceStep

LEMMA StepKeepsInv ==
  ASSUME EvidenceInv, [Next]_vars
  PROVE  EvidenceInv'
<1>1. CASE UNCHANGED vars
  BY <1>1 DEF vars, intakeVars, intelligenceVars, EvidenceInv, UploadInv, JobInv, CoverageInv,
              IntakeTypeOK, Uploaded, ObjectOfDocument, IntelligenceTypeOK, JobsInStep, Created,
              CaseTypeOK, FindingsStand, Found, ReadyIsCovered
<1> QED
  BY <1>1, StepUpload, StepEvaluate, StepProcess, StepEnrich DEF Next

\* The inductive invariant holds in every reachable state.
THEOREM EvidenceInvariance == Spec => []EvidenceInv
<1>1. EvidenceInv /\ [Next]_vars => EvidenceInv'
  BY StepKeepsInv
<1> QED
  BY <1>1, EvidenceInit, PTL DEF Spec

\* A case is EVIDENCE_READY only with a clean document of each required type,
\* whoever uploads, scans, lists, processes and enriches at once.
THEOREM ReadyMeansCovered == Spec => []ReadyIsCovered
<1>1. EvidenceInv => ReadyIsCovered
  BY DEF EvidenceInv, CoverageInv
<1> QED
  BY <1>1, EvidenceInvariance, PTL

\* A case has a content once, and a document has its object.
THEOREM DocumentsHaveObjects == Spec => []ObjectOfDocument
<1>1. EvidenceInv => ObjectOfDocument
  BY DEF EvidenceInv, UploadInv
<1> QED
  BY <1>1, EvidenceInvariance, PTL

\* Neither a document nor its job is ever sent back.
THEOREM NothingGoesBack == Spec => ProcessingMovesOn
<1> DEFINE A == \A u \in Uploads :
       /\ Progress(documents'[u]) >= Progress(documents[u])
       /\ Progress(jobs'[u]) >= Progress(jobs[u])
       /\ jobs'[u] # "none" =>
            documents'[u] \in CASE jobs'[u] = "QUEUED"     -> {"OCR_QUEUED"}
                                [] jobs'[u] = "PROCESSING" -> {"OCR_PROCESSING"}
                                [] jobs'[u] = "FAILED"     -> {"OCR_FAILED"}
                                [] OTHER                   -> {"REVIEW_REQUIRED", "EXTRACTED"}
<1>1. ASSUME EvidenceInv, [Next]_vars
      PROVE  NoneGoesBack
  <2>1. ASSUME UNCHANGED <<documents, jobs>>
        PROVE  NoneGoesBack
    BY <2>1, ProgressIsInteger DEF NoneGoesBack
  <2>2. ASSUME NEW u \in Uploads, CommitDocument(u), UNCHANGED jobs
        PROVE  NoneGoesBack
    BY <1>1, <2>2, ProgressIsInteger
       DEF NoneGoesBack, Progress, CommitDocument, EvidenceInv, UploadInv, Uploaded, IntakeTypeOK
  <2>3. ASSUME NEW u \in Uploads, Scan(u), UNCHANGED jobs
        PROVE  NoneGoesBack
    BY <1>1, <2>3, ProgressIsInteger
       DEF NoneGoesBack, Progress, Scan, EvidenceInv, UploadInv, IntakeTypeOK
  <2>4. CASE Process
    BY <1>1, <2>4, StepProcess
  <2>5. ASSUME NEW u \in Uploads, Upload(u)
        PROVE  NoneGoesBack
    BY <2>1, <2>2, <2>3, <2>5
       DEF Upload, intelligenceVars, CheckUpload, StoreObject, StoreFails, Compensate, SendScan,
           AbandonUpload, GiveUpScan
  <2>6. ASSUME NEW e \in Evaluators, Evaluate(e)
        PROVE  NoneGoesBack
    BY <2>1, <2>6 DEF Evaluate, intelligenceVars, ListEvidence, ReadDocuments, WriteCoverage,
                      EvaluationFails
  <2>7. ASSUME NEW t \in Tasks, Enrich(t)
        PROVE  NoneGoesBack
    BY <2>1, <2>7 DEF Enrich, intakeVars, intelligenceVars
  <2>8. CASE UNCHANGED vars
    BY <2>1, <2>8 DEF vars, intakeVars, intelligenceVars
  <2> QED
    BY <1>1, <2>4, <2>5, <2>6, <2>7, <2>8 DEF Next
<1>2. ASSUME EvidenceInv'
      PROVE  \A u \in Uploads : jobs'[u] # "none" =>
            documents'[u] \in CASE jobs'[u] = "QUEUED"     -> {"OCR_QUEUED"}
                                [] jobs'[u] = "PROCESSING" -> {"OCR_PROCESSING"}
                                [] jobs'[u] = "FAILED"     -> {"OCR_FAILED"}
                                [] OTHER                   -> {"REVIEW_REQUIRED", "EXTRACTED"}
  BY <1>2 DEF EvidenceInv, JobInv, JobsInStep, InStep, IntelligenceTypeOK
<1>3. EvidenceInv /\ [Next]_vars => [A]_vars
  BY <1>1, <1>2, StepKeepsInv DEF NoneGoesBack
<1> QED
  BY <1>3, EvidenceInvariance, PTL DEF Spec, ProcessingMovesOn

-----------------------------------------------------------------------------
(*                             The types                                   *)

LEMMA EnrichmentStepKeepsInv ==
  ASSUME EnrichInv, ReportInv, [Next]_vars
  PROVE  EnrichInv' /\ ReportInv'
<1>1. errors \subseteq Cases
  BY DEF ReportInv, RestType
<1>2. UNCHANGED stored => ReportInv'
  BY <1>1, ReportUnchanged DEF stored
<1>3. CASE UNCHANGED enrichmentVars
  BY <1>2, <1>3, EnrichUnchanged DEF enrichmentVars
<1>4. ASSUME NEW t \in Tasks, NEW c \in Cases, TriggerEnrichment(t, c)
      PROVE  EnrichInv' /\ ReportInv'
  BY <1>2, <1>4, EnrichEnqueue DEF TriggerEnrichment
<1>5. ASSUME NEW t \in Tasks, Enrich(t)
      PROVE  EnrichInv' /\ ReportInv'
  BY <1>4, <1>5, EnrichmentKeepsInv DEF Enrich
<1>6. UNCHANGED enrichmentVars \/ \E t \in Tasks : Enrich(t)
  BY DEF Next, Upload, Evaluate, Process, vars
<1> QED
  BY <1>3, <1>5, <1>6

\* What is invariant of enrichments is so next to uploads and evaluations too.
THEOREM EnrichmentInvariance == Spec => [](EnrichInv /\ ReportInv)
<1>1. Init => EnrichInv /\ ReportInv
  BY EnrichInit, ReportInit DEF Init
<1>2. EnrichInv /\ ReportInv /\ [Next]_vars => (EnrichInv /\ ReportInv)'
  BY EnrichmentStepKeepsInv
<1> QED
  BY <1>1, <1>2, PTL DEF Spec

\* Whoever uploads, scans, lists, processes and enriches at once, the rows are
\* what their columns may hold, and no message is processed too often.
THEOREM EvidenceTypeCorrect == Spec => []TypeOK
<1>1. EvidenceInv /\ EnrichInv /\ ReportInv => TypeOK
  BY EnrichmentTyped DEF EvidenceInv, UploadInv, JobInv, CoverageInv, TypeOK
<1> QED
  BY <1>1, EvidenceInvariance, EnrichmentInvariance, PTL

-----------------------------------------------------------------------------
(*                          The assessment                                 *)

Documented == {u \in Uploads : documents[u] # "none"}

FiniteRows == IsFiniteSet(Documented)

\* A step writes the row of one document at most, so there go on being finitely
\* many, as there were at the start.
LEMMA RowsAreFinite ==
  ASSUME EvidenceInv, FiniteRows, [Next]_vars
  PROVE  FiniteRows'
<1> DEFINE WritesOne == \E u : \A v \in Uploads : v # u => documents'[v] = documents[v]
<1>1. documents \in [Uploads -> Unscanned \cup ScannedClean \cup {"none"}]
  BY DEF EvidenceInv, UploadInv, IntakeTypeOK
<1>2. UNCHANGED documents => WritesOne
  OBVIOUS
<1>3. ASSUME NEW u \in Uploads, CommitDocument(u) \/ Scan(u)
      PROVE  WritesOne
  BY <1>1, <1>3 DEF CommitDocument, Scan
<1>4. ASSUME NEW u \in Uploads,
             Start(u) \/ TaskDies(u) \/ FailTerminally(u) \/ Retry(u) \/ Complete(u)
      PROVE  WritesOne
  BY <1>1, <1>4 DEF Start, TaskDies, FailTerminally, Retry, Complete, Finish
<1>5. ASSUME NEW r \in Requests, CreateJob(r)
      PROVE  WritesOne
  BY <1>1, <1>5 DEF CreateJob
<1> HIDE DEF WritesOne
<1>6. Process => WritesOne
  BY <1>2, <1>4, <1>5
     DEF Process, IntelligenceStep, RequestProcessing, Dispatch, AbandonRequest
<1>7. UNCHANGED vars \/ (\E e \in Evaluators : Evaluate(e)) => WritesOne
  BY <1>2 DEF vars, intakeVars, Evaluate, ListEvidence, ReadDocuments, WriteCoverage,
                    EvaluationFails
<1>8. (\E t \in Tasks : Enrich(t)) => WritesOne
  BY <1>2 DEF Enrich, intakeVars
<1>9. (\E u \in Uploads : Upload(u)) => WritesOne
  BY <1>2, <1>3 DEF Upload, CheckUpload, StoreObject, StoreFails, Compensate, SendScan,
                          AbandonUpload, GiveUpScan
<1>10. WritesOne
  BY <1>6, <1>7, <1>8, <1>9 DEF Next
<1>11. PICK u : \A v \in Uploads : v # u => documents'[v] = documents[v]
  BY <1>10 DEF WritesOne
<1>12. IsFiniteSet(Documented \cup {u})
  BY FS_AddElement DEF FiniteRows
<1>13. Documented' \subseteq Documented \cup {u}
  BY <1>11 DEF Documented
<1> QED
  BY <1>12, <1>13, FS_Subset DEF FiniteRows

LEMMA MaxIsLast ==
  ASSUME NEW n \in Nat, NEW s \in SUBSET (1..n), s # {}
  PROVE  Max(s) \in s
<1> DEFINE T == {n - i : i \in s}
<1>1. T \subseteq Nat /\ T # {}
  <2>1. PICK x \in s : TRUE
    OBVIOUS
  <2>2. n - x \in T
    OBVIOUS
  <2>3. \A i \in s : n - i \in Nat
    OBVIOUS
  <2> QED
    BY <2>2, <2>3
<1>2. PICK d \in T : \A e \in T : d <= e
  BY <1>1, LeastNumber
<1>3. PICK x \in s : d = n - x
  BY <1>2
<1>4. \A y \in s : x >= y
  <2> SUFFICES ASSUME NEW y \in s PROVE x >= y
    OBVIOUS
  <2>1. n - x <= n - y
    BY <1>2, <1>3
  <2> QED
    BY <2>1
<1> QED
  BY <1>4 DEF Max

\* One turn of the loop makes the best of what came before and the document.
LEMMA WeighIsBest ==
  ASSUME NEW A, NEW status
  PROVE  Weigh(BestOf(A), status) = BestOf(A \cup {status})
BY DEF Weigh, BestOf, Unusable

\* The recursion FoldLeft is made of.
IsFold(f, statuses, D) ==
  f = [s \in SUBSET D |-> IF s = {} THEN "MISSING"
                           ELSE LET x == Max(s) IN Weigh(f[s \ {x}], statuses[x])]

\* The order in which the documents are loaded and their number do not matter.
LEMMA AssessmentIsBestOf ==
  ASSUME NEW n \in Nat, NEW statuses, DOMAIN statuses = 1..n
  PROVE  Assessment(statuses) = BestOf({statuses[i] : i \in 1..n})
<1> DEFINE D == 1..n
           f == [s \in SUBSET D |-> BestOf({statuses[i] : i \in s})]
           g == CHOOSE h : IsFold(h, statuses, D)
<1>1. IsFiniteSet(D)
  BY FS_Interval
<1>2. \A s \in SUBSET D : s # {} => Max(s) \in s
  BY MaxIsLast
<1>3. ASSUME NEW s \in SUBSET D, s # {}, NEW x \in s
      PROVE  f[s] = Weigh(f[s \ {x}], statuses[x])
  <2>1. {statuses[i] : i \in s} = {statuses[i] : i \in s \ {x}} \cup {statuses[x]}
    OBVIOUS
  <2>2. f[s] = BestOf({statuses[i] : i \in s}) /\ f[s \ {x}] = BestOf({statuses[i] : i \in s \ {x}})
    OBVIOUS
  <2> HIDE DEF f
  <2> QED
    BY <2>1, <2>2, WeighIsBest
<1>4. f[{}] = "MISSING"
  BY DEF BestOf
<1>5. \A s \in SUBSET D : f[s] = IF s = {} THEN "MISSING"
                                   ELSE LET x == Max(s) IN Weigh(f[s \ {x}], statuses[x])
  BY <1>2, <1>3, <1>4
<1>6. f = [s \in SUBSET D |-> f[s]]
  OBVIOUS
<1>7. f[D] = BestOf({statuses[i] : i \in D})
  OBVIOUS
<1> HIDE DEF f
<1>8. IsFold(f, statuses, D)
  BY <1>5, <1>6, Zenon DEF IsFold
<1>9. IsFold(g, statuses, D)
  BY <1>8
<1>10. Assessment(statuses) = g[D]
  BY Zenon DEF Assessment, FoldLeft, MapThenFoldSet, IsFold
<1> HIDE DEF g
<1>11. \A s \in SUBSET D : g[s] = IF s = {} THEN "MISSING"
                                    ELSE LET x == Max(s) IN Weigh(g[s \ {x}], statuses[x])
  BY <1>9, Zenon DEF IsFold
<1> HIDE DEF D
<1>12. \A s \in SUBSET D : g[s] = f[s]
  <2> DEFINE T == {s \in SUBSET D : g[s] # f[s]}
  <2>1. SUFFICES ASSUME T # {} PROVE FALSE
    OBVIOUS
  <2>2. PICK s \in T : \A x \in s : s \ {x} \notin T
    BY <1>1, <2>1, SmallestSet
  <2>3. s # {}
    BY <1>5, <1>11, <2>2
  <2>4. PICK x \in s : x = Max(s)
    BY <1>2, <2>2, <2>3
  <2>5. g[s \ {x}] = f[s \ {x}]
    BY <2>2
  <2>6. g[s] = Weigh(g[s \ {x}], statuses[x]) /\ f[s] = Weigh(f[s \ {x}], statuses[x])
    BY <1>5, <1>11, <2>2, <2>3, <2>4
  <2> QED
    BY <2>2, <2>5, <2>6
<1>13. g[D] = f[D]
  BY <1>12
<1> QED
  BY <1>7, <1>10, <1>13 DEF D

LEMMA BestIsTaken ==
  ASSUME FiniteRows
  PROVE  AssessmentIsBest
<1> SUFFICES ASSUME NEW c \in Cases, NEW t \in Types, NEW loaded,
                    loaded = {u \in Uploads : CaseOf[u] = c /\ TypeOf[u] = t /\ Loaded(documents[u])},
                    NEW order \in SetToSeqs(loaded)
             PROVE  Assessment([i \in DOMAIN order |-> documents[order[i]]])
                      = BestOf({documents[u] : u \in loaded})
  BY DEF AssessmentIsBest
<1>1. IsFiniteSet(loaded)
  <2>1. loaded \subseteq Documented
    BY DEF Loaded, Documented
  <2> QED
    BY <2>1, FS_Subset DEF FiniteRows
<1>2. PICK n \in Nat : n = Cardinality(loaded)
  BY <1>1, FS_CardinalityType
<1>3. order \in Injection(1..n, loaded)
  BY <1>2 DEF SetToSeqs, Injection, IsInjective
<1>4. Cardinality(1..n) = Cardinality(loaded)
  BY <1>2, FS_Interval
<1>5. order \in Surjection(1..n, loaded)
  BY <1>1, <1>3, <1>4, FS_Injection
<1>6. DOMAIN order = 1..n /\ loaded = {order[i] : i \in 1..n}
  BY <1>5 DEF Surjection
<1> DEFINE statuses == [i \in DOMAIN order |-> documents[order[i]]]
<1>7. DOMAIN statuses = 1..n /\ {statuses[i] : i \in 1..n} = {documents[u] : u \in loaded}
  BY <1>6
<1> HIDE DEF statuses
<1>8. Assessment(statuses) = BestOf({documents[u] : u \in loaded})
  BY <1>7, AssessmentIsBestOf
<1> QED
  BY <1>8 DEF statuses

\* A validation run makes the best of the documents of a type, in whatever order
\* they are loaded and however many there are.
THEOREM BestIsAssessed == Spec => []AssessmentIsBest
<1>1. Init => FiniteRows
  <2> SUFFICES ASSUME Init PROVE IsFiniteSet(Documented)
    BY DEF FiniteRows
  <2>1. Documented \subseteq Seeded
    BY DEF Init, IntakeInit, Documented
  <2> QED
    BY <2>1, SeededAssumption, FS_Subset
<1>2. EvidenceInv /\ FiniteRows /\ [Next]_vars => FiniteRows'
  BY RowsAreFinite
<1>3. FiniteRows => AssessmentIsBest
  BY BestIsTaken
<1> QED
  BY <1>1, <1>2, <1>3, EvidenceInvariance, PTL DEF Spec
=============================================================================
