---------------------------- MODULE EvidenceIntake ----------------------------
(***************************************************************************)
(* The documents of a case (src/backend/app/services/evidence.py,          *)
(* scanner.py, requirements.py): their upload, the malware scan, and the   *)
(* decision that what the merchant must hand in is there.                  *)
(*                                                                         *)
(* An upload first stores an object and then commits a row that names it;  *)
(* a Celery message has the document scanned; the scan and every request   *)
(* that lists the evidence then evaluate the coverage.  An evaluation      *)
(* reads the case, then the documents, and writes the case later.          *)
(***************************************************************************)
EXTENDS Case

CONSTANTS
  Uploads,      \* requests; the document and the object of one have its name
  Readers,      \* requests that list the evidence of a case
  CaseOf,       \* the case of an upload or of a reader
  ContentOf,    \* the sha256 of what is uploaded
  TypeOf,       \* its evidence_type
  Required      \* the REQUIRED types for the reason code of the dispute

ASSUME EvidenceAssumption == CaseOf \in [Uploads \cup Readers -> Cases]

VARIABLES
  upload,      \* progress of each upload and the state of the case it read
  documents,   \* processing_status of each document, "none" before the row
  objects,     \* the objects in the object store
  scans,       \* the message for the scan of each document
  evaluations, \* progress of each evaluation and what it read
  coverage     \* CaseEvidenceStatus: the required types found, or NoRow

intakeVars == <<upload, documents, objects, scans, evaluations, coverage>>

Evaluators == Uploads \cup Readers

Unscanned == {"QUARANTINED", "REJECTED", "SCAN_FAILED"}
ScannedClean == {"READY_FOR_OCR", "OCR_QUEUED", "OCR_PROCESSING", "EXTRACTED",
                 "REVIEW_REQUIRED", "OCR_FAILED"}

Types == {TypeOf[u] : u \in Uploads}
NoRow == {"none"}
NoEvaluation == [pc |-> "idle", seen |-> "ABSENT", available |-> {}, row |-> FALSE]

IntakeTypeOK ==
  /\ upload \in [Uploads -> [pc : {"waiting", "checked", "stored", "committed", "done", "failed"},
                             seen : ProcessingState \cup {"ABSENT"}]]
  /\ documents \in [Uploads -> Unscanned \cup ScannedClean \cup {"none"}]
  /\ objects \subseteq Uploads
  /\ scans \in [Uploads -> {"absent", "queued", "done"}]
  /\ evaluations \in [Evaluators -> [pc : {"idle", "open", "read"},
                        seen : ProcessingState \cup {"ABSENT"},
                        available : SUBSET Types, row : BOOLEAN]]
  /\ coverage \in [Cases -> {NoRow} \cup SUBSET Types]

\* The documents in "seeded" are there from the start, as the rows, without an
\* object, that the benchmark generator writes: nothing else ever makes a
\* document EXTRACTED.
IntakeInit(seeded) ==
  /\ upload = [u \in Uploads |->
       [pc |-> IF u \in seeded THEN "done" ELSE "waiting", seen |-> "ABSENT"]]
  /\ documents = [u \in Uploads |-> IF u \in seeded THEN "EXTRACTED" ELSE "none"]
  /\ objects = {}
  /\ scans = [u \in Uploads |-> "absent"]
  /\ evaluations = [e \in Evaluators |-> NoEvaluation]
  /\ coverage = [c \in Cases |-> NoRow]

-----------------------------------------------------------------------------
Goto(u, pc) == upload' = [upload EXCEPT ![u].pc = pc]

Same(u, v) == CaseOf[u] = CaseOf[v] /\ ContentOf[u] = ContentOf[v]

\* UNIQUE (case_id, sha256).
Duplicate(u) == \E v \in Uploads \ {u} : Same(u, v) /\ documents[v] # "none"

\* The case is read here and not again.
CheckUpload(u) ==
  /\ upload[u].pc = "waiting" /\ processingState[CaseOf[u]] # "ABSENT"
  /\ upload' = [upload EXCEPT ![u] =
       [pc |-> IF Duplicate(u) THEN "failed" ELSE "checked", seen |-> processingState[CaseOf[u]]]]
  /\ UNCHANGED <<processingState, documents, objects, scans, evaluations, coverage>>

StoreObject(u) ==
  /\ upload[u].pc = "checked"
  /\ objects' = objects \cup {u}
  /\ Goto(u, "stored")
  /\ UNCHANGED <<processingState, documents, scans, evaluations, coverage>>

\* The store reports an error, with the object in it or not.
StoreFails(u) ==
  /\ upload[u].pc = "checked"
  /\ objects' \in {objects, objects \cup {u}}
  /\ Goto(u, "failed")
  /\ UNCHANGED <<processingState, documents, scans, evaluations, coverage>>

\* "Advance Case State if it's ENRICHED" in the request's own reading of it.
AdvancesCase(u) == upload[u].pc = "stored" /\ upload[u].seen = "ENRICHED"

CommitDocument(u) ==
  /\ upload[u].pc = "stored" /\ ~Duplicate(u)
  /\ documents' = [documents EXCEPT ![u] = "QUARANTINED"]
  /\ IF AdvancesCase(u) THEN SetState(CaseOf[u], "AWAITING_EVIDENCE")
                        ELSE UNCHANGED processingState
  /\ Goto(u, "committed")
  /\ UNCHANGED <<objects, scans, evaluations, coverage>>

\* Mutant: the key of the object is derived from its content.
RemovedByContent(u) == {v \in Uploads : Same(u, v)}

Removed(u) == {u}

\* The row is refused or, when it is read back after the commit, the database
\* is gone: the compensation deletes the object either way, if the store lets it.
Compensate(u) ==
  /\ upload[u].pc \in {"stored", "committed"}
  /\ objects' \in {objects, objects \ Removed(u)}
  /\ Goto(u, "failed")
  /\ UNCHANGED <<processingState, documents, scans, evaluations, coverage>>

SendScan(u) ==
  /\ upload[u].pc = "committed"
  /\ scans' = [scans EXCEPT ![u] = "queued"]
  /\ Goto(u, "done")
  /\ UNCHANGED <<processingState, documents, objects, evaluations, coverage>>

\* The API process dies, or the broker does not answer after the commit.
AbandonUpload(u) ==
  /\ upload[u].pc \in {"checked", "stored", "committed"}
  /\ Goto(u, "done")
  /\ UNCHANGED <<processingState, documents, objects, scans, evaluations, coverage>>

-----------------------------------------------------------------------------
\* Coverage: the state of the case, then the documents, then the row.
Open(e) ==
  evaluations' = [evaluations EXCEPT ![e] =
    [pc |-> "open", seen |-> processingState[CaseOf[e]], available |-> {}, row |-> FALSE]]

Close(e) == evaluations' = [evaluations EXCEPT ![e] = NoEvaluation]

ListEvidence(r) ==
  /\ evaluations[r].pc = "idle" /\ processingState[CaseOf[r]] # "ABSENT"
  /\ Open(r)
  /\ UNCHANGED <<processingState, upload, documents, objects, scans, coverage>>

\* Mutant: documents that still wait for their scan are counted.
AvailableUnscanned(c) ==
  {TypeOf[u] : u \in {v \in Uploads : CaseOf[v] = c /\ documents[v] \in {"QUARANTINED", "READY_FOR_OCR"}}}

Available(c) ==
  {TypeOf[u] : u \in {v \in Uploads : CaseOf[v] = c /\ documents[v] = "READY_FOR_OCR"}}

ReadDocuments(e) ==
  LET c == CaseOf[e] IN
  /\ evaluations[e].pc = "open"
  /\ evaluations' = [evaluations EXCEPT ![e].pc = "read",
                                        ![e].available = Available(c) \cap Required,
                                        ![e].row = coverage[c] # NoRow]
  /\ UNCHANGED <<processingState, upload, documents, objects, scans, coverage>>

Covered(e) ==
  /\ evaluations[e].pc = "read"
  /\ evaluations[e].available = Required
  /\ evaluations[e].seen \in {"AWAITING_EVIDENCE", "ENRICHED"}

\* Two first evaluations insert the same row: case_id is UNIQUE.
RowTaken(e) == ~evaluations[e].row /\ coverage[CaseOf[e]] # NoRow

WriteCoverage(e) ==
  /\ evaluations[e].pc = "read" /\ ~RowTaken(e)
  /\ coverage' = [coverage EXCEPT ![CaseOf[e]] = evaluations[e].available]
  /\ IF Covered(e) THEN SetState(CaseOf[e], "EVIDENCE_READY") ELSE UNCHANGED processingState
  /\ Close(e)
  /\ UNCHANGED <<upload, documents, objects, scans>>

\* The INSERT is refused, the database fails, the process dies.  The scan task
\* is retried, finds that the document left quarantine and skips the rest.
EvaluationFails(e) ==
  /\ evaluations[e].pc # "idle"
  /\ Close(e)
  /\ UNCHANGED <<processingState, upload, documents, objects, scans, coverage>>

-----------------------------------------------------------------------------
\* The deterministic scanner knows contents by their hash.
Scan(u) ==
  /\ scans[u] = "queued"
  /\ scans' = [scans EXCEPT ![u] = "done"]
  /\ IF documents[u] # "QUARANTINED"
     THEN UNCHANGED <<documents, evaluations>>
     ELSE \/ /\ documents' = [documents EXCEPT ![u] = "READY_FOR_OCR"]
             /\ Open(u)
          \/ /\ \E s \in {"REJECTED", "SCAN_FAILED"} : documents' = [documents EXCEPT ![u] = s]
             /\ UNCHANGED evaluations
  /\ UNCHANGED <<processingState, upload, objects, coverage>>

\* The last retry fails or the worker is killed; a failure that is retried
\* leaves everything as it was.
GiveUpScan(u) ==
  /\ scans[u] = "queued"
  /\ scans' = [scans EXCEPT ![u] = "done"]
  /\ UNCHANGED <<processingState, upload, documents, objects, evaluations, coverage>>
=============================================================================
