------------------------- MODULE DocumentIntelligence -------------------------
(***************************************************************************)
(* The processing of scanned documents (src/backend/app/services/          *)
(* intelligence.py, worker/tasks.py process_evidence_document_task).       *)
(*                                                                         *)
(* A request creates the one job that a document can have: its key, made of *)
(* the document and the version of the pipeline, is UNIQUE.  The name      *)
(* storage_client, which the task uses for every page of a document, is    *)
(* not defined in its module: a document that has a page raises a NameError *)
(* and is retried; only one without a page ever completes, for review.     *)
(***************************************************************************)
EXTENDS EvidenceIntake

CONSTANTS
  Requests,     \* requests to process a document
  HasPages,     \* the documents that have a page
  MaxAttempts   \* 1 + max_retries of process_evidence_document_task

ASSUME IntelligenceAssumption == MaxAttempts \in Nat \ {0} /\ HasPages \subseteq Uploads

VARIABLES
  request,   \* progress of each request and its document
  jobs,      \* status of the job of each document, "none" before the row
  messages   \* the message for the processing of each document

intelligenceVars == <<request, jobs, messages>>

NoRequest == [pc |-> "waiting", document |-> "none"]

IntelligenceTypeOK ==
  /\ request \in [Requests -> [pc : {"waiting", "eligible", "created", "done"},
                               document : Uploads \cup {"none"}]]
  /\ \A r \in Requests : request[r].pc \in {"eligible", "created"} => request[r].document \in Uploads
  /\ jobs \in [Uploads -> {"none", "QUEUED", "PROCESSING", "COMPLETED", "FAILED"}]
  /\ messages \in [Uploads -> [pc : {"absent", "queued", "processing", "done"}, attempts : 0..MaxAttempts]]

IntelligenceInit ==
  /\ request = [r \in Requests |-> NoRequest]
  /\ jobs = [u \in Uploads |-> IF documents[u] = "EXTRACTED" THEN "COMPLETED" ELSE "none"]
  /\ messages = [u \in Uploads |-> [pc |-> "absent", attempts |-> 0]]

-----------------------------------------------------------------------------
Eligible(u) ==
  /\ jobs[u] = "none"
  /\ documents[u] \in {"READY_FOR_OCR", "OCR_FAILED"}
  /\ processingState[CaseOf[u]] \in {"AWAITING_EVIDENCE", "EVIDENCE_READY"}

\* A request for another document is refused or gets the job there is, whatever
\* became of it: it changes nothing.
RequestProcessing(r, u) ==
  /\ request[r].pc = "waiting" /\ Eligible(u)
  /\ request' = [request EXCEPT ![r] = [pc |-> "eligible", document |-> u]]
  /\ UNCHANGED <<documents, jobs, messages>>

\* Mutant: idempotency_key is not UNIQUE.
AnyKey(u) == TRUE

NewKey(u) == jobs[u] = "none"

CreateJob(r) ==
  LET u == request[r].document IN
  /\ request[r].pc = "eligible"
  /\ IF NewKey(u)
     THEN /\ jobs' = [jobs EXCEPT ![u] = "QUEUED"]
          /\ documents' = [documents EXCEPT ![u] = "OCR_QUEUED"]
          /\ request' = [request EXCEPT ![r].pc = "created"]
     ELSE /\ request' = [request EXCEPT ![r].pc = "done"]
          /\ UNCHANGED <<documents, jobs>>
  /\ UNCHANGED messages

Dispatch(r) ==
  /\ request[r].pc = "created"
  /\ request' = [request EXCEPT ![r].pc = "done"]
  /\ messages' = [messages EXCEPT ![request[r].document].pc = "queued"]
  /\ UNCHANGED <<documents, jobs>>

\* A failed commit, a dead process, a broker that does not answer.
AbandonRequest(r) ==
  /\ request[r].pc \in {"eligible", "created"}
  /\ request' = [request EXCEPT ![r].pc = "done"]
  /\ UNCHANGED <<documents, jobs, messages>>

-----------------------------------------------------------------------------
Finish(u, job, document) ==
  /\ jobs' = [jobs EXCEPT ![u] = job]
  /\ documents' = [documents EXCEPT ![u] = document]
  /\ messages' = [messages EXCEPT ![u].pc = "done"]
  /\ UNCHANGED request

Start(u) ==
  /\ messages[u].pc = "queued" /\ jobs[u] \in {"QUEUED", "PROCESSING"}
  /\ jobs' = [jobs EXCEPT ![u] = "PROCESSING"]
  /\ documents' = [documents EXCEPT ![u] = "OCR_PROCESSING"]
  /\ messages' = [messages EXCEPT ![u].pc = "processing", ![u].attempts = @ + 1]
  /\ UNCHANGED request

\* An exception before IntelligenceError is imported: "except IntelligenceError"
\* then raises itself and there is no retry.  Or the worker is killed.
TaskDies(u) ==
  /\ messages[u].pc \in {"queued", "processing"}
  /\ messages' = [messages EXCEPT ![u].pc = "done"]
  /\ UNCHANGED <<request, documents, jobs>>

\* IntelligenceError: the object is missing, does not match its hash or cannot
\* be read as what it should be.
FailTerminally(u) == messages[u].pc = "processing" /\ Finish(u, "FAILED", "OCR_FAILED")

\* Mutant: the task is retried once too often.
RetryOnceMore(u) ==
  /\ messages[u].pc = "processing"
  /\ messages' = [messages EXCEPT ![u].pc = IF messages[u].attempts <= MaxAttempts THEN "queued" ELSE "done"]
  /\ UNCHANGED <<request, documents, jobs>>

\* Any other exception, as the NameError: the job stays PROCESSING after the last.
Retry(u) ==
  /\ messages[u].pc = "processing"
  /\ messages' = [messages EXCEPT ![u].pc = IF messages[u].attempts < MaxAttempts THEN "queued" ELSE "done"]
  /\ UNCHANGED <<request, documents, jobs>>

Retrieved(u) == u \in objects

Pages(u) == {u} \cap HasPages

\* No page, no text: type UNKNOWN.
Complete(u) ==
  /\ messages[u].pc = "processing" /\ Retrieved(u) /\ Pages(u) = {}
  /\ Finish(u, "COMPLETED", "REVIEW_REQUIRED")

IntelligenceStep ==
  \/ \E r \in Requests, u \in Uploads : RequestProcessing(r, u)
  \/ \E r \in Requests : CreateJob(r) \/ Dispatch(r) \/ AbandonRequest(r)
  \/ \E u \in Uploads : Start(u) \/ TaskDies(u) \/ FailTerminally(u) \/ Retry(u) \/ Complete(u)
=============================================================================
