# ResolveAI in TLA+

ResolveAI handles card disputes for merchants. A webhook opens a case, the case is
enriched, evidence is uploaded, scanned and read, validated, scored by a model, put
before human reviewers and, when they approve, contested with Razorpay through a
transactional outbox. The backend is FastAPI and Celery over PostgreSQL, Redis and
MinIO. What makes it hard is the same everywhere: a step is one or more database
transactions with something slow between them (a computation, an HTTP call, a
queue), tasks of the same case overlap, messages are lost or come twice, and workers
die.

This directory holds TLA+ modules of the parts where that matters most, TLC
configurations that check them on small instances, and TLAPS proofs for every
instance. Paths below are relative to `src/backend/app/`.

| module | what it is |
| --- | --- |
| `Case` | the processing state of a case, which most components write |
| `Ingestion`, `Enrichment`, `EnrichmentRules`, `SyntheticProviders` | the events of a dispute; the enrichment of its case, the flags it raises, the providers of the demo |
| `Intake`, `MCIntake` | ingestion and enrichment together |
| `EvidenceIntake`, `DocumentIntelligence`, `ValidationRules` | uploads, scans and coverage; document jobs; what a validation makes of documents |
| `Evidence`, `MCEvidence` | these with the enrichment of the same case |
| `Knowledge`, `DraftGeneration`, `Guardrails` | the knowledge base, drafts grounded in it, their checks |
| `ContestPipeline` | assembly of a package, gates, outbox writer |
| `Contest`, `MCContest` | these with the review, and as a refinement of the outbox's environment |
| `OutboxDispatch` | the outbox and the workers that dispatch it to Razorpay |
| `ExternalAction` | what the outbox promises (abstract) |
| `CaseReview`, `MCCaseReview` | the review of a case with dual control, and H-10's reading of it |
| `FourEyes` | what the review promises (abstract) |
| `EvidenceValidation` | the validation runs of a case |
| `RiskScoring` | scoring and queue hydration, composed with the validation |
| `ScoringFeedsReview` | the composition of scoring and review, as a refinement |
| `Labels`, `Benchmark` | from the records of a case to label and features; the synthetic dataset and its split |
| `ModelRegistry`, `OutcomeFeedback` | promotion, rollback and loading of models; outcome webhooks and curated labels |
| `Learning`, `MCLearning` | the loop from benchmark to label |
| `*_proofs` | theorems about the module they extend |

Run them in this directory with `tlc -config X.cfg M` and `tlapm M_proofs.tla`.

## 1. Inventory

All components share one PostgreSQL database; sessions run READ COMMITTED with
autoflush off (`core/database.py`), so a statement sees what was committed when it
started, and a row read without `FOR UPDATE` may be stale when it is written. Celery
acknowledges a message when a worker takes it (`worker/celery_app.py` sets no
`acks_late`): a killed worker's message is gone, and Redis may redeliver one that
was not acknowledged in time.

| component | state | operations | what is hard | what makes it correct | here |
| --- | --- | --- | --- | --- | --- |
| Ingestion (`services/ingestion.py`) | webhook inbox, disputes, cases | ingest an event | two events of one dispute at once, stale events | each event is applied once; only a stale read goes back | `Ingestion`, `Intake` |
| Enrichment (`services/enrichment.py`) | payments, orders, refunds, case state | fetch and store, fail, retry | provider calls inside, ENRICHING never committed | no regression of the case, no double enrichment | `Enrichment`, `Intake` |
| Evidence intake (`services/evidence.py`, `requirements.py`, `scanner.py`) | documents, requirement status | upload, scan, evaluate | scan retries, documents that move on meanwhile | only clean documents count, a row has its object | `EvidenceIntake`, `Evidence` |
| Document intelligence (`services/intelligence.py`, `worker/tasks.py`) | jobs, documents | request, process | retries, crash in PROCESSING, requests at once | document and job move on together | `DocumentIntelligence`, `Evidence` |
| Evidence validation (`worker/validation_tasks.py`) | runs, snapshots, case state | request, claim, compute, persist, reset | four transactions, duplicates, crashes, several runs | one snapshot a run, no run forgotten, the case is given back | `EvidenceValidation` |
| Risk scoring (`worker/risk_scoring_tasks.py`, `services/ml/inference.py`, `services/review/queue.py`) | predictions, queue items, case state | score, hydrate | concurrent long transactions, no constraint on items | each snapshot queued once, the newest always | `RiskScoring` |
| Review (`api/endpoints/review.py`, `services/review/dual_control.py`) | queue items, review actions | submit an action | two approvers, several items, escalation | two people for a gated decision, decisions stand | `CaseReview` |
| Draft generation (`api/endpoints/generation.py`, `services/rag/*`) | drafts, a process-wide threshold | generate | concurrent requests | a current draft always, checked against what it was given | `DraftGeneration`, `Guardrails` |
| Contest package and outbox writer (`services/external_action/*`) | packages, documents, outbox rows | assemble, gate, write | check-then-insert, rollback | gates hold for what is sent, the rows of a package come together | `ContestPipeline`, `Contest` |
| Outbox dispatch (`worker/external_action_tasks.py`) | outbox rows, attempts, links, submissions | claim, send, record | HTTP between two commits, timeouts, retries, crashes | at most once, records are real, evidence first | `OutboxDispatch` |
| Model registry (`services/mlops/*`) | versions, policies | promote, roll back | crash between commits, caches that age | one champion, with its own policy, not a worse one | `ModelRegistry`, `Learning` |
| Outcome feedback (`services/outcome_feedback/*`) | outcomes, curated examples | ingest, curate | replayed webhooks, version numbers | each outcome once, traced to what was submitted | `OutcomeFeedback`, `Learning` |
| Knowledge base (`services/rag/ingestion.py`, `chunking.py`, `embedding.py`) | sources in versions, chunks | ingest, cut, embed | concurrent ingestions, an embedding that stops half way | the newest version is valid, a source is searchable as a whole | `Knowledge` |
| Training data and offline pipeline (`services/ml/*`, the scripts of `src/backend`) | dataset, splits, artifacts | generate, split, train, calibrate, optimize, evaluate | rules that name levels and states differently | a label is justified, a split is usable | partly, in `Labels`, `Benchmark`, `ModelRegistry` |
| Everything else | | | | | not modelled (section 11) |

The components meet in the database and in messages: ingestion sends the message
that enriches the case; uploads, evaluations of the coverage and enrichments all
write the state of the case, each from its own reading; validation sends
`score_risk_task` after its commit; scoring inserts the queue items that review
locks; review's finalizing action is what H-10
(`services/external_action/contest_submission_action_gate.py`) and the package
assembly read; the assembly and the writer create the outbox rows that dispatch
claims. `PROJECT.json` lists every component and, under `hazards`, what is hard to
test at the line where it bites.

## 2. Outbox dispatch (`OutboxDispatch`, `ExternalAction`)

A row is named by its idempotency key, `<<package, "upload", document>>` or
`<<package, "contest", action>>`. `dispatch_external_action_outbox` is two
transactions: `Claim` is the first (claimability test, PROCESSING, attempt row) and
is one action because of the row lock; `RefuseLocally`, `FindLinkMissing` and `Send`
are the transport up to the request; `TimeOut` and `Reply` are what the client
returns; `RecordSent`, `RecordRetryable`, `RecordTerminal` are the second
transaction, one for each group of except clauses. `RazorpayApplies` and
`RazorpayRefuses` are Razorpay, known only by the client's classification of its
answers: a request on the `wire` may take effect before, after or without any
answer. `Abort` is a dying worker or an exception that no clause names.
`CreatePackage` and `WriteOutbox` are the assembly and the writer after their gates;
`FeedsOutbox` (section 8) shows that they are. The clock counts in units of the base
retry delay.

`AtMostOnceApplied`, `RecordsAreReal`, `EvidenceBeforeContest` and `AttemptLedger`
say that retries never apply a request twice, that links, submissions and SUBMITTED
packages stand for what Razorpay really did, that a contest leaves after all its
evidence, and that the attempt rows are a gapless history. `KeepsPromise` is
refinement: the dispatch implements `ExternalAction` under `effect <- applied`,
`report <- Report`, `record <- recorded`.

Run `outbox` has one package, one document, two workers that may both die, three
attempts and a clock up to 3: enough for two 429s with both backoffs (1 and 2), a
third attempt, a request of an attempt that was given up, and three rows in any
order. `outbox_liveness` checks `HeldRowSettles`: a row claimed by a worker that
survives does not stay PROCESSING. Fairness is weak fairness of a worker's own
steps, justified because between its commits a task waits for nothing but the HTTP
client, which times out; nothing is assumed of Razorpay, of other workers or of
whoever sends dispatch messages (no code of the repository does).

`outbox_terminal` is a counterexample: the idempotent writer sets APPROVED on a
package that is SUBMITTED (`outbox_writer.py:289`), although
`external_action_tasks.py:162-163` calls that state terminal.

## 3. Review (`CaseReview`, `MCCaseReview`, `FourEyes`)

A request runs under the lock of one queue item, so it is one action, and each
branch of `submit_review_action` is one disjunct: `NoItem`, `AlreadyDone`,
`Escalate`, `RefuseSecond`, `SecondApproval`, `RefuseFirst`, `FirstApproval`,
`Finalize`, in the guards' order in the code. The item is any of the case, as the
query has no ORDER BY. `Enqueue` is the arrival of an item at any place of the order
by `created_at`. Actions without a rule of their own are represented by EDIT_DRAFT.
`SubmissionAction` is H-10.

`SubmitIsApproved` relates what H-10 reads to the people behind it; `SubmitStands`
says that only a newer item withdraws it; `PendingIsFirstApproval` ties the pointer
to the log; `KeepsFourEyes` is the refinement of `FourEyes`. Run `review` has two
items, two approvers and every verdict below the amount threshold, so that on some
items dual control applies and on others not; two approvers are enough to match,
mismatch and confirm, and a third would act as one of them. `Renamings` is
symmetric: no action names an item or an approver. There are no liveness properties:
nobody is obliged to review.

`review_stuck` is a counterexample: with two items a request may be told that the
item is DONE while the other still waits, where `review.py:213` says "Locate and
lock an actionable ReviewQueueItem".

## 4. Validation (`EvidenceValidation`)

A run (one for each evidence version) gets a message by `Request`, which may be
lost, and may be delivered twice (`Duplicated`). The phases of
`execute_evidence_validation` are the values of `pc`:

    queued --AcceptCase--> claiming --Claim--> computing --ReadForPersist--> persisting --Persist--> done
              RefuseCase, Skip   ClaimFails         PersistNothing, Fail        Fail
    failing --ReadForReset--> resetting --Reset--> queued | done

The claim and the persistence hold the lock of the run (`Locked`): another delivery
skips it (SKIP LOCKED) or waits. The case has no lock anywhere: it is read in one
action and written in another, and only what differs from what was read is written,
as the ORM does. `Die` is a killed worker. `MarkReady` is external: no code of the
service sets D_INTELLIGENCE_READY.

`OneSnapshotPerRun` survives duplicates and retries; `RunningHasTask` says that only
a lost message, a lost worker or exhausted claim retries can forget a run;
`ValidationEnds` says that a case leaves E_VALIDATING when a run delivered once was
claimed by a worker that lives. Fairness is weak fairness of `Execute(d)`: a worker
that runs goes on, a queued message is taken. Duplicated runs are left out of
`ValidationEnds` on purpose: a duplicate fails the run that its twin computes, and
the twin then gives nothing back (hazard at `validation_tasks.py:47`). The run has
two versions, one of which is duplicated and mortal, with one retry: two runs are
what it takes to interfere through the case.

`validation_gate` is a counterexample to E-01: two runs pass the eligibility gate on
the same reading, and the second claims a case that is E_VALIDATING.

## 5. Scoring (`RiskScoring`, `ScoringFeedsReview`)

`RiskScoring` extends the validation: its `sent` set holds the messages.
`score_risk_task` is one transaction of five steps, `ReadSnapshot`,
`InsertPrediction`, `HydrateReviewQueue`, `CommitScore`, or `NoChampion`, or at any
point `RollBack`. Rows are `open` until they are committed; `Visible` is what READ
COMMITTED shows a task; `NoOtherRow` is the UNIQUE key of the prediction, which
makes a second insertion wait for the first. `created_at` is the time of the
insertion, so predictions may be committed out of that order.

`OneItemPerSnapshot`: no constraint protects the queue items, the key of the
prediction does it. `NewestIsQueued` and `ScoredIsQueued`: whatever the order of
insertions and commits, the newest visible prediction is in the queue, and so is
something for every case that is RISK_SCORED. `FeedsReview` composes the modules:
with the committed items in order of `created_at` as its `queue` (`InOrder`: the
n-th is the one with n - 1 older), the scoring is a
behaviour of `CaseReview`, that is, what it does to the queue is `Enqueue`. The run
has two validation runs with one retry of each task; two tasks are what it takes to
race for a snapshot, and their snapshots may be one or two.

## 6. Intake (`Ingestion`, `Enrichment`, `Intake`)

`process_dispute_event` is one transaction in two actions: `Receive` (the flush of
the event, which the UNIQUE key orders, and the read of the dispute, which nothing
locks) and `RecordNew` or `RecordUpdate` (the commit, which writes what differs from
what was read). `ReceiveDuplicate` and `Reject` are the other ends. The message for
the enrichment follows the commit (`Intake!Record`) and may be lost.

`enrich_dispute_task` goes `Load`, `MarkEnriching`, then `ProviderUnavailable`,
`PaymentMissing` or `PaymentFound`, then `Store`; `EnrichmentFails` at any point.
ENRICHING is flushed and never committed: nobody reads it, but it takes the row lock
of the case (`CaseLocked`), and that lock is all that keeps two enrichments apart.
`EnrichmentRules` computes flags, timeline and completeness from a `source`, which
is what the dispute and the providers say, of any of the five kinds of rows;
`SyntheticProviders` gives the sources of the synthetic providers, by their magic
ids.

`EventHasEffectOnce`: however often an event is delivered. `NewerEventStands`: the
dispute goes back to an older event only through a delivery that read before the
newer commit. That this happens is in the model: the code has no lock there.
`EnrichmentIsWhole`: versions differ, rows are all of the newest. `FlagsAreTrue`: no
flag means no doubt (`Doubtless`), where what was paid back is counted unit by unit
and every two times are compared, while the code sums amounts and compares each time
with the next one it knows; and only a case with every row and field is 100 percent
complete. `EnrichmentEnds`: a queued enrichment ends, although it may
wait for the lock of one that waits for a provider. Fairness is weak fairness of
`EnrichmentStep(t)`: Celery workers take what is queued and go on, and the calls of
a provider return or time out; nothing is assumed of failures.

Run `intake` has an event delivered twice, a newer one, three enrichment tasks with
one retry and two cases (two are possible: two first deliveries of two events create
one each). `Explored` restricts it: with the `Typical` source deliveries and at most
two enrichments interleave freely; the other sources are probes of the rules (each
relation, each order of five times, each incomplete kind) with one delivery and its
enrichment, as the rules do not depend on who else runs.

## 7. Evidence (`EvidenceIntake`, `DocumentIntelligence`, `ValidationRules`, `Evidence`)

An upload is `CheckUpload`, `StoreObject` or `StoreFails`, `CommitDocument`,
`SendScan`, with `Compensate` (which also runs when only the read after the commit
failed) and `AbandonUpload`. A scan ends the quarantine and opens an evaluation of
the coverage, as every listing does: `ReadDocuments`, `WriteCoverage`, from a state
of the case read before. A request for processing creates the one job of a document;
its task is `Start`, then `FailTerminally`, `Retry` or `Complete`, or `TaskDies`.
`Evidence` lets all this wait for the row lock of an enrichment (`Free`).

The processing is modelled as it runs: `storage_client`, which
`process_evidence_document_task` uses for every page, is not defined in
`worker/tasks.py`, so a document with a page raises a NameError, is retried and
stays PROCESSING; only one without a page completes, for review. EXTRACTED documents
exist only where the benchmark generator wrote them (`Seeded`).

`ReadyIsCovered`: EVIDENCE_READY is never written of a case without a clean document
of each required type, whatever moved between reading and writing.
`ObjectOfDocument`: one row per content, and a row keeps its object unless its own
upload was answered with an error. `ProcessingMovesOn`: no document or job goes
back, and the two agree. `AssessmentIsBest`: the loop over the documents of a type
takes the best of them in every order, although it is written with an early exit.

Run `evidence` has one case, four documents (one content twice, one seeded), one
reader, two requests, two attempts and one enrichment. `Company` restricts it:
besides two uploads, at most one of a second upload of the file, a reader, requests
and an enrichment, or a reader and an enrichment: every pair of writers of the case
meets, not every triple.

## 8. Contest (`Knowledge`, `DraftGeneration`, `ContestPipeline`, `Contest`)

`Knowledge` has an ingestion as `ReadActive`, `ReadVersion`, `StoreSource`, then
`Cut` and `Embed`; UNIQUE keys hold only for identities without a NULL. `Candidates`
and `BestOf` are the retrieval. `DraftGeneration` has a request from its chunks
(`NameRun`, `EmbeddingFails`, or `LowerThreshold`, `Retrieve`, `RestoreThreshold`
around the process-wide threshold) over the UPDATE that makes older drafts not
current (`StartUpdate`, `LockDrafts`: it sees what was committed when it started,
waits, and leaves out what changed) to `CommitDraft` or `AbandonDraft`. `Guardrails`
is what the checks make of an answer. `ContestPipeline` has the assembly as
`LookUp`, `ReadDraft`, `CommitPackage` and the writer as `CheckContest` (H-06, H-07,
H-12), `DecideAction` (H-08, H-10, H-11), `FlushRows`, `CommitRows`. `Contest` puts
them beside `CaseReview`, whose `SubmissionAction` is the H-10 that the writer asks,
while scans and events of the dispute go on.

`KnowledgeIsSound`, `DraftsStand` and `ContestIsSafe` are stated in the modules. The
last is about what leaves for Razorpay: within the disputed amount, a summary that
fits, clean documents of a type Razorpay takes and, for a submit, evidence and an
item so decided, by two approvers where the case takes two. `FeedsOutbox` is the
refinement that closes the gap to section 2: with the packages and committed rows
mapped to the variables of `OutboxDispatch`, assembly and writer do `CreatePackage`
and `WriteOutbox` and nothing else; the inputs of the dispatch are those its proofs
assume.

Run `contest` has five ingestions of two identities, two drafts, two assemblies, two
writers, two items, two approvers and thirteen answers. Its full product is too
large: `Explored` splits it into `Studied` (ingestions with drafts, no contest) and
`Contested` (drafts, reviews, assemblies, writers), at most two calls running at
once and three or four made, one `Special` circumstance at a time (an odd answer, a
second item, a hard block, a second request). Without an odd
answer every pair of calls races at every step; the proofs (section 10) cover the rest.

## 9. Learning (`Labels`, `Benchmark`, `ModelRegistry`, `OutcomeFeedback`, `Learning`)

`Labels` has the rule executors, the quality of a document, the label policy, the
features and the hard block of live scoring as operators; `Benchmark` generates
examples from scenarios and deals customers to splits, as `dataset_splitter.py` does
with two penalties. `ModelRegistry` numbers the artifacts of the offline pipeline
(`Train`, `Calibrate`, `OptimizeThresholds`, `EvaluateHoldout`; each takes the
newest run of the step before) and has the promotion commit by commit (`Promote` or
`Reject`, `Upload`, `ActivatePolicy`), the rollback (`Rollback`,
`ReactivatePolicy`), an operator that dies in between, and workers that load the
champion query by query (`ReadChampion`, `ReadPolicy`, `Score`, `Unavailable`) with
a cache that is never dropped. `OutcomeFeedback` has a webhook as `Resolve` and
`Record`, a curation as `ReadVersion` and `StoreLabel`.

`RegistryIsSound`, `FeedbackIsSound` and `DatasetIsSound` are stated in the modules.
The premises of the first are what the code needs: `"died" \notin history` because a
promotion that died before its policy row leaves a champion without one,
`EvaluatedOnce` because the comparison picks an arbitrary one of several recorded
results, no rollback because a rollback is a wish for the older model.

Run `learning` has six examples of four customers, two models, three runs of every
other step, two workers (one on the training machine), three events, one of them
twice, two curations. `Explored` bounds it by phases: the benchmark alone (each
scenario and reason once, then strong and weak cases of one reason), then the
pipeline from one typical split, then predictions of one worker beside promotion and
rollback, or contests under one champion. Six examples and four customers
are enough to fill all three splits and to have customers of different weight.

## 10. Proofs

All theorems hold for every value of the constants that satisfies the named
assumptions of the modules: the sizes of the sets are free, also infinite. TLC
evaluates the assumptions in the runs.

* `OutboxDispatch_proofs`. The invariant `Inv` says that a claim is exclusive
  (`Exclusive`), that a worker's attempt is the row's last (`WorkerInv`), that only
  the last attempt can be on the wire and only of a row not yet applied (`WireInv`),
  and that a row due for a retry is quiet (`RowInv`): the 429 it got was the answer
  to its last request. `AtMostOnce` follows; `RecordsReal`, `EvidenceFirst`,
  `LedgerComplete` add a part each; `Refinement` maps each step to one of
  `ExternalAction` or a stutter. `BackoffAssumption`: powers of two are natural.
* `CaseReview_proofs`. `ItemInv` describes the log in each state of an item: empty,
  one gated approval, or a finished history of at most two entries.
  `PendingIsFirst`, `SubmitApproved`, `SubmitIsStable`, `Refinement` follow.
* `RiskScoring_proofs`, with the validation it extends. `RunningHasTask` is not
  inductive, since a task that
  resets may have read an older FAILED and will not write it:
  `RunningHasResponsible` counts only tasks that still will. `SnapshotIsUnique`
  rests on the UNIQUE key, `TypeCorrect` also on `TaskHasRun`.
  `NewestIsQueued` needs to know what a task is about to
  commit: `Queued` says that a task that leaves its own prediction out of the queue
  saw a newer one committed, `OwnItem` that it queues no other, `HasLatest` that a
  newest row exists at all although nothing says the runs are finitely many.
  `OneItemPerSnapshot` follows from `UniqueKey` and `OwnItem`. `ScoringFeeds` is the
  refinement: the items have different dates and are finitely many (`QInv`), so the
  ranks number them from one without a gap (`RankIsPlace`), and a new item moves
  those after it up by one (`ArrivalSortsIn`), which is `Enqueue`.
* `Enrichment_proofs`. What the rules say of any data. A sum over a set is a
  recursive function that takes the elements in an order nobody knows; that it is
  the number of the units of its elements (`SumIsCount`) is shown by a smallest set
  for which it is not, which exists as the subsets of a finite set are well founded
  (`SmallestSet`). `NoFlagNoDoubt`: the flags are empty just for what is
  `Doubtless`; of two times in the wrong order the closest have none between them,
  so the neighbours suffice (`OrderedIsOrder`). `EnrichInv` and `ReportInv` are the
  parts of the invariants below that an enrichment keeps, whoever else runs.
  Assumptions: `SourcesAssumption` (what the schemas let an amount be),
  `EnrichmentAssumption`.
* `Intake_proofs`. `IntakeOnce` rests on `EventInv`: of the deliveries of an event
  one at most is being handled (`OneHandling`), a case has no row before its first
  event (`NoRowBeforeCase`), and what a delivery read was stored (`ReadIsStored`,
  which gives `StaleReadsOnly`). `EnrichmentsAreWhole` rests on `EnrichInv`: one
  task at most is inside the row lock of a case (`OneInside`), what is inside has a
  version ahead of all that are stored (`Ahead`), and a case that has rows has a
  newest one (`SomeNewest`). `FlagsTrue` rests on `ReportInv`: what an enrichment
  reports was computed from the rows that are left of it (`Reported`).
  `IntakeTypeCorrect`. Assumptions: `IngestionAssumption`,
  `EnrichmentAssumption`, `SourcesAssumption`, `IntakeAssumption`.
* `Evidence_proofs`. What an evaluation found stays found although the documents
  move on, since a document that passed the scan never leaves `ScannedClean`
  (`FindingsStand`); a job and its document are in step whoever holds the message
  (`JobsInStep`); an upload past its commit is the only one of its content
  (`UploadInv`). `ReadyMeansCovered`, `NothingGoesBack`, `DocumentsHaveObjects`
  follow. `BestIsAssessed` needs no invariant but that the documents are finitely
  many: the fold over a sequence gives the best of its elements
  (`AssessmentIsBestOf`), for every length and order. `EvidenceTypeCorrect`.
  Assumptions: `EvidenceAssumption`, `IntelligenceAssumption`, `SeededAssumption`
  (seeded documents differ in content and are finitely many),
  `EnrichmentAssumption`, `SourcesAssumption`.
* `Contest_proofs`. `KInv`: what an ingestion read as ACTIVE is not newer than what
  it read as highest (`ReadBefore`), what it cuts is missing as a whole
  (`CutWhole`), and a highest version exists (`HasHighest`). `DInv`: a request
  writes once and makes only what is written not current. `RInv`: an item's decision
  is known from its log; as tlapm cannot use the theorems of an instantiated module,
  what is needed of `CaseReview` is proved again for the instance. `PInv`: what an
  assembler or a writer holds still satisfies the gates it passed (`AssemblerOK`,
  `WriterOK`), because packages do not change, clean documents stay clean and
  decisions stand; and a writer's flushed rows together with the committed ones are
  all rows of its package, which is why `CommitRows` is `WriteOutbox` and
  `FeedsOutbox` holds. The permission H-10 gave may be withdrawn afterwards by a
  newer item: `ContestIsSafe` therefore says that an item was approved, not that it
  is the newest. `ContestTypeCorrect` adds what the types need beyond that: an
  answer, hence a draft, has one amount at most (`OneAmount`). Assumptions: `KnowledgeAssumption`, `ReplyAssumption`,
  `PipelineAssumption`.
* `Learning_proofs`. `RegInv`: there is one champion at most at every commit
  (`OneChampion`), what is active is the champion's or about to be deactivated by
  the operator under way (`OneActive`), every row was offered (`AllOffered`), what a
  worker holds came from rows of one version (`ScoredSoundly`), and a model that
  replaced others was at most as expensive as they (`NeverWorse`). `FInv`: an event
  has one row (`OneRow`), a delivery traces what it resolved (`Traced`), a
  curation's number follows on (`Numbered`). `BInv` is about the dataset: every
  example is one of `Examples`, whose labels are justified case by case
  (`ExampleIsJustified`), and, as long as no customer has over half of the examples,
  seven times what a split other than training has is at most one and a half times
  what training has plus a margin of 0.96 of the whole (`Within`). A customer joins
  such a split only if that costs no more than training: its fill then is bounded by
  that of training and by the misfits of training, which are at most twice
  its examples times the whole (`MisfitsBounded`, a sum over strata by the smallest
  set again). Once everybody is dealt, a largest split that is not training has at
  least a third of the whole; `Within` does not let it be larger than training
  (`TrainingIsLargest`). Assumptions: `RegistryAssumption`, `NoneAssumption`.

Every invariant, action property and refinement that a run checks is also proved.
Only model-checked are the liveness properties (`HeldRowSettles`, `ValidationEnds`,
`EnrichmentEnds`), which need ENABLED, and the counterexamples.

## 11. Not modelled

* Time stamps taken just before a commit (a snapshot's, in `Persist`) are taken with
  it; two reads next to each other in one transaction (the run and the case in
  `ReadForReset`, the newest prediction and its item in `HydrateReviewQueue`, as its
  comment argues) are one step.
* `worker/tasks.py:289-386`, the part of the document task after its first page, and
  the aggregator it would call: they cannot be reached (section 7).
* What a model, a calibrator, a threshold, an explanation or an embedding is
  numerically: the runs of a step differ by name, similarity is a number, a cost is
  a number. The offline baselines, which are never promoted, and SHAP values.
* OCR, classification and extraction engines: functions on images and text.
* Authentication, configuration, storage clients: infrastructure and pure I/O. The
  isolation and autoflush of sessions are assumptions of every module.
* Read-only listings, audit feed, observability: they change nothing.
* The seeding of the demo, and one-off scripts over the same services.

Hazards known and left without a property: a rate-limited row gets `next_attempt_at`
but no code of the repository sends the message that would take it up
(`external_action_tasks.py:407`); the reset of a case decides on a state it read
(`validation_tasks.py:84`) and RISK_SCORED is written over whatever came meanwhile
(`risk_scoring_tasks.py:47`), both in the models as they are; the UPDATE that makes
older snapshots not current runs in a session that was closed
(`feature_snapshot.py:70`); two operators who promote at once are assumed away, the
scripts being run by hand.

Read while modelling, and true of the modules unless said otherwise:

* The facts a draft is checked against never contain the disputed amount, so the
  guardrail on amounts compares with nothing, and a fallback draft has no amount,
  which the assembly refuses. H-12 reads a draft that is current when the outbox is
  written, not the one of the package. The threshold of the process may stay 0 after
  a failed retrieval or two overlapping ones. Two first drafts at once are both
  current; two assemblies of one decision at once make two packages; the rows of
  each are kept apart. Retrieval by the endpoint finds only sources without a reason
  code. "overview" and "processing_errors" of the ingested policies share one
  identity, so one deprecates the other, and where an identity has a NULL no key
  stops two versions of one number.
* A promotion that dies before its policy row leaves a champion that cannot score;
  promoting it again
  does nothing and, if it was evaluated, every later candidate is refused until a
  rollback. The next promotion after a rollback
  promotes the rolled-back model again. A second rollback returns to the first
  model. `calibrator_uri` is set when a version is first registered, so after a
  re-promotion workers of the training machine use the old calibrator with the new
  policy while object storage has the new one; the key is overwritten although
  `champion_loader.py:192-198` takes it for immutable. An evaluation is matched by
  model and policy, not by calibrator; PENDING_EVALUATION is never a version's last
  status.
* An outcome may arrive before the row of its submission is committed, and is then
  attributed to nobody. The prediction it is attributed to may be newer than the one
  submitted. Two curations at once may store one version twice.
* The label looks for requirements of the level MANDATORY, which none has. Labels of
  1 are given to contradictory cases whose document is no invoice, and to cases
  delivered on the day of the dispute. A missing OPTIONAL document hard-blocks live
  scoring. `rule_version` is not set on fresh results, so `timeline_valid` is None
  live but not in training. Submissions are taken to commit in the order of
  `submitted_at`. The cost configuration is a constant of
  `optimize_thresholds_step14.py:108-110`; `Configs` stands for edits of it.

## 12. Plan

What is left, in this order.

1. The case's processing state as one abstract state machine that ingestion,
   enrichment, evidence, validation and scoring implement together; until now each
   composition has the writers that meet most.
2. `Learning` with two operators, once the code takes a lock for a promotion.
3. The document task past its first page, once it can be reached.
4. Liveness of the evidence: that a case whose documents are clean becomes
   EVIDENCE_READY needs a reader, as a scan that loses the race for the first row is
   not repeated.
