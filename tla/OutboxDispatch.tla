--------------------------- MODULE OutboxDispatch ---------------------------
(***************************************************************************)
(* The transactional outbox of ResolveAI's external actions and the Celery *)
(* workers that dispatch it to Razorpay                                    *)
(* (src/backend/app/worker/external_action_tasks.py).                      *)
(*                                                                         *)
(* An outbox row is identified by its idempotency key, which is UNIQUE:    *)
(*    <<package, "upload", document>>    an UPLOAD_DOCUMENT row            *)
(*    <<package, "contest", action>>     a CONTEST_DRAFT / CONTEST_SUBMIT  *)
(*                                                                         *)
(* A dispatch is two transactions around one HTTP call.  The first claims  *)
(* the row and commits, which releases its lock; then the request travels; *)
(* then the second transaction records the outcome.  Between the two       *)
(* commits anything may happen: other dispatches of the same row, the      *)
(* death of the worker, a timeout of the client while Razorpay still       *)
(* applies the request.                                                    *)
(***************************************************************************)
EXTENDS Integers

CONSTANTS
  Packages,       \* contest packages (contest_packages.id)
  Documents,      \* evidence documents
  Workers,        \* Celery worker processes
  MortalWorkers,  \* workers whose attempt may be cut short after its claim
  MaxAttempts,    \* MAX_ATTEMPTS
  MaxClock,       \* bound on the clock, in units of BASE_RETRY_DELAY_SECONDS
  NULL            \* SQL NULL

Actions    == {"draft", "submit"}
UploadRows  == Packages \X {"upload"} \X Documents
ContestRows == Packages \X {"contest"} \X Actions
Rows        == UploadRows \cup ContestRows

\* countdown = BASE_RETRY_DELAY_SECONDS * (2 ** (attempt_count - 1))
Backoff(n) == 2 ^ (n - 1)

ASSUME ConstantsAssumption ==
  /\ MaxAttempts \in Nat \ {0}
  /\ MaxClock \in Nat
  /\ MortalWorkers \subseteq Workers
  /\ NULL \notin Nat
  /\ NULL \notin Rows

\* Powers of two are natural numbers: beyond the provers, evaluated by TLC.
ASSUME BackoffAssumption == \A n \in 1..MaxAttempts : Backoff(n) \in Nat

VARIABLES
  packageDocs,    \* approved ContestPackageDocument rows of each package
  packageStatus,  \* ContestPackage.status, ABSENT before the row exists
  status,         \* ExternalActionOutbox.status, ABSENT before the row exists
  attemptCount,   \* ExternalActionOutbox.attempt_count
  nextAttemptAt,  \* ExternalActionOutbox.next_attempt_at
  attempts,       \* ExternalActionAttempt rows: started_at and error_code
  recorded,       \* RazorpayDocumentLink / ContestSubmission rows written
  worker,         \* the local state of each worker's running dispatch
  wire,           \* requests that Razorpay has not dealt with yet
  applied,        \* how often Razorpay has applied the request of a row
  now             \* the clock

db     == <<packageDocs, packageStatus, status, attemptCount, nextAttemptAt,
            attempts, recorded>>
vars   == <<db, worker, wire, applied, now>>

Outcomes == {"OK", "RATE_LIMITED", "UNKNOWN_RESULT", "REJECTED", "LINK_MISSING"}

AttemptRecord == [startedAt : Nat, code : Outcomes \cup {"UNMADE", "OPEN"}]
WorkerState   == [pc     : {"idle", "claimed", "waiting", "answered"},
                  row    : Rows \cup {NULL},
                  no     : 0..MaxAttempts,
                  result : Outcomes \cup {"none"}]

Idle == [pc |-> "idle", row |-> NULL, no |-> 0, result |-> "none"]

TypeOK ==
  /\ packageDocs \in [Packages -> SUBSET Documents]
  /\ packageStatus \in [Packages -> {"ABSENT", "DRAFT", "APPROVED", "SUBMITTED"}]
  /\ status \in [Rows -> {"ABSENT", "PENDING", "PROCESSING", "SENT", "FAILED"}]
  /\ attemptCount \in [Rows -> 0..MaxAttempts]
  /\ nextAttemptAt \in [Rows -> Nat \cup {NULL}]
  /\ attempts \in [Rows -> [1..MaxAttempts -> AttemptRecord]]
  /\ recorded \in [Rows -> Nat]
  /\ worker \in [Workers -> WorkerState]
  /\ wire \subseteq Rows \X (1..MaxAttempts)
  /\ applied \in [Rows -> Nat]
  /\ now \in Nat

Init ==
  /\ packageDocs = [p \in Packages |-> {}]
  /\ packageStatus = [p \in Packages |-> "ABSENT"]
  /\ status = [r \in Rows |-> "ABSENT"]
  /\ attemptCount = [r \in Rows |-> 0]
  /\ nextAttemptAt = [r \in Rows |-> NULL]
  /\ attempts = [r \in Rows |-> [n \in 1..MaxAttempts |->
                                   [startedAt |-> 0, code |-> "UNMADE"]]]
  /\ recorded = [r \in Rows |-> 0]
  /\ worker = [w \in Workers |-> Idle]
  /\ wire = {}
  /\ applied = [r \in Rows |-> 0]
  /\ now = 0

-----------------------------------------------------------------------------
(* The end of assemble_contest_package: the package and one approved        *)
(* ContestPackageDocument for each eligible document, in one commit.       *)
CreatePackage(p, docs) ==
  /\ packageStatus[p] = "ABSENT"
  /\ packageStatus' = [packageStatus EXCEPT ![p] = "DRAFT"]
  /\ packageDocs' = [packageDocs EXCEPT ![p] = docs]
  /\ UNCHANGED <<status, attemptCount, nextAttemptAt, attempts, recorded,
                 worker, wire, applied, now>>

(***************************************************************************)
(* write_outbox_for_package, once its gates have let it through: the       *)
(* missing rows of the package are created in one transaction, those that  *)
(* exist are left alone, and the package is marked APPROVED.  Only H-11,   *)
(* which looks at state of this module, is kept: a submit needs evidence.  *)
(***************************************************************************)
OutboxOf(p, action) ==
  { <<p, "upload", d>> : d \in packageDocs[p] } \cup { <<p, "contest", action>> }

WriteOutbox(p, action) ==
  /\ packageStatus[p] # "ABSENT"
  /\ action = "submit" => packageDocs[p] # {}
  /\ status' = [r \in Rows |->
                  IF r \in OutboxOf(p, action) /\ status[r] = "ABSENT"
                  THEN "PENDING" ELSE status[r]]
  /\ packageStatus' = [packageStatus EXCEPT ![p] = "APPROVED"]
  /\ UNCHANGED <<packageDocs, attemptCount, nextAttemptAt, attempts, recorded,
                 worker, wire, applied, now>>

-----------------------------------------------------------------------------
(* The first transaction: SELECT ... FOR UPDATE, the claimability test, the *)
(* claim, the attempt row, COMMIT.  The row lock makes it atomic.  t is the *)
(* current_time of the call, read before the lock was granted.              *)

\* Mutant: rows left PROCESSING are taken up again.
ClaimableStuck(r, t) ==
  status[r] \in {"PENDING", "PROCESSING"}

\* Mutant: a failed row is due at once.
ClaimableEarly(r, t) ==
  \/ status[r] = "PENDING"
  \/ /\ status[r] = "FAILED"
     /\ nextAttemptAt[r] # NULL
     /\ attemptCount[r] < MaxAttempts

\* Mutant: any failed row with attempts left may be retried.
ClaimableFailed(r, t) ==
  \/ status[r] = "PENDING"
  \/ status[r] = "FAILED" /\ attemptCount[r] < MaxAttempts

Claimable(r, t) ==
  \/ status[r] = "PENDING"
  \/ /\ status[r] = "FAILED"
     /\ nextAttemptAt[r] # NULL
     /\ nextAttemptAt[r] <= t
     /\ attemptCount[r] < MaxAttempts

Claim(w, r, t) ==
  LET n == attemptCount[r] + 1 IN
  /\ worker[w].pc = "idle"
  /\ t <= now
  /\ Claimable(r, t)
  /\ status' = [status EXCEPT ![r] = "PROCESSING"]
  /\ attemptCount' = [attemptCount EXCEPT ![r] = n]
  /\ attempts' = [attempts EXCEPT ![r][n] = [startedAt |-> t, code |-> "OPEN"]]
  /\ worker' = [worker EXCEPT ![w] =
                  [pc |-> "claimed", row |-> r, no |-> n, result |-> "none"]]
  /\ UNCHANGED <<packageDocs, packageStatus, nextAttemptAt, recorded, wire,
                 applied, now>>

-----------------------------------------------------------------------------
(* The transport: everything up to the HTTP request is local.              *)

\* Mutant: the upload row stands for the link.
LinkedIfWritten(d) == \E r \in UploadRows : r[3] = d /\ status[r] # "ABSENT"

Linked(d) == \E r \in UploadRows : r[3] = d /\ recorded[r] > 0

EvidenceLinked(r) == r \in ContestRows => \A d \in packageDocs[r[1]] : Linked(d)

Answer(w, outcome) ==
  worker' = [worker EXCEPT ![w] = [@ EXCEPT !.pc = "answered", !.result = outcome]]

\* RazorpayLiveModeNotAllowed, or the document or package row is not there.
RefuseLocally(w) ==
  /\ worker[w].pc = "claimed"
  /\ Answer(w, "REJECTED")
  /\ UNCHANGED <<db, wire, applied, now>>

\* build_contest_request raises RazorpayDocumentLinkMissing.
FindLinkMissing(w) ==
  /\ worker[w].pc = "claimed"
  /\ ~EvidenceLinked(worker[w].row)
  /\ Answer(w, "LINK_MISSING")
  /\ UNCHANGED <<db, wire, applied, now>>

Send(w) ==
  /\ worker[w].pc = "claimed"
  /\ EvidenceLinked(worker[w].row)
  /\ wire' = wire \cup { <<worker[w].row, worker[w].no>> }
  /\ worker' = [worker EXCEPT ![w].pc = "waiting"]
  /\ UNCHANGED <<db, applied, now>>

-----------------------------------------------------------------------------
(* Razorpay, known only by what the client makes of its answers.           *)

\* The answer reaches the worker that still waits for it, or nobody.
Reply(q, outcome) ==
  worker' = [w \in Workers |->
               IF worker[w].pc = "waiting" /\ worker[w].row = q[1] /\ worker[w].no = q[2]
               THEN [worker[w] EXCEPT !.pc = "answered", !.result = outcome]
               ELSE worker[w]]

\* The request takes effect: 2xx with an id, or a 5xx or a body without an
\* id after the fact, which the client cannot tell from no effect.
RazorpayApplies(q) ==
  /\ q \in wire
  /\ wire' = wire \ {q}
  /\ applied' = [applied EXCEPT ![q[1]] = @ + 1]
  /\ \E outcome \in {"OK", "UNKNOWN_RESULT"} : Reply(q, outcome)
  /\ UNCHANGED <<db, now>>

\* No effect: 429, another 4xx, or a 5xx before anything was done.
RazorpayRefuses(q) ==
  /\ q \in wire
  /\ wire' = wire \ {q}
  /\ \E outcome \in {"RATE_LIMITED", "REJECTED", "UNKNOWN_RESULT"} : Reply(q, outcome)
  /\ UNCHANGED <<db, applied, now>>

\* Mutant: a client without a timeout.
TimeOutNever(w) == FALSE /\ UNCHANGED vars

\* Mutant: a missing response counts as an empty one.
TimeOutAsSuccess(w) ==
  /\ worker[w].pc = "waiting"
  /\ Answer(w, "OK")
  /\ UNCHANGED <<db, wire, applied, now>>

\* httpx.TimeoutException / TransportError: the client gives up, the request
\* may still be on its way.
TimeOut(w) ==
  /\ worker[w].pc = "waiting"
  /\ Answer(w, "UNKNOWN_RESULT")
  /\ UNCHANGED <<db, wire, applied, now>>

-----------------------------------------------------------------------------
(* The second transaction, one action for each group of except clauses.    *)

\* Mutant: 5xx and timeouts are retried like a 429.
RetryableUnknown(outcome) == outcome \in {"RATE_LIMITED", "UNKNOWN_RESULT"}

Retryable(outcome) == outcome = "RATE_LIMITED"

CloseAttempt(w) ==
  /\ worker[w].pc = "answered"
  /\ attempts' = [attempts EXCEPT
                    ![worker[w].row][worker[w].no].code = worker[w].result]
  /\ worker' = [worker EXCEPT ![w] = Idle]
  /\ UNCHANGED <<packageDocs, attemptCount, wire, applied, now>>

\* 429: FAILED, due again after the backoff while attempts are left.
RecordRetryable(w) ==
  LET r == worker[w].row IN
  /\ CloseAttempt(w)
  /\ Retryable(worker[w].result)
  /\ status' = [status EXCEPT ![r] = "FAILED"]
  /\ nextAttemptAt' = [nextAttemptAt EXCEPT ![r] =
                         IF attemptCount[r] < MaxAttempts
                         THEN attempts[r][worker[w].no].startedAt + Backoff(attemptCount[r])
                         ELSE NULL]
  /\ UNCHANGED <<packageStatus, recorded>>

\* Unknown results, rejections and missing links are terminal.
RecordTerminal(w) ==
  LET r == worker[w].row IN
  /\ CloseAttempt(w)
  /\ worker[w].result # "OK" /\ ~Retryable(worker[w].result)
  /\ status' = [status EXCEPT ![r] = "FAILED"]
  /\ nextAttemptAt' = [nextAttemptAt EXCEPT ![r] = NULL]
  /\ UNCHANGED <<packageStatus, recorded>>

\* SENT, with _persist_success_side_effects in the same transaction.
RecordSent(w) ==
  LET r == worker[w].row IN
  /\ CloseAttempt(w)
  /\ worker[w].result = "OK"
  /\ status' = [status EXCEPT ![r] = "SENT"]
  /\ nextAttemptAt' = [nextAttemptAt EXCEPT ![r] = NULL]
  /\ recorded' = [recorded EXCEPT ![r] = @ + 1]
  /\ packageStatus' = IF r[2] = "contest" /\ r[3] = "submit"
                      THEN [packageStatus EXCEPT ![r[1]] = "SUBMITTED"]
                      ELSE packageStatus

\* The worker dies, or an exception no clause names (storage error, missing
\* dispute, violated unique constraint, lost connection) ends the task: the
\* open transaction is rolled back, the claim stays committed.
Abort(w) ==
  /\ w \in MortalWorkers
  /\ worker[w].pc # "idle"
  /\ worker' = [worker EXCEPT ![w] = Idle]
  /\ UNCHANGED <<db, wire, applied, now>>

Tick ==
  /\ now < MaxClock
  /\ now' = now + 1
  /\ UNCHANGED <<db, worker, wire, applied>>

-----------------------------------------------------------------------------
Transport(w) == RefuseLocally(w) \/ FindLinkMissing(w) \/ Send(w)
Record(w)    == RecordRetryable(w) \/ RecordTerminal(w) \/ RecordSent(w)

Next ==
  \/ \E p \in Packages, docs \in SUBSET Documents : CreatePackage(p, docs)
  \/ \E p \in Packages, action \in Actions : WriteOutbox(p, action)
  \/ \E w \in Workers, r \in Rows, t \in 0..now : Claim(w, r, t)
  \/ \E w \in Workers : RefuseLocally(w)
  \/ \E w \in Workers : FindLinkMissing(w)
  \/ \E w \in Workers : Send(w)
  \/ \E q \in wire : RazorpayApplies(q)
  \/ \E q \in wire : RazorpayRefuses(q)
  \/ \E w \in Workers : TimeOut(w)
  \/ \E w \in Workers : RecordRetryable(w)
  \/ \E w \in Workers : RecordTerminal(w)
  \/ \E w \in Workers : RecordSent(w)
  \/ \E w \in Workers : Abort(w)
  \/ Tick

Spec == Init /\ [][Next]_vars

(***************************************************************************)
(* A task that has claimed a row runs on by itself: the code between the   *)
(* two commits waits for nothing but the HTTP client, whose timeout is 30  *)
(* seconds.  Nothing is assumed of Razorpay, of whoever sends dispatch     *)
(* tasks (no code of the repository does), or of the writer.               *)
(***************************************************************************)
Fairness ==
  \A w \in Workers : /\ WF_vars(Transport(w))
                     /\ WF_vars(TimeOut(w))
                     /\ WF_vars(Record(w))

FairSpec == Spec /\ Fairness
-----------------------------------------------------------------------------
(***************************************************************************)
(*                              Properties                                 *)
(***************************************************************************)

\* Razorpay applies the request of an outbox row at most once, although it
\* offers no idempotency and rows are retried: only a 429 is retried, an
\* unknown result or a claim whose worker died never is ("retrying could
\* double-submit", external_action_tasks.py:38).
AtMostOnceApplied == \A r \in Rows : applied[r] <= 1

\* The database never says more than Razorpay did: a link or a submission
\* is stored once, for a SENT row, whose request was applied; a package is
\* SUBMITTED only when its CONTEST_SUBMIT row is SENT.
RecordsAreReal ==
  /\ \A r \in Rows : /\ recorded[r] = (IF status[r] = "SENT" THEN 1 ELSE 0)
                     /\ status[r] = "SENT" => applied[r] = 1
  /\ \A p \in Packages : packageStatus[p] = "SUBMITTED" =>
                            status[<<p, "contest", "submit">>] = "SENT"

\* When a contest request leaves for Razorpay, all the evidence of its
\* package is there already: rows of a package are dispatched in any order
\* by any workers, build_contest_request is what keeps them apart.
EvidenceBeforeContest ==
  \A r \in ContestRows :
    (applied[r] > 0 \/ \E q \in wire : q[1] = r) =>
      \A d \in packageDocs[r[1]] :
        \E u \in UploadRows : u[3] = d /\ applied[u] = 1

\* The attempt rows tell the whole story of a row: numbered without gaps up
\* to attempt_count, only 429s before the last one, each after the backoff
\* of the one before, the last one open exactly while the row is PROCESSING.
AttemptLedger ==
  \A r \in Rows : \A n \in 1..MaxAttempts :
    LET a == attempts[r][n] IN
    /\ (a.code = "UNMADE") <=> (n > attemptCount[r])
    /\ (a.code = "OPEN") <=> (n = attemptCount[r] /\ status[r] = "PROCESSING")
    /\ n < attemptCount[r] =>
         /\ a.code = "RATE_LIMITED"
         /\ attempts[r][n + 1].startedAt >= a.startedAt + Backoff(n)

\* The outbox keeps the promise of ExternalAction: a row is closed when it is
\* SENT, or FAILED with no further attempt scheduled.
Report(r) ==
  IF status[r] = "SENT" THEN "sent"
  ELSE IF status[r] = "FAILED" /\ nextAttemptAt[r] = NULL THEN "failed"
  ELSE "open"

Promise == INSTANCE ExternalAction WITH
             effect <- applied,
             report <- [r \in Rows |-> Report(r)],
             record <- recorded

KeepsPromise == Promise!Spec

\* A row held by a worker that survives does not stay PROCESSING: the client
\* times out at the latest, and every outcome is recorded.
HeldRowSettles ==
  \A r \in Rows, w \in Workers \ MortalWorkers :
    (worker[w].row = r) ~> (status[r] \in {"SENT", "FAILED"})

\* "The terminal ContestPackage.status=SUBMITTED transition"
\* (external_action_tasks.py:162-163): a submitted package stays submitted.
SubmittedIsTerminal ==
  [][\A p \in Packages : packageStatus[p] = "SUBMITTED" => packageStatus'[p] = "SUBMITTED"]_vars
=============================================================================
