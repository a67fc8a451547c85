------------------------- MODULE EvidenceValidation -------------------------
(***************************************************************************)
(* The validation of the evidence of one case                              *)
(* (src/backend/app/worker/validation_tasks.py, services/validation.py).   *)
(*                                                                         *)
(* A request creates a run for the current version of the evidence and     *)
(* sends a Celery message; executing it is up to four transactions: claim, *)
(* computation without any lock, persistence, or the reset after a failure.*)
(* The claim and the persistence lock the run.  Nothing ever locks the     *)
(* case, although all of them read and write its processing_state: runs of *)
(* several versions work on the case at the same time.                     *)
(***************************************************************************)
EXTENDS Naturals

CONSTANTS
  Runs,         \* validation runs of the case, one for each evidence version
  Duplicated,   \* runs whose message the broker delivers twice
  Mortal,       \* runs whose workers may be killed
  MaxRetries    \* max_retries of the Celery task

ASSUME ConstantsAssumption ==
  /\ Duplicated \subseteq Runs
  /\ Mortal \subseteq Runs
  /\ MaxRetries \in Nat

Deliveries == (Runs \X {1}) \cup (Duplicated \X {2})

VARIABLES
  processingState,  \* Case.processing_state
  runStatus,        \* EvidenceValidationRun.status, ABSENT before the row exists
  task,             \* the progress of each delivery and its retries
  snapshot,         \* created_at of the CaseFeatureSnapshot row that a
                    \* delivery persisted, 0 if it did not
  sent,             \* deliveries that went on to send score_risk_task
  time              \* the last created_at given out

vars == <<processingState, runStatus, task, snapshot, sent, time>>

States == {"EVIDENCE_READY", "D_INTELLIGENCE_READY", "E_VALIDATING",
           "FEATURE_READY", "RISK_SCORED"}

TaskState == [pc       : {"absent", "queued", "claiming", "computing", "persisting",
                          "failing", "resetting", "done", "lost"},
              retries  : 0..MaxRetries,
              seenRun  : {"none", "RUNNING", "FAILED", "COMPLETED"},
              seenCase : {"none"} \cup States]

NoTask == [pc |-> "absent", retries |-> 0, seenRun |-> "none", seenCase |-> "none"]

TypeOK ==
  /\ processingState \in States
  /\ runStatus \in [Runs -> {"ABSENT", "RUNNING", "FAILED", "COMPLETED"}]
  /\ task \in [Deliveries -> TaskState]
  /\ snapshot \in [Deliveries -> Nat]
  /\ sent \subseteq Deliveries
  /\ time \in Nat

Init ==
  /\ processingState = "EVIDENCE_READY"
  /\ runStatus = [r \in Runs |-> "ABSENT"]
  /\ task = [d \in Deliveries |-> NoTask]
  /\ snapshot = [d \in Deliveries |-> 0]
  /\ sent = {}
  /\ time = 0

\* The session is closed: what it read is forgotten.
Goto(d, pc) == task' = [task EXCEPT ![d] = [NoTask EXCEPT !.pc = pc, !.retries = task[d].retries]]

\* Mutant: one retry too many.
RetriedOnceMore(t, end) ==
  IF t.retries <= MaxRetries
  THEN [NoTask EXCEPT !.pc = "queued", !.retries = t.retries + 1]
  ELSE [NoTask EXCEPT !.pc = end, !.retries = t.retries]

\* self.retry: the message is queued again until max_retries is used up.
Retried(t, end) ==
  IF t.retries < MaxRetries
  THEN [NoTask EXCEPT !.pc = "queued", !.retries = t.retries + 1]
  ELSE [NoTask EXCEPT !.pc = end, !.retries = t.retries]

-----------------------------------------------------------------------------
\* The document intelligence of the case is complete.  No code of the service
\* does this; the benchmark and the tests set the state directly.
MarkReady ==
  /\ processingState \notin {"D_INTELLIGENCE_READY", "E_VALIDATING"}
  /\ processingState' = "D_INTELLIGENCE_READY"
  /\ UNCHANGED <<runStatus, task, snapshot, sent, time>>

\* prepare_validation_run commits the run, the endpoint then sends the message,
\* which may fail.  A run that is there is returned as it is: UNIQUE
\* idempotency_key, and no second message whatever its status.
Request(r) ==
  /\ runStatus[r] = "ABSENT"
  /\ runStatus' = [runStatus EXCEPT ![r] = "RUNNING"]
  /\ \E pc \in {"queued", "lost"} :
       task' = [d \in Deliveries |-> IF d[1] = r THEN [NoTask EXCEPT !.pc = pc] ELSE task[d]]
  /\ UNCHANGED <<processingState, snapshot, sent, time>>

-----------------------------------------------------------------------------
(* The claim: SELECT ... FOR UPDATE SKIP LOCKED on the run.  The state of   *)
(* the case is read in one statement and overwritten at the commit.        *)

Locked(r) == \E d \in Deliveries : d[1] = r /\ task[d].pc \in {"claiming", "persisting"}

\* Locked by another worker, or COMPLETED.
Skip(d) ==
  /\ task[d].pc = "queued"
  /\ Locked(d[1]) \/ runStatus[d[1]] = "COMPLETED"
  /\ Goto(d, "done")
  /\ UNCHANGED <<processingState, runStatus, snapshot, sent, time>>

\* Mutant: a case that is not eligible is left alone, and so is the run.
RefuseQuietly(d) ==
  /\ task[d].pc = "queued"
  /\ ~Locked(d[1]) /\ runStatus[d[1]] # "COMPLETED"
  /\ processingState # "D_INTELLIGENCE_READY"
  /\ Goto(d, "done")
  /\ UNCHANGED <<processingState, runStatus, snapshot, sent, time>>

\* E-01, the eligibility gate: the run fails for good, it is not retried.
RefuseCase(d) ==
  /\ task[d].pc = "queued"
  /\ ~Locked(d[1]) /\ runStatus[d[1]] # "COMPLETED"
  /\ processingState # "D_INTELLIGENCE_READY"
  /\ runStatus' = [runStatus EXCEPT ![d[1]] = "FAILED"]
  /\ Goto(d, "done")
  /\ UNCHANGED <<processingState, snapshot, sent, time>>

AcceptCase(d) ==
  /\ task[d].pc = "queued"
  /\ ~Locked(d[1]) /\ runStatus[d[1]] # "COMPLETED"
  /\ processingState = "D_INTELLIGENCE_READY"
  /\ Goto(d, "claiming")
  /\ UNCHANGED <<processingState, runStatus, snapshot, sent, time>>

Claim(d) ==
  /\ task[d].pc = "claiming"
  /\ processingState' = "E_VALIDATING"
  /\ runStatus' = [runStatus EXCEPT ![d[1]] = "RUNNING"]
  /\ Goto(d, "computing")
  /\ UNCHANGED <<snapshot, sent, time>>

\* A database error during the claim changes nothing but the task; at the last
\* retry nobody marks the run.
ClaimFails(d) ==
  /\ task[d].pc = "claiming"
  /\ task' = [task EXCEPT ![d] = Retried(@, "lost")]
  /\ UNCHANGED <<processingState, runStatus, snapshot, sent, time>>

-----------------------------------------------------------------------------
(* Computation and persistence.  The UPDATE that makes older snapshots not  *)
(* current belongs to the session of the computation, which is closed      *)
(* without a commit: every snapshot stays current, the newest one counts.  *)

\* Mutant: the table has no UNIQUE (validation_run_id).
NotUnique(d) == TRUE

Unique(d) == \A e \in Deliveries : e[1] = d[1] => snapshot[e] = 0

ReadForPersist(d) ==
  /\ task[d].pc = "computing"
  /\ ~Locked(d[1]) /\ runStatus[d[1]] = "RUNNING"
  /\ task' = [task EXCEPT ![d] = [@ EXCEPT !.pc = "persisting", !.seenCase = processingState]]
  /\ UNCHANGED <<processingState, runStatus, snapshot, sent, time>>

\* A case that was FEATURE_READY when it was read is not written at all.
Persist(d) ==
  /\ task[d].pc = "persisting"
  /\ Unique(d)
  /\ time' = time + 1
  /\ snapshot' = [snapshot EXCEPT ![d] = time']
  /\ processingState' = IF task[d].seenCase = "FEATURE_READY" THEN processingState
                        ELSE "FEATURE_READY"
  /\ runStatus' = [runStatus EXCEPT ![d[1]] = "COMPLETED"]
  /\ sent' \in {sent, sent \cup {d}}
  /\ Goto(d, "done")

\* Somebody else ended the run meanwhile: the results are dropped.
PersistNothing(d) ==
  /\ task[d].pc = "computing"
  /\ ~Locked(d[1]) /\ runStatus[d[1]] # "RUNNING"
  /\ Goto(d, "done")
  /\ UNCHANGED <<processingState, runStatus, snapshot, sent, time>>

\* An exception of the computation, a database error of the persistence, or
\* a second snapshot of the run refused by its UNIQUE constraint.
Fail(d) ==
  /\ task[d].pc \in {"computing", "persisting"}
  /\ Goto(d, "failing")
  /\ UNCHANGED <<processingState, runStatus, snapshot, sent, time>>

\* The reset reads the run and the case without a lock ...
ReadForReset(d) ==
  /\ task[d].pc = "failing"
  /\ task' = [task EXCEPT ![d] = [@ EXCEPT !.pc = "resetting", !.seenRun = runStatus[d[1]],
                                           !.seenCase = processingState]]
  /\ UNCHANGED <<processingState, runStatus, snapshot, sent, time>>

\* Mutant: the case is forgotten.
ResetRunOnly(d) ==
  /\ task[d].pc = "resetting"
  /\ ~Locked(d[1])
  /\ runStatus' = [runStatus EXCEPT ![d[1]] = "FAILED"]
  /\ task' = [task EXCEPT ![d] = Retried(@, "done")]
  /\ UNCHANGED <<processingState, snapshot, sent, time>>

\* ... and writes what it changed of them.
Reset(d) ==
  /\ task[d].pc = "resetting"
  /\ IF task[d].seenRun = "FAILED" THEN UNCHANGED runStatus
     ELSE ~Locked(d[1]) /\ runStatus' = [runStatus EXCEPT ![d[1]] = "FAILED"]
  /\ processingState' = IF task[d].seenCase = "E_VALIDATING"
                        THEN "D_INTELLIGENCE_READY" ELSE processingState
  /\ task' = [task EXCEPT ![d] = Retried(@, "done")]
  /\ UNCHANGED <<snapshot, sent, time>>

\* The worker is killed (time limit, deployment): the message was acknowledged
\* when it was taken, the open transaction is rolled back.
Die(d) ==
  /\ d[1] \in Mortal
  /\ task[d].pc \in {"claiming", "computing", "persisting", "failing", "resetting"}
  /\ Goto(d, "lost")
  /\ UNCHANGED <<processingState, runStatus, snapshot, sent, time>>

-----------------------------------------------------------------------------
Execute(d) ==
  \/ Skip(d) \/ RefuseCase(d) \/ AcceptCase(d) \/ Claim(d) \/ ClaimFails(d)
  \/ ReadForPersist(d) \/ Persist(d) \/ PersistNothing(d) \/ Fail(d)
  \/ ReadForReset(d) \/ Reset(d)

Next ==
  \/ MarkReady
  \/ \E r \in Runs : Request(r)
  \/ \E d \in Deliveries : Execute(d)
  \/ \E d \in Deliveries : Die(d)

Spec == Init /\ [][Next]_vars

\* A task that was started runs on; nobody is obliged to request anything.
Fairness == \A d \in Deliveries : WF_vars(Execute(d))

FairSpec == Spec /\ Fairness
-----------------------------------------------------------------------------
(***************************************************************************)
(*                              Properties                                 *)
(***************************************************************************)

\* A run has at most one snapshot, however often it is delivered, retried and
\* claimed again after it was COMPLETED.
OneSnapshotPerRun ==
  \A d, e \in Deliveries :
    d[1] = e[1] /\ snapshot[d] # 0 /\ snapshot[e] # 0 => d = e

\* A run that is RUNNING has a task that works on it or still will, unless its
\* message or its worker was lost or the database refused every claim: no other
\* way through the task forgets a run.
RunningHasTask ==
  \A r \in Runs : runStatus[r] = "RUNNING" =>
    \E d \in Deliveries : d[1] = r /\ task[d].pc \notin {"absent", "done"}

\* A case whose run is claimed by a worker that survives leaves E_VALIDATING,
\* whatever the other runs of the case do, if the message came only once.
ValidationEnds ==
  \A r \in Runs \ (Mortal \cup Duplicated) :
    (task[<<r, 1>>].pc = "computing") ~> (processingState # "E_VALIDATING")

\* E-01, the "Eligibility Gate Check" (validation_tasks.py:44): only a case that
\* is D_INTELLIGENCE_READY is taken to E_VALIDATING.
EligibilityGate ==
  [][\A d \in Deliveries :
       task[d].pc = "claiming" /\ task'[d].pc = "computing" =>
         processingState = "D_INTELLIGENCE_READY"]_vars
=============================================================================
