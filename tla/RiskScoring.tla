---------------------------- MODULE RiskScoring ----------------------------
(***************************************************************************)
(* The scoring of a validated case and its arrival in the review queue     *)
(* (src/backend/app/worker/risk_scoring_tasks.py, services/ml/inference.py,*)
(* services/review/queue.py), composed with EvidenceValidation.            *)
(*                                                                         *)
(* A score_risk_task is one transaction, but a long one: it reads the      *)
(* newest snapshot, runs the model, inserts a prediction, reads the newest *)
(* prediction it can see, inserts a queue item and commits.  The message   *)
(* names the case only, so tasks of several runs may score the same        *)
(* snapshot.  Under READ COMMITTED each statement sees what is committed   *)
(* when it starts, and its own rows.                                       *)
(*                                                                         *)
(* A task is named by the delivery whose persistence sent its message; the *)
(* prediction and the queue item it inserts are named by the task.         *)
(***************************************************************************)
EXTENDS EvidenceValidation

CONSTANT MaxScoreRetries    \* max_retries of score_risk_task

ASSUME ScoringAssumption == MaxScoreRetries \in Nat

VARIABLES
  score,        \* the progress of each score_risk_task
  prediction,   \* the RiskPrediction row of each task
  item          \* the ReviewQueueItem row of each task

scoreVars == <<score, prediction, item>>
allVars   == <<vars, scoreVars>>

None == <<"none">>      \* no delivery

\* A row is visible to others once it is committed; of names what it was
\* made for, a snapshot or a prediction.
Row == [state : {"none", "open", "committed"}, of : Deliveries \cup {None}, createdAt : Nat]

NoRow == [state |-> "none", of |-> None, createdAt |-> 0]

ScoreState == [pc       : {"idle", "scoring", "predicted", "queued", "done"},
               retries  : 0..MaxScoreRetries,
               snapshot : Deliveries \cup {None},
               seenCase : {"none"} \cup States]

Unscored == [pc |-> "idle", retries |-> 0, snapshot |-> None, seenCase |-> "none"]

ScoringTypeOK ==
  /\ score \in [Deliveries -> ScoreState]
  /\ prediction \in [Deliveries -> Row]
  /\ item \in [Deliveries -> Row]

ScoringInit ==
  /\ score = [d \in Deliveries |-> Unscored]
  /\ prediction = [d \in Deliveries |-> NoRow]
  /\ item = [d \in Deliveries |-> NoRow]

-----------------------------------------------------------------------------
\* The current snapshot: all are is_current, ORDER BY created_at DESC decides.
LatestSnapshot == CHOOSE d \in Deliveries :
                    \A e \in Deliveries : snapshot[e] <= snapshot[d]

Visible(rows, d) == { e \in Deliveries : \/ rows[e].state = "committed"
                                         \/ e = d /\ rows[e].state = "open" }

\* Mutant: ascending order.
OldestPrediction(d) == CHOOSE p \in Visible(prediction, d) :
                         \A q \in Visible(prediction, d) :
                           prediction[q].createdAt >= prediction[p].createdAt

\* The prediction that ORDER BY created_at DESC puts first for a task.
LatestPrediction(d) == CHOOSE p \in Visible(prediction, d) :
                         \A q \in Visible(prediction, d) :
                           prediction[q].createdAt <= prediction[p].createdAt

Predicted(s) == \E p \in Deliveries : prediction[p].state = "committed" /\ prediction[p].of = s

\* score_case, up to the insertion: the prediction of the snapshot may be there.
ReadSnapshot(d) ==
  /\ d \in sent
  /\ score[d].pc = "idle"
  /\ score' = [score EXCEPT ![d] = [@ EXCEPT
                 !.pc = IF Predicted(LatestSnapshot) THEN "predicted" ELSE "scoring",
                 !.snapshot = LatestSnapshot]]
  /\ UNCHANGED <<vars, prediction, item>>

\* Mutant: the case moves on without a prediction.
NoChampionMovesOn(d) ==
  /\ d \in sent
  /\ score[d].pc = "idle"
  /\ ~Predicted(LatestSnapshot)
  /\ score' = [score EXCEPT ![d].pc = "done"]
  /\ processingState' = "RISK_SCORED"
  /\ UNCHANGED <<runStatus, task, snapshot, sent, time, prediction, item>>

\* No champion on this machine: a clean end, the message is gone.
NoChampion(d) ==
  /\ d \in sent
  /\ score[d].pc = "idle"
  /\ ~Predicted(LatestSnapshot)
  /\ score' = [score EXCEPT ![d].pc = "done"]
  /\ UNCHANGED <<vars, prediction, item>>

\* Mutant: no UNIQUE key, the insertion looks for committed rows only.
NoCommittedRow(d) == ~Predicted(score[d].snapshot)

\* INSERT, UNIQUE idempotency_key pred_{snapshot}: waits for an open row of the
\* same key and fails on a committed one.
NoOtherRow(d) ==
  \A p \in Deliveries : prediction[p].state # "none" => prediction[p].of # score[d].snapshot

InsertPrediction(d) ==
  /\ score[d].pc = "scoring"
  /\ NoOtherRow(d)
  /\ time' = time + 1
  /\ prediction' = [prediction EXCEPT ![d] =
                      [state |-> "open", of |-> score[d].snapshot, createdAt |-> time']]
  /\ score' = [score EXCEPT ![d].pc = "predicted"]
  /\ UNCHANGED <<processingState, runStatus, task, snapshot, sent, item>>

\* hydrate_review_queue.  The lookup of the item needs no step of its own: the
\* newest prediction, if committed, was committed together with its item.
InQueue(p, d) == \E i \in Visible(item, d) : item[i].of = p

\* Mutant: an item of an older prediction makes way for the new one.
HydrateReplacing(d) ==
  LET p == LatestPrediction(d) IN
  /\ score[d].pc = "predicted"
  /\ ~InQueue(p, d)
  /\ time' = time + 1
  /\ item' = [i \in Deliveries |-> IF i = d
                THEN [state |-> "open", of |-> p, createdAt |-> time'] ELSE NoRow]
  /\ score' = [score EXCEPT ![d] = [@ EXCEPT !.pc = "queued", !.seenCase = processingState]]
  /\ UNCHANGED <<processingState, runStatus, task, snapshot, sent, prediction>>

HydrateReviewQueue(d) ==
  LET p == LatestPrediction(d) IN
  /\ score[d].pc = "predicted"
  /\ IF InQueue(p, d)
     THEN UNCHANGED <<item, time>>
     ELSE /\ time' = time + 1
          /\ item' = [item EXCEPT ![d] =
                        [state |-> "open", of |-> p, createdAt |-> time']]
  /\ score' = [score EXCEPT ![d] = [@ EXCEPT !.pc = "queued", !.seenCase = processingState]]
  /\ UNCHANGED <<processingState, runStatus, task, snapshot, sent, prediction>>

Committed(row) == IF row.state = "open" THEN [row EXCEPT !.state = "committed"] ELSE row

\* The state of the case is written from what was read before.
CommitScore(d) ==
  /\ score[d].pc = "queued"
  /\ prediction' = [prediction EXCEPT ![d] = Committed(@)]
  /\ item' = [item EXCEPT ![d] = Committed(@)]
  /\ processingState' = IF score[d].seenCase = "FEATURE_READY" THEN "RISK_SCORED"
                        ELSE processingState
  /\ score' = [score EXCEPT ![d].pc = "done"]
  /\ UNCHANGED <<runStatus, task, snapshot, sent, time>>

\* Mutant: one retry too many.
RollBackOnceMore(d) ==
  /\ score[d].pc \in {"scoring", "predicted", "queued"}
  /\ prediction' = [prediction EXCEPT ![d] = NoRow]
  /\ item' = [item EXCEPT ![d] = NoRow]
  /\ score' = [score EXCEPT ![d] =
                 IF score[d].retries <= MaxScoreRetries
                 THEN [Unscored EXCEPT !.retries = score[d].retries + 1]
                 ELSE [Unscored EXCEPT !.pc = "done", !.retries = score[d].retries]]
  /\ UNCHANGED vars

\* Any exception, the violated UNIQUE constraint too: rollback and retry.
RollBack(d) ==
  /\ score[d].pc \in {"scoring", "predicted", "queued"}
  /\ prediction' = [prediction EXCEPT ![d] = NoRow]
  /\ item' = [item EXCEPT ![d] = NoRow]
  /\ score' = [score EXCEPT ![d] =
                 IF score[d].retries < MaxScoreRetries
                 THEN [Unscored EXCEPT !.retries = score[d].retries + 1]
                 ELSE [Unscored EXCEPT !.pc = "done", !.retries = score[d].retries]]
  /\ UNCHANGED vars

Score(d) ==
  \/ ReadSnapshot(d) \/ NoChampion(d) \/ InsertPrediction(d)
  \/ HydrateReviewQueue(d) \/ CommitScore(d) \/ RollBack(d)

ScoringNext ==
  \/ Next /\ UNCHANGED scoreVars
  \/ \E d \in Deliveries : Score(d)

ScoringSpec == Init /\ ScoringInit /\ [][ScoringNext]_allVars
-----------------------------------------------------------------------------
(***************************************************************************)
(*                              Properties                                 *)
(***************************************************************************)

Queue == { i \in Deliveries : item[i].state = "committed" }

\* A snapshot brings one item into the queue at most ("Avoid duplicate queue
\* items", queue.py:19), although its tasks run side by side and no constraint
\* of the database says so of the items: the key of the prediction does it.
OneItemPerSnapshot ==
  \A i, j \in Deliveries :
    /\ item[i].state # "none" /\ item[j].state # "none"
    /\ prediction[item[i].of].of = prediction[item[j].of].of
    => i = j

\* The newest prediction of the case is in the review queue as soon as it is
\* there at all, whatever other tasks of the case do at the same time.
NewestIsQueued ==
  \A p \in Deliveries :
    /\ prediction[p].state = "committed"
    /\ \A q \in Deliveries : prediction[q].state = "committed" =>
                               prediction[q].createdAt <= prediction[p].createdAt
    => \E i \in Queue : item[i].of = p

\* A case that reached RISK_SCORED has something in the review queue.
ScoredIsQueued == processingState = "RISK_SCORED" => Queue # {}
=============================================================================
