------------------------- MODULE ScoringFeedsReview -------------------------
(***************************************************************************)
(* RiskScoring and CaseReview put together: the queue items that the       *)
(* concurrent scoring tasks commit are the items that CaseReview's Enqueue *)
(* puts into the queue of the case.                                        *)
(***************************************************************************)
EXTENDS RiskScoring, FiniteSets

\* What ORDER BY created_at makes of rows that are all of another age: the n-th
\* is the one with n - 1 older ones.
Older(age, i) == {j \in DOMAIN age : age[j] < age[i]}
InOrder(age) ==
  [n \in 1..Cardinality(DOMAIN age) |->
     CHOOSE i \in DOMAIN age : Cardinality(Older(age, i)) = n - 1]

\* Scoring touches the queue of the review and nothing else of it.
Review == INSTANCE CaseReview WITH
            Items <- Deliveries, Approvers <- {}, HighAmount <- FALSE,
            queue <- InOrder([i \in Queue |-> item[i].createdAt]),
            status <- [i \in Deliveries |-> "PENDING"],
            verdict <- [i \in Deliveries |-> [recommendation |-> "REVIEW", hardBlock |-> FALSE]],
            pending <- [i \in Deliveries |-> 0],
            log <- [i \in Deliveries |-> <<>>],
            answer <- "none"

\* To the review of a case, its scoring is what Enqueue says it is: items come
\* one at a time, each once, they sort anywhere among the others, and none is
\* ever taken back, reordered or replaced, whatever is retried and rolled back.
FeedsReview == Review!Spec
=============================================================================
