----------------------------- MODULE CaseReview -----------------------------
(***************************************************************************)
(* The human review of one case (src/backend/app/api/endpoints/review.py,  *)
(* submit_review_action): H-05 dual control, H-18 justified overrides, and *)
(* the decision H-10 reads off it (contest_submission_action_gate.py).     *)
(*                                                                         *)
(* A case has a queue item for every prediction of its risk.  A request    *)
(* names the case only; the handler takes the lock on whichever item the   *)
(* database returns first, and runs to its commit under that lock, so one  *)
(* request is one step.  Requests of different approvers come in any       *)
(* order, and new items arrive in between.                                 *)
(***************************************************************************)
EXTENDS Naturals, Sequences

CONSTANTS
  Items,        \* review queue items of the case (review_queue_items.id)
  Approvers,    \* active users with the APPROVER role
  HighAmount    \* dispute.amount_minor >= DUAL_CONTROL_AMOUNT_THRESHOLD_MINOR

ASSUME HighAmountAssumption == HighAmount \in BOOLEAN

Approvals == {"APPROVE_CONTEST", "APPROVE_ACCEPT"}
Actions   == Approvals \cup {"REJECT_RECOMMENDATION", "ESCALATE", "EDIT_DRAFT"}
             \* EDIT_DRAFT stands for every action without a rule of its own

Verdicts == [recommendation : {"ACCEPT", "REVIEW", "CONTEST"}, hardBlock : BOOLEAN]

Answers == {"none", "created", "NO_ITEM", "ALREADY_DONE", "MISMATCH",
            "SAME_APPROVER", "UNJUSTIFIED"}

VARIABLES
  queue,        \* items that exist, in the order of created_at
  status,       \* ReviewQueueItem.queue_status
  verdict,      \* the RiskPrediction of each item
  pending,      \* pending_review_action_id: an index into log, 0 for NULL
  log,          \* the ReviewAction rows of each item
  answer        \* what the last request was told, "none" after any other step

vars == <<queue, status, verdict, pending, log, answer>>

LogEntry == [reviewer : Approvers, action : Actions, justified : BOOLEAN]

TypeOK ==
  /\ queue \in Seq(Items)
  /\ status \in [Items -> {"PENDING", "PENDING_SECOND_APPROVAL", "DONE"}]
  /\ verdict \in [Items -> Verdicts]
  /\ pending \in [Items -> 0..1]
  /\ log \in [Items -> Seq(LogEntry)] /\ \A i \in Items : Len(log[i]) <= 2
  /\ answer \in Answers

Queued == { queue[n] : n \in 1..Len(queue) }

\* The verdict of an item is the prediction it is created for.
Init ==
  /\ queue = <<>>
  /\ status = [i \in Items |-> "PENDING"]
  /\ verdict \in [Items -> Verdicts]
  /\ pending = [i \in Items |-> 0]
  /\ log = [i \in Items |-> <<>>]
  /\ answer = "none"

-----------------------------------------------------------------------------
\* hydrate_review_queue: created_at is taken when the row is built, so a row
\* committed later may sort before one that is there already.
Enqueue(i, n) ==
  /\ i \notin Queued
  /\ queue' = SubSeq(queue, 1, n) \o <<i>> \o SubSeq(queue, n + 1, Len(queue))
  /\ answer' = "none"
  /\ UNCHANGED <<status, verdict, pending, log>>

-----------------------------------------------------------------------------
RequiresDualApproval(v, a) ==
  /\ a \in Approvals
  /\ HighAmount \/ (a = "APPROVE_CONTEST" /\ v.hardBlock)

\* H-18: what contradicts the model, overrides a hard block or decides what
\* the model left to review needs a reason code and notes.
NeedsOverride(v, a) ==
  \/ a = "APPROVE_CONTEST" /\ (v.recommendation \in {"ACCEPT", "REVIEW"} \/ v.hardBlock)
  \/ a = "APPROVE_ACCEPT" /\ v.recommendation = "CONTEST"
  \/ a = "REJECT_RECOMMENDATION"

Entry(u, a, justified) == [reviewer |-> u, action |-> a, justified |-> justified]

\* The pending first approval of an item.
First(i) == log[i][pending[i]]

Justified(i, a, justified) == NeedsOverride(verdict[i], a) => justified

-----------------------------------------------------------------------------
Refuse(reason) ==
  /\ answer' = reason
  /\ UNCHANGED <<queue, status, verdict, pending, log>>

Record(i, u, a, justified) ==
  /\ log' = [log EXCEPT ![i] = Append(@, Entry(u, a, justified))]
  /\ answer' = "created"
  /\ UNCHANGED <<queue, verdict>>

NoItem == queue = <<>> /\ Refuse("NO_ITEM")

AlreadyDone(i) == status[i] = "DONE" /\ Refuse("ALREADY_DONE")

\* Mutant: the pointer to the cancelled approval is left behind.
EscalateKeepingPending(i, u, a, justified) ==
  /\ status[i] = "PENDING_SECOND_APPROVAL"
  /\ a = "ESCALATE"
  /\ Record(i, u, a, justified)
  /\ status' = [status EXCEPT ![i] = "DONE"]
  /\ UNCHANGED pending

\* ESCALATE cancels a pending first approval and closes the item; anyone may,
\* the first approver too.
Escalate(i, u, a, justified) ==
  /\ status[i] = "PENDING_SECOND_APPROVAL"
  /\ a = "ESCALATE"
  /\ Record(i, u, a, justified)
  /\ status' = [status EXCEPT ![i] = "DONE"]
  /\ pending' = [pending EXCEPT ![i] = 0]

\* The refusals while a second approval is awaited, in the order they are made.
RefuseSecond(i, u, a, justified) ==
  /\ status[i] = "PENDING_SECOND_APPROVAL"
  /\ a # "ESCALATE"
  /\ \/ a # First(i).action /\ Refuse("MISMATCH")
     \/ a = First(i).action /\ u = First(i).reviewer /\ Refuse("SAME_APPROVER")
     \/ /\ a = First(i).action /\ u # First(i).reviewer /\ ~Justified(i, a, justified)
        /\ Refuse("UNJUSTIFIED")

\* Mutant: the reviewer of the first approval is not looked at.
SecondByAnyone(i, u, a, justified) ==
  /\ status[i] = "PENDING_SECOND_APPROVAL"
  /\ a # "ESCALATE" /\ a = First(i).action
  /\ Justified(i, a, justified)
  /\ Record(i, u, a, justified)
  /\ status' = [status EXCEPT ![i] = "DONE"]
  /\ pending' = [pending EXCEPT ![i] = 0]

\* A different approver confirms the pending action, with a reason of their own.
SecondApproval(i, u, a, justified) ==
  /\ status[i] = "PENDING_SECOND_APPROVAL"
  /\ a # "ESCALATE" /\ a = First(i).action
  /\ u # First(i).reviewer
  /\ Justified(i, a, justified)
  /\ Record(i, u, a, justified)
  /\ status' = [status EXCEPT ![i] = "DONE"]
  /\ pending' = [pending EXCEPT ![i] = 0]

RefuseFirst(i, a, justified) ==
  /\ status[i] = "PENDING"
  /\ ~Justified(i, a, justified)
  /\ Refuse("UNJUSTIFIED")

\* A gated approval waits for a second approver.
FirstApproval(i, u, a, justified) ==
  /\ status[i] = "PENDING"
  /\ Justified(i, a, justified)
  /\ RequiresDualApproval(verdict[i], a)
  /\ Record(i, u, a, justified)
  /\ status' = [status EXCEPT ![i] = "PENDING_SECOND_APPROVAL"]
  /\ pending' = [pending EXCEPT ![i] = Len(log[i]) + 1]

\* Mutant: an item that is DONE takes a further action.
FinalizeAgain(i, u, a, justified) ==
  /\ status[i] # "PENDING_SECOND_APPROVAL"
  /\ Justified(i, a, justified)
  /\ ~RequiresDualApproval(verdict[i], a)
  /\ Record(i, u, a, justified)
  /\ status' = [status EXCEPT ![i] = "DONE"]
  /\ UNCHANGED pending

\* Any other action closes the item.
Finalize(i, u, a, justified) ==
  /\ status[i] = "PENDING"
  /\ Justified(i, a, justified)
  /\ ~RequiresDualApproval(verdict[i], a)
  /\ Record(i, u, a, justified)
  /\ status' = [status EXCEPT ![i] = "DONE"]
  /\ UNCHANGED pending

\* The lock goes to the item the query happens to return: it has neither a
\* condition on the status nor an ORDER BY.
SubmitReviewAction(i, u, a, justified) ==
  \/ AlreadyDone(i)
  \/ Escalate(i, u, a, justified)
  \/ RefuseSecond(i, u, a, justified)
  \/ SecondApproval(i, u, a, justified)
  \/ RefuseFirst(i, a, justified)
  \/ FirstApproval(i, u, a, justified)
  \/ Finalize(i, u, a, justified)

Next ==
  \/ \E i \in Items, n \in 0..Len(queue) : Enqueue(i, n)
  \/ NoItem
  \/ \E i \in Queued, u \in Approvers, a \in Actions, justified \in BOOLEAN :
       SubmitReviewAction(i, u, a, justified)

Spec == Init /\ [][Next]_vars
-----------------------------------------------------------------------------
(* H-10, determine_contest_submission_action: what the newest item of the   *)
(* case says, whatever the older ones say.                                 *)

Newest == queue[Len(queue)]
Final(i) == log[i][Len(log[i])]

SubmissionAction ==
  IF /\ queue # <<>>
     /\ status[Newest] = "DONE"
     /\ log[Newest] # <<>>
     /\ Final(Newest).action = "APPROVE_CONTEST"
  THEN "submit" ELSE "draft"
-----------------------------------------------------------------------------
(***************************************************************************)
(*                              Properties                                 *)
(***************************************************************************)

\* A first approval is remembered exactly while the item waits for the second:
\* pending_review_action_id then is the only action on the item, a gated
\* approval, and it is NULL in every other state, also after an ESCALATE.
PendingIsFirstApproval ==
  \A i \in Items :
    /\ (pending[i] # 0) <=> (status[i] = "PENDING_SECOND_APPROVAL")
    /\ pending[i] # 0 => /\ pending[i] = 1 /\ Len(log[i]) = 1
                         /\ RequiresDualApproval(verdict[i], log[i][1].action)

\* When H-10 lets a contest be submitted, the newest item was approved by the
\* people it takes: two approvers who both gave the same approval where dual
\* control is required, and whoever contradicted the model said why, the second
\* approver too.
SubmitIsApproved ==
  SubmissionAction = "submit" =>
    LET l == log[Newest]  v == verdict[Newest] IN
    /\ RequiresDualApproval(v, "APPROVE_CONTEST") =>
         \E m, n \in 1..Len(l) : /\ l[m].reviewer # l[n].reviewer
                                 /\ l[m].action = "APPROVE_CONTEST"
                                 /\ l[n].action = "APPROVE_CONTEST"
    /\ \A n \in 1..Len(l) : NeedsOverride(v, l[n].action) => l[n].justified

\* Nothing but a newer queue item withdraws the permission to submit: no action
\* on any item of the case can.
SubmitStands ==
  [][SubmissionAction = "submit" => (SubmissionAction' = "submit" \/ Newest' # Newest)]_vars

\* Who stands for the last action on an item.
Names(l) ==
  { <<l[n].reviewer, l[n].action>> :
      n \in { m \in 1..Len(l) : l[m].action = l[Len(l)].action } }

\* The decision on an item is its last action, once the item is DONE.
Decision(i) == IF status[i] = "DONE" THEN Final(i).action ELSE "open"

Eyes == INSTANCE FourEyes WITH
          gated <- { q \in Items \X Actions : RequiresDualApproval(verdict[q[1]], q[2]) },
          decision <- [i \in Items |-> Decision(i)],
          names <- [i \in Items |-> Names(log[i])]

\* Every item keeps the promise of FourEyes: no sequence of requests, answers
\* and new items decides a gated action on the word of one approver, and no
\* decision is ever taken back or taken twice.
KeepsFourEyes == Eyes!Spec

\* "Locate and lock an actionable ReviewQueueItem for the case" (review.py:213):
\* a request is told that the item is DONE only when the case has no other.
ActionableItemIsFound ==
  answer = "ALREADY_DONE" => \A i \in Queued : status[i] = "DONE"
=============================================================================
