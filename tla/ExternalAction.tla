--------------------------- MODULE ExternalAction ---------------------------
(***************************************************************************)
(* What the outbox promises of each external action, whoever dispatches it *)
(* and whatever fails on the way: Razorpay applies it at most once, the    *)
(* database reports it SENT only after Razorpay applied it and then holds  *)
(* exactly one domain row for it (RazorpayDocumentLink, ContestSubmission),*)
(* and a final report is never revised.  An action reported failed may     *)
(* still take effect: a timeout tells nothing of the request.              *)
(***************************************************************************)
EXTENDS Naturals

CONSTANT Rows      \* the external actions, named by their idempotency keys

VARIABLES
  effect,          \* how often Razorpay has applied the action
  report,          \* what the database says of it
  record           \* how many domain rows it has produced

Init ==
  /\ effect = [r \in Rows |-> 0]
  /\ report = [r \in Rows |-> "open"]
  /\ record = [r \in Rows |-> 0]

TakeEffect(r) ==
  /\ effect[r] = 0
  /\ report[r] # "sent"
  /\ effect' = [effect EXCEPT ![r] = 1]
  /\ UNCHANGED <<report, record>>

ReportSent(r) ==
  /\ effect[r] = 1
  /\ report[r] = "open"
  /\ report' = [report EXCEPT ![r] = "sent"]
  /\ record' = [record EXCEPT ![r] = 1]
  /\ UNCHANGED effect

ReportFailed(r) ==
  /\ report[r] = "open"
  /\ report' = [report EXCEPT ![r] = "failed"]
  /\ UNCHANGED <<effect, record>>

Next == \E r \in Rows : TakeEffect(r) \/ ReportSent(r) \/ ReportFailed(r)

Spec == Init /\ [][Next]_<<effect, report, record>>
=============================================================================
