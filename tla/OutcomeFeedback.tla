-------------------------- MODULE OutcomeFeedback --------------------------
(***************************************************************************)
(* What became of a contest, told by Razorpay's outcome webhooks            *)
(* (src/backend/app/api/endpoints/outcome_webhooks.py,                     *)
(* services/outcome_feedback/outcome_ingestion.py), and the labels a        *)
(* maintainer curates from it (curation.py).  One dispute; its predictions  *)
(* are numbered in the order they were made.                               *)
(***************************************************************************)
EXTENDS Integers, Sequences, FiniteSets

CONSTANTS Deliveries, \* of webhooks
          EventOf,    \* delivery -> X-Razorpay-Event-Id
          Handled,    \* the events that say won, lost or closed
          Curations,  \* requests
          MaxSubmissions

VARIABLES scored,      \* how many predictions there are
          known,       \* whether the dispute was ingested
          submissions, \* Seq of [action, basis], in the order of submitted_at: what was asked for,
                       \* the predictions there were
          delivery, outcomes, \* Seq of [event, submission, prediction], 0 for none
          curation, labels    \* Seq of [outcome, version]

feedbackVars == <<known, submissions, delivery, outcomes, curation, labels>>

NotDelivered == [pc |-> "sent"]
NoCuration == [pc |-> "waiting"]

FeedbackTypeOK ==
  /\ scored \in Nat /\ known \in BOOLEAN
  /\ submissions \in Seq([action : {"draft", "submit"}, basis : Nat])
  /\ delivery \in [Deliveries -> {NotDelivered} \cup [pc : {"resolved", "done"}, submission : Nat, prediction : Nat]]
  /\ outcomes \in Seq([event : {EventOf[d] : d \in Deliveries}, submission : Nat, prediction : Nat])
  /\ curation \in [Curations -> {NoCuration} \cup [pc : {"read", "done"}, outcome : Nat, version : Nat]]
  /\ labels \in Seq([outcome : Nat, version : Nat])

FeedbackInit ==
  /\ known = FALSE /\ submissions = <<>>
  /\ delivery = [d \in Deliveries |-> NotDelivered] /\ outcomes = <<>>
  /\ curation = [c \in Curations |-> NoCuration] /\ labels = <<>>

\* Module A's mapping of the dispute to its case.
IngestDispute ==
  /\ ~known
  /\ known' = TRUE
  /\ UNCHANGED <<scored, submissions, delivery, outcomes, curation, labels>>

\* The dispatch records a contest that succeeded, some time after Razorpay saw it.
RecordSubmission(action) ==
  /\ known /\ scored > 0
  /\ Len(submissions) < MaxSubmissions
  /\ submissions' = Append(submissions, [action |-> action, basis |-> scored])
  /\ UNCHANGED <<scored, known, delivery, outcomes, curation, labels>>

Submitted == {n \in DOMAIN submissions : submissions[n].action = "submit"}

Latest(n) == n \in Submitted /\ \A k \in Submitted : k <= n

\* To the latest contest submitted and the newest prediction of its case,
\* else to the case of the dispute; neither is answered by 422 and sent again.
Resolve(d) ==
  /\ delivery[d] = NotDelivered /\ EventOf[d] \in Handled
  /\ Submitted # {} \/ known
  /\ \E n \in 0..MaxSubmissions :
       /\ IF Submitted = {} THEN n = 0 ELSE Latest(n)
       /\ delivery' = [delivery EXCEPT ![d] =
            [pc |-> "resolved", submission |-> n, prediction |-> IF n = 0 THEN 0 ELSE scored]]
  /\ UNCHANGED <<scored, known, submissions, outcomes, curation, labels>>

\* Mutant: no unique constraint on the event.
RecordTwice(d) ==
  /\ delivery[d].pc = "resolved"
  /\ outcomes' = Append(outcomes, [event |-> EventOf[d], submission |-> delivery[d].submission,
                                   prediction |-> delivery[d].prediction])
  /\ delivery' = [delivery EXCEPT ![d].pc = "done"]
  /\ UNCHANGED <<scored, known, submissions, curation, labels>>

\* The commit, or the rollback of an event that has its row.
Record(d) ==
  /\ delivery[d].pc = "resolved"
  /\ IF \E n \in DOMAIN outcomes : outcomes[n].event = EventOf[d]
     THEN UNCHANGED outcomes
     ELSE outcomes' = Append(outcomes, [event |-> EventOf[d], submission |-> delivery[d].submission,
                                        prediction |-> delivery[d].prediction])
  /\ delivery' = [delivery EXCEPT ![d].pc = "done"]
  /\ UNCHANGED <<scored, known, submissions, curation, labels>>

-----------------------------------------------------------------------------
LabelsOf(o) == {n \in DOMAIN labels : labels[n].outcome = o}

\* The highest version an outcome's labels have, 0 if it has none.
Highest(o, v) ==
  /\ \A n \in LabelsOf(o) : labels[n].version <= v
  /\ v = 0 \/ \E n \in LabelsOf(o) : labels[n].version = v

ReadVersion(c, o) ==
  /\ curation[c] = NoCuration /\ o \in DOMAIN outcomes
  /\ \E v \in 0..Len(labels) :
       /\ Highest(o, v)
       /\ curation' = [curation EXCEPT ![c] = [pc |-> "read", outcome |-> o, version |-> v + 1]]
  /\ UNCHANGED <<scored, known, submissions, delivery, outcomes, labels>>

\* Nothing but the row is checked: two curations at once store one version twice.
StoreLabel(c) ==
  /\ curation[c].pc = "read"
  /\ labels' = Append(labels, [outcome |-> curation[c].outcome, version |-> curation[c].version])
  /\ curation' = [curation EXCEPT ![c].pc = "done"]
  /\ UNCHANGED <<scored, known, submissions, delivery, outcomes>>

FeedbackStep ==
  \/ IngestDispute
  \/ \E action \in {"draft", "submit"} : RecordSubmission(action)
  \/ \E d \in Deliveries : Resolve(d) \/ Record(d)
  \/ \E c \in Curations : StoreLabel(c) \/ \E o \in DOMAIN outcomes : ReadVersion(c, o)
-----------------------------------------------------------------------------
\* What is learned from an outcome can be traced, although deliveries of one
\* event race each other and the dispatch: an event has one row; a row that
\* names a contest names one that was submitted, not a draft, and a prediction
\* not older than those the contest was made with; the labels of an outcome are
\* numbered from 1 without a gap, although two may have one number.
FeedbackIsSound ==
  /\ \A m, n \in DOMAIN outcomes : outcomes[m].event = outcomes[n].event => m = n
  /\ \A n \in DOMAIN outcomes :
       IF outcomes[n].submission = 0 THEN outcomes[n].prediction = 0
       ELSE /\ outcomes[n].submission \in Submitted
            /\ submissions[outcomes[n].submission].basis <= outcomes[n].prediction
            /\ outcomes[n].prediction <= scored
  /\ \A n \in DOMAIN labels :
       /\ labels[n].outcome \in DOMAIN outcomes
       /\ \A v \in 1..labels[n].version : \E k \in LabelsOf(labels[n].outcome) : labels[k].version = v
=============================================================================
