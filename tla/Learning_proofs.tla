-------------------------- MODULE Learning_proofs --------------------------
(***************************************************************************)
(* What comes back of a contest, which model scores, and what it learns    *)
(* from, for any number of models, runs, workers, deliveries, events,      *)
(* curations, customers and examples.                                      *)
(***************************************************************************)
EXTENDS Learning, FiniteSetTheorems, WellFoundedInduction, TLAPS

\* What an outcome is attributed to, or a delivery has resolved to.
Attributed(r) ==
  IF r.submission = 0 THEN r.prediction = 0
  ELSE /\ r.submission \in Feedback!Submitted
       /\ submissions[r.submission].basis <= r.prediction
       /\ r.prediction <= Len(predictions)

OneRow == \A m, n \in DOMAIN outcomes : outcomes[m].event = outcomes[n].event => m = n

\* Predictions are not undone, and rows keep what was resolved.
Traced ==
  /\ \A n \in DOMAIN submissions : submissions[n].basis <= Len(predictions)
  /\ \A d \in Deliveries : delivery[d].pc = "resolved" => Attributed(delivery[d])
  /\ \A n \in DOMAIN outcomes : Attributed(outcomes[n])

\* An outcome o has labels of every version up to v.
Labelled(o, v) == o \in DOMAIN outcomes /\ \A u \in 1..v : \E k \in Feedback!LabelsOf(o) : labels[k].version = u

\* A curation stores the version after one that is there.
Numbered ==
  /\ \A n \in DOMAIN labels : Labelled(labels[n].outcome, labels[n].version)
  /\ \A c \in Curations : curation[c].pc = "read" =>
       curation[c].version >= 1 /\ Labelled(curation[c].outcome, curation[c].version - 1)

\* The inductive invariant.
FInv == Feedback!FeedbackTypeOK /\ OneRow /\ Traced /\ Numbered

-----------------------------------------------------------------------------
(*                                 Lemmas                                  *)

\* A delivery that has a submission, and a curation that has a version.
LEMMA DeliveryType ==
  ASSUME Feedback!FeedbackTypeOK, NEW d \in Deliveries, delivery[d].pc = "resolved"
  PROVE  delivery[d] \in [pc : {"resolved", "done"}, submission : Nat, prediction : Nat]
BY DEF Feedback!FeedbackTypeOK, Feedback!NotDelivered

LEMMA CurationType ==
  ASSUME Feedback!FeedbackTypeOK, NEW c \in Curations, curation[c].pc = "read"
  PROVE  curation[c] \in [pc : {"read", "done"}, outcome : Nat, version : Nat]
BY DEF Feedback!FeedbackTypeOK, Feedback!NoCuration

LEMMA OutcomeType ==
  ASSUME Feedback!FeedbackTypeOK, NEW n \in DOMAIN outcomes
  PROVE  outcomes[n].submission \in Nat /\ outcomes[n].prediction \in Nat
<1> DEFINE T == [event : {EventOf[d] : d \in Deliveries}, submission : Nat, prediction : Nat]
<1>1. outcomes \in Seq(T)
  BY DEF Feedback!FeedbackTypeOK
<1>2. \A t \in T : t.submission \in Nat /\ t.prediction \in Nat
  OBVIOUS
<1> HIDE DEF T
<1>3. outcomes[n] \in T
  BY <1>1
<1> QED
  BY <1>2, <1>3

\* A row at the end of a sequence.
LEMMA Appended ==
  ASSUME NEW T, NEW s \in Seq(T), NEW e \in T
  PROVE  /\ Append(s, e) \in Seq(T)
         /\ DOMAIN Append(s, e) = DOMAIN s \cup {Len(s) + 1}
         /\ \A n \in DOMAIN s : n # Len(s) + 1 /\ Append(s, e)[n] = s[n]
         /\ Append(s, e)[Len(s) + 1] = e
  OBVIOUS

-----------------------------------------------------------------------------
(*                      The invariant holds initially                      *)

LEMMA FInvInit == Init => FInv
<1> SUFFICES ASSUME Init
             PROVE  FInv
  OBVIOUS
<1>0. Feedback!FeedbackInit /\ Len(predictions) = 0
  BY DEF Init, RegistryInit
<1>1. Feedback!FeedbackTypeOK
  <2>1. ASSUME NEW T PROVE <<>> \in Seq(T)
    OBVIOUS
  <2>2. Len(predictions) \in Nat
    BY <1>0
  <2>3. /\ known = FALSE /\ submissions = <<>> /\ outcomes = <<>> /\ labels = <<>>
        /\ delivery = [d \in Deliveries |-> Feedback!NotDelivered]
        /\ curation = [c \in Curations |-> Feedback!NoCuration]
    BY <1>0 DEF Feedback!FeedbackInit
  <2> QED
    BY <2>1, <2>2, <2>3 DEF Feedback!FeedbackTypeOK
<1>2. DOMAIN submissions = {} /\ DOMAIN outcomes = {} /\ DOMAIN labels = {}
  BY <1>0 DEF Feedback!FeedbackInit
<1>3. /\ \A d \in Deliveries : delivery[d].pc # "resolved"
      /\ \A c \in Curations : curation[c].pc # "read"
  BY <1>0 DEF Feedback!FeedbackInit, Feedback!NotDelivered, Feedback!NoCuration
<1> QED
  BY <1>1, <1>2, <1>3 DEF FInv, OneRow, Traced, Numbered

-----------------------------------------------------------------------------
(*                      and every step preserves it                        *)

LEMMA IngestDisputePreserves ==
  ASSUME FInv, Feedback!IngestDispute
  PROVE  FInv'
BY DEF FInv, Feedback!IngestDispute, Feedback!FeedbackTypeOK, OneRow, Traced, Numbered, Attributed, Labelled, Feedback!Submitted, Feedback!LabelsOf

\* There are more predictions and submissions, and those there were stay.
LEMMA Progress ==
  ASSUME FInv, UNCHANGED <<delivery, outcomes, curation, labels>>,
         Feedback!FeedbackTypeOK', Len(predictions) <= Len(predictions)',
         \A n \in DOMAIN submissions : n \in DOMAIN submissions' /\ submissions'[n] = submissions[n],
         \A n \in DOMAIN submissions' : submissions'[n].basis <= Len(predictions)'
  PROVE  FInv'
<1>1. OneRow' /\ Numbered'
  BY DEF FInv, OneRow, Numbered, Labelled, Feedback!LabelsOf
<1>2. Len(predictions) \in Nat /\ Len(predictions)' \in Nat
  BY DEF FInv, Feedback!FeedbackTypeOK
<1>3. ASSUME NEW d \in Deliveries, delivery'[d].pc = "resolved"
      PROVE  Attributed(delivery[d])'
  <2>1. Attributed(delivery[d]) /\ delivery[d].prediction \in Nat
    BY <1>3, DeliveryType DEF FInv, Traced
  <2> QED
    BY <1>2, <2>1 DEF Attributed, Feedback!Submitted
<1>4. ASSUME NEW n \in DOMAIN outcomes'
      PROVE  Attributed(outcomes[n])'
  <2>1. Attributed(outcomes[n]) /\ outcomes[n].prediction \in Nat
    BY <1>4, OutcomeType DEF FInv, Traced
  <2> QED
    BY <1>2, <2>1 DEF Attributed, Feedback!Submitted
<1> QED
  BY <1>1, <1>3, <1>4 DEF FInv, Traced

LEMMA RecordSubmissionPreserves ==
  ASSUME FInv, NEW action \in {"draft", "submit"}, Feedback!RecordSubmission(action)
  PROVE  FInv'
<1> DEFINE T == [action : {"draft", "submit"}, basis : Nat]
<1>1. PICK row \in T : row.basis = Len(predictions) /\ submissions' = Append(submissions, row)
  BY DEF Feedback!RecordSubmission, FInv, Feedback!FeedbackTypeOK
<1>2. submissions \in Seq(T)
  BY DEF FInv, Feedback!FeedbackTypeOK
<1> HIDE DEF T
<1>3. /\ submissions' \in Seq(T)
      /\ DOMAIN submissions' = DOMAIN submissions \cup {Len(submissions) + 1}
      /\ \A n \in DOMAIN submissions : submissions'[n] = submissions[n]
      /\ submissions'[Len(submissions) + 1] = row
  BY <1>1, <1>2, Appended
<1>4. Feedback!FeedbackTypeOK'
  BY <1>3 DEF T, Feedback!RecordSubmission, FInv, Feedback!FeedbackTypeOK
<1>5. \A n \in DOMAIN submissions' : submissions'[n].basis <= Len(predictions)'
  BY <1>1, <1>3 DEF Feedback!RecordSubmission, FInv, Traced, Feedback!FeedbackTypeOK
<1> QED
  BY <1>3, <1>4, <1>5, Progress DEF Feedback!RecordSubmission, FInv, Feedback!FeedbackTypeOK

\* The rest of the system makes predictions.
LEMMA PredictPreserves ==
  ASSUME FInv, UNCHANGED feedbackVars, Len(predictions)' \in Nat, Len(predictions) <= Len(predictions)'
  PROVE  FInv'
<1>1. Feedback!FeedbackTypeOK'
  BY DEF feedbackVars, FInv, Feedback!FeedbackTypeOK
<1>2. ASSUME NEW n \in DOMAIN submissions'
      PROVE  submissions'[n].basis <= Len(predictions)'
  <2>1. submissions[n].basis \in Nat /\ submissions[n].basis <= Len(predictions)
    <3> DEFINE T == [action : {"draft", "submit"}, basis : Nat]
    <3>1. submissions \in Seq(T) /\ n \in DOMAIN submissions
      BY DEF feedbackVars, FInv, Feedback!FeedbackTypeOK
    <3> HIDE DEF T
    <3>2. submissions[n] \in T
      BY <3>1
    <3> QED
      BY <3>1, <3>2 DEF T, FInv, Traced
  <2> QED
    BY <2>1 DEF feedbackVars, FInv, Feedback!FeedbackTypeOK
<1> QED
  BY <1>1, <1>2, Progress DEF feedbackVars

LEMMA ResolvePreserves ==
  ASSUME FInv, NEW d \in Deliveries, Feedback!Resolve(d)
  PROVE  FInv'
<1> DEFINE R == [pc : {"resolved", "done"}, submission : Nat, prediction : Nat]
<1>1. PICK r \in R : delivery' = [delivery EXCEPT ![d] = r] /\ Attributed(r)
  <2>1. PICK n \in 0..MaxSubmissions :
          /\ IF Feedback!Submitted = {} THEN n = 0 ELSE Feedback!Latest(n)
          /\ delivery' = [delivery EXCEPT ![d] =
               [pc |-> "resolved", submission |-> n, prediction |-> IF n = 0 THEN 0 ELSE Len(predictions)]]
    BY DEF Feedback!Resolve
  <2>2. n = 0 \/ n \in Feedback!Submitted
    BY <2>1 DEF Feedback!Latest
  <2>3. n \in Nat /\ Len(predictions) \in Nat
    BY <2>2 DEF Feedback!Submitted, FInv, Feedback!FeedbackTypeOK
  <2>4. n # 0 => submissions[n].basis <= Len(predictions)
    BY <2>2 DEF Feedback!Submitted, FInv, Traced
  <2> DEFINE q == [pc |-> "resolved", submission |-> n, prediction |-> IF n = 0 THEN 0 ELSE Len(predictions)]
  <2>5. q \in R
    BY <2>3
  <2>6. Attributed(q)
    BY <2>2, <2>3, <2>4 DEF Attributed
  <2> QED
    BY <2>1, <2>5, <2>6
<1> HIDE DEF R
<1>2. UNCHANGED <<Len(predictions), known, submissions, outcomes, curation, labels>>
  BY DEF Feedback!Resolve
<1>3. Feedback!FeedbackTypeOK'
  BY <1>1, <1>2 DEF R, FInv, Feedback!FeedbackTypeOK
<1>4. ASSUME NEW e \in Deliveries, delivery'[e].pc = "resolved"
      PROVE  Attributed(delivery'[e])
  BY <1>1, <1>4 DEF FInv, Traced, Feedback!FeedbackTypeOK
<1>5. Traced'
  BY <1>2, <1>4 DEF FInv, Traced, Attributed, Feedback!Submitted
<1> QED
  BY <1>2, <1>3, <1>5 DEF FInv, OneRow, Numbered, Labelled, Feedback!LabelsOf

\* A delivery that is done leaves the others as they are.
LEMMA DonePreserves ==
  ASSUME FInv, NEW d \in Deliveries, delivery[d].pc = "resolved",
         delivery' = [delivery EXCEPT ![d].pc = "done"]
  PROVE  /\ delivery' \in [Deliveries -> {Feedback!NotDelivered} \cup [pc : {"resolved", "done"}, submission : Nat, prediction : Nat]]
         /\ \A e \in Deliveries : delivery'[e].pc = "resolved" => delivery'[e] = delivery[e] /\ delivery[e].pc = "resolved"
BY DeliveryType DEF FInv, Feedback!FeedbackTypeOK

LEMMA RecordPreserves ==
  ASSUME FInv, NEW d \in Deliveries, Feedback!Record(d)
  PROVE  FInv'
<1> DEFINE T == [event : {EventOf[e] : e \in Deliveries}, submission : Nat, prediction : Nat]
<1>1. /\ delivery[d].pc = "resolved" /\ delivery' = [delivery EXCEPT ![d].pc = "done"]
      /\ UNCHANGED <<Len(predictions), known, submissions, curation, labels>>
  BY DEF Feedback!Record
<1>2. /\ delivery' \in [Deliveries -> {Feedback!NotDelivered} \cup [pc : {"resolved", "done"}, submission : Nat, prediction : Nat]]
      /\ \A e \in Deliveries : delivery'[e].pc = "resolved" => delivery'[e] = delivery[e] /\ delivery[e].pc = "resolved"
  BY <1>1, DonePreserves
<1>3. CASE UNCHANGED outcomes
  <2>1. Feedback!FeedbackTypeOK'
    BY <1>1, <1>2, <1>3 DEF FInv, Feedback!FeedbackTypeOK
  <2> QED
    BY <1>1, <1>2, <1>3, <2>1 DEF FInv, OneRow, Traced, Attributed, Feedback!Submitted, Numbered, Labelled, Feedback!LabelsOf
<1>4. CASE ~ UNCHANGED outcomes
  <2>1. delivery[d].submission \in Nat /\ delivery[d].prediction \in Nat
    BY <1>1, DeliveryType DEF FInv
  <2>2. PICK row \in T : /\ outcomes' = Append(outcomes, row)
                         /\ row.submission = delivery[d].submission
                         /\ row.prediction = delivery[d].prediction
                         /\ \A n \in DOMAIN outcomes : outcomes[n].event # row.event
    BY <1>4, <2>1 DEF Feedback!Record
  <2>3. outcomes \in Seq(T)
    BY DEF FInv, Feedback!FeedbackTypeOK
  <2> HIDE DEF T
  <2>4. /\ outcomes' \in Seq(T)
        /\ DOMAIN outcomes' = DOMAIN outcomes \cup {Len(outcomes) + 1}
        /\ \A n \in DOMAIN outcomes : outcomes'[n] = outcomes[n]
        /\ outcomes'[Len(outcomes) + 1] = row
    BY <2>2, <2>3, Appended
  <2>5. Feedback!FeedbackTypeOK'
    BY <1>1, <1>2, <2>4 DEF T, FInv, Feedback!FeedbackTypeOK
  <2>6. OneRow'
    BY <2>2, <2>4 DEF FInv, OneRow
  <2>7. Attributed(row)
    BY <1>1, <2>2 DEF FInv, Traced, Attributed
  <2>8. Traced'
    BY <1>1, <1>2, <2>4, <2>7 DEF FInv, Traced, Attributed, Feedback!Submitted
  <2>9. Numbered'
    BY <1>1, <2>4 DEF FInv, Numbered, Labelled, Feedback!LabelsOf
  <2> QED
    BY <2>5, <2>6, <2>8, <2>9 DEF FInv
<1> QED
  BY <1>3, <1>4

LEMMA ReadVersionPreserves ==
  ASSUME FInv, NEW c \in Curations, NEW o \in DOMAIN outcomes, Feedback!ReadVersion(c, o)
  PROVE  FInv'
<1> DEFINE R == [pc : {"read", "done"}, outcome : Nat, version : Nat]
<1>1. PICK r \in R : /\ curation' = [curation EXCEPT ![c] = r]
                     /\ r.version >= 1 /\ Labelled(r.outcome, r.version - 1)
  <2>1. PICK v \in 0..Len(labels) :
          /\ Feedback!Highest(o, v)
          /\ curation' = [curation EXCEPT ![c] = [pc |-> "read", outcome |-> o, version |-> v + 1]]
    BY DEF Feedback!ReadVersion
  <2>2. v \in Nat /\ o \in Nat
    BY <2>1 DEF FInv, Feedback!FeedbackTypeOK
  <2>3. Labelled(o, v)
    <3>1. CASE v = 0
      BY <3>1 DEF Labelled
    <3>2. CASE v # 0
      <4>1. PICK n \in Feedback!LabelsOf(o) : labels[n].version = v
        BY <2>1, <3>2 DEF Feedback!Highest
      <4> QED
        BY <4>1 DEF FInv, Numbered, Feedback!LabelsOf
    <3> QED
      BY <3>1, <3>2
  <2>4. (v + 1) - 1 = v /\ v + 1 \in Nat /\ v + 1 >= 1
    BY <2>2
  <2> DEFINE q == [pc |-> "read", outcome |-> o, version |-> v + 1]
  <2>5. q \in R /\ q.version >= 1 /\ Labelled(q.outcome, q.version - 1)
    BY <2>2, <2>3, <2>4
  <2> QED
    BY <2>1, <2>5
<1> HIDE DEF R
<1>2. UNCHANGED <<Len(predictions), known, submissions, delivery, outcomes, labels>>
  BY DEF Feedback!ReadVersion
<1>3. Feedback!FeedbackTypeOK'
  BY <1>1, <1>2 DEF R, FInv, Feedback!FeedbackTypeOK
<1>4. ASSUME NEW e \in Curations, curation'[e].pc = "read"
      PROVE  curation'[e].version >= 1 /\ Labelled(curation'[e].outcome, curation'[e].version - 1)
  BY <1>1, <1>4 DEF FInv, Numbered, Feedback!FeedbackTypeOK
<1>5. Numbered'
  BY <1>2, <1>4 DEF FInv, Numbered, Labelled, Feedback!LabelsOf
<1> QED
  BY <1>2, <1>3, <1>5 DEF FInv, OneRow, Traced, Attributed, Feedback!Submitted

LEMMA StoreLabelPreserves ==
  ASSUME FInv, NEW c \in Curations, Feedback!StoreLabel(c)
  PROVE  FInv'
<1> DEFINE T == [outcome : Nat, version : Nat]
<1>1. PICK row \in T : /\ labels' = Append(labels, row)
                       /\ row.version >= 1 /\ Labelled(row.outcome, row.version - 1)
  BY CurationType DEF Feedback!StoreLabel, FInv, Numbered
<1>2. labels \in Seq(T)
  BY DEF FInv, Feedback!FeedbackTypeOK
<1> HIDE DEF T
<1>3. /\ labels' \in Seq(T)
      /\ DOMAIN labels' = DOMAIN labels \cup {Len(labels) + 1}
      /\ \A n \in DOMAIN labels : labels'[n] = labels[n]
      /\ labels'[Len(labels) + 1] = row
  BY <1>1, <1>2, Appended
<1>4. UNCHANGED <<Len(predictions), known, submissions, delivery, outcomes>>
  BY DEF Feedback!StoreLabel
<1>5. /\ curation' \in [Curations -> {Feedback!NoCuration} \cup [pc : {"read", "done"}, outcome : Nat, version : Nat]]
      /\ \A e \in Curations : curation'[e].pc = "read" => curation'[e] = curation[e] /\ curation[e].pc = "read"
  BY CurationType DEF Feedback!StoreLabel, FInv, Feedback!FeedbackTypeOK
<1>6. Feedback!FeedbackTypeOK'
  BY <1>3, <1>4, <1>5 DEF T, FInv, Feedback!FeedbackTypeOK
<1>7. ASSUME NEW o, NEW v, Labelled(o, v)
      PROVE  Labelled(o, v)'
  BY <1>3, <1>4, <1>7 DEF Labelled, Feedback!LabelsOf
<1>8. Labelled(row.outcome, row.version)'
  <2>1. row.version \in Nat /\ row.outcome \in DOMAIN outcomes'
    BY <1>1, <1>4 DEF T, Labelled
  <2>2. ASSUME NEW u \in 1..row.version
        PROVE  \E k \in Feedback!LabelsOf(row.outcome)' : labels'[k].version = u
    <3>1. CASE u = row.version
      BY <1>3, <3>1 DEF Feedback!LabelsOf
    <3>2. CASE u # row.version
      <4>1. u \in 1..(row.version - 1)
        BY <2>1, <3>2
      <4> QED
        BY <1>1, <1>3, <4>1 DEF Labelled, Feedback!LabelsOf
    <3> QED
      BY <3>1, <3>2
  <2> QED
    BY <2>1, <2>2 DEF Labelled
<1>9. Numbered'
  <2>1. ASSUME NEW n \in DOMAIN labels'
        PROVE  Labelled(labels[n].outcome, labels[n].version)'
    <3>1. CASE n \in DOMAIN labels
      BY <1>3, <1>7, <3>1 DEF FInv, Numbered
    <3>2. CASE n = Len(labels) + 1
      BY <1>3, <1>8, <3>2
    <3> QED
      BY <1>3, <3>1, <3>2
  <2>2. ASSUME NEW e \in Curations, curation'[e].pc = "read"
        PROVE  (curation[e].version >= 1 /\ Labelled(curation[e].outcome, curation[e].version - 1))'
    BY <1>5, <1>7, <2>2 DEF FInv, Numbered
  <2> QED
    BY <2>1, <2>2 DEF Numbered
<1> QED
  BY <1>4, <1>5, <1>6, <1>9 DEF FInv, OneRow, Traced, Attributed, Feedback!Submitted

LEMMA FeedbackPreserves ==
  ASSUME FInv, Feedback!FeedbackStep
  PROVE  FInv'
<1>1. CASE Feedback!IngestDispute
  BY <1>1, IngestDisputePreserves
<1>2. ASSUME NEW action \in {"draft", "submit"}, Feedback!RecordSubmission(action)
      PROVE  FInv'
  BY <1>2, RecordSubmissionPreserves
<1>3. ASSUME NEW d \in Deliveries, Feedback!Resolve(d) \/ Feedback!Record(d)
      PROVE  FInv'
  BY <1>3, ResolvePreserves, RecordPreserves
<1>4. ASSUME NEW c \in Curations, Feedback!StoreLabel(c) \/ \E o \in DOMAIN outcomes : Feedback!ReadVersion(c, o)
      PROVE  FInv'
  BY <1>4, StoreLabelPreserves, ReadVersionPreserves
<1> QED
  BY <1>1, <1>2, <1>3, <1>4 DEF Feedback!FeedbackStep

-----------------------------------------------------------------------------
-----------------------------------------------------------------------------
(*                        Invariants of the registry                       *)

CandidateRow ==
  [model : Models, calibrator : Nat \ {0}, policy : Nat, config : Configs, costs : SUBSET Costs]
Prediction == [model : Models, policy : Nat, calibrator : Nat]
PolicyRow == [model : Models, run : Nat, config : Configs, active : BOOLEAN]
Evaluation == [model : Nat, policy : Nat, cost : Costs]
Stored == [model : BOOLEAN, calibrator : Nat]

DiskType ==
  /\ disk \in [models : Nat, calibrations : Seq(Nat), policies : Seq([calibration : Nat, config : Configs]),
               evaluations : Seq(Evaluation)]
  /\ disk.models \in Models \cup {0}
VersionRow ==
  [status : {"absent", "champion", "retired", "rejected_regression"},
   calibrator : Nat, costs : SUBSET Costs, offered : SUBSET (Nat \X Nat)]
VersionType == version \in [Models -> VersionRow]
OperatorType ==
  operator \in {Idle} \cup [pc : {"uploading", "uploaded"}, candidate : CandidateRow, old : SUBSET Models]
               \cup [pc : {"rolling back"}, row : Nat, old : SUBSET Models]
ScorerType ==
  scorer \in [Scorers -> {Idle} \cup [pc : {"version"}, model : Models, calibrator : Nat]
                         \cup [pc : {"policy"}, model : Models, calibrator : Nat, policy : Nat]]

RegistryTypeOK ==
  /\ DiskType /\ VersionType /\ OperatorType /\ ScorerType
  /\ policies \in Seq(PolicyRow)
  /\ objects \in [Models -> Stored]
  /\ cache \in [Scorers -> [Models -> Stored]]
  /\ predictions \in Seq(Prediction)

Promoting == operator.pc \in {"uploading", "uploaded"}

\* The operator works for the only champion, and there is no policy without one.
OneChampion ==
  /\ \A m, n \in Champions : m = n
  /\ policies # <<>> => Champions # {}
  /\ Promoting => /\ operator.candidate.model \in Champions
                  /\ <<operator.candidate.calibrator, operator.candidate.policy>>
                       \in version[operator.candidate.model].offered
  /\ operator.pc = "rolling back" => /\ operator.row \in DOMAIN policies
                                     /\ policies[operator.row].model \in Champions
                                     /\ "rolled back" \in history

\* What is active is the champion's row, or was before the operator's run.
OneActive ==
  "died" \notin history =>
    IF operator = Idle
    THEN \A m \in Champions : \E r \in RowsOf(m) : {n \in DOMAIN policies : policies[n].active} = {r}
    ELSE \A r \in DOMAIN policies : policies[r].active => policies[r].model \in operator.old

\* Version m was offered with this calibrator, with this policy.
CalibratorOffered(m, c) == \E p \in Nat : <<c, p>> \in version[m].offered
PolicyOffered(m, p) == \E c \in Nat : <<c, p>> \in version[m].offered

\* What the rows, the objects and the workers have was offered.
AllOffered ==
  /\ \A m \in Models : IsFiniteSet(version[m].offered)
  /\ \A m \in Trained : CalibratorOffered(m, version[m].calibrator)
  /\ \A r \in DOMAIN policies : PolicyOffered(policies[r].model, policies[r].run)
  /\ \A m \in Models : objects[m].calibrator # 0 => CalibratorOffered(m, objects[m].calibrator)

HasRow(m, p) == \E r \in RowsOf(m) : policies[r].run = p

ScoredSoundly ==
  /\ \A w \in Scorers : \A m \in Models : cache[w][m].calibrator # 0 => CalibratorOffered(m, cache[w][m].calibrator)
  /\ \A w \in Scorers : scorer[w] # Idle => CalibratorOffered(scorer[w].model, scorer[w].calibrator)
  /\ \A w \in Scorers : scorer[w].pc = "policy" => HasRow(scorer[w].model, scorer[w].policy)
  /\ \A n \in DOMAIN predictions :
       /\ CalibratorOffered(predictions[n].model, predictions[n].calibrator)
       /\ HasRow(predictions[n].model, predictions[n].policy)

\* Only what was trained has a row, and only what was evaluated has costs.
RegistryGrows ==
  /\ \A m \in Trained : m <= disk.models
  /\ \A m \in Models \ Trained : version[m].costs = {} /\ version[m].offered = {}
  /\ Champions = {} => Trained = {}

EvaluationExists(m, p) ==
  \E n \in DOMAIN disk.evaluations : disk.evaluations[n].model = m /\ disk.evaluations[n].policy = p

\* Without a rollback the champion is newer and, as far as known, not worse than
\* those retired, and no version is offered again once it was promoted.
NeverWorse ==
  "rolled back" \notin history =>
    /\ \A c \in Champions : /\ \A a \in Retired : a < c
                            /\ \A r \in DOMAIN policies : policies[r].model <= c
                            /\ \A m \in Models : version[m].costs # {} => version[c].costs # {}
    /\ EvaluatedOnce =>
         \A a \in Retired, c \in Champions : \A x \in version[a].costs, y \in version[c].costs : y <= x
    /\ \A r \in DOMAIN policies :
         version[policies[r].model].costs # {} => EvaluationExists(policies[r].model, policies[r].run)
    /\ Promoting /\ version[operator.candidate.model].costs # {} =>
         EvaluationExists(operator.candidate.model, operator.candidate.policy)

RegInv ==
  RegistryTypeOK /\ OneChampion /\ OneActive /\ AllOffered /\ ScoredSoundly /\ RegistryGrows /\ NeverWorse

-----------------------------------------------------------------------------
(*                 The registry's invariant holds initially                *)

LEMMA RegInvInit == Init => RegInv
<1> SUFFICES ASSUME RegistryInit
             PROVE  RegInv
  BY DEF Init
<1>0. ASSUME NEW T PROVE <<>> \in Seq(T)
  OBVIOUS
<1>1. RegistryTypeOK
  BY <1>0 DEF RegistryInit, RegistryTypeOK, DiskType, VersionType, OperatorType, ScorerType, VersionRow, NoVersion, NoObjects,
              Stored, Idle
<1>2. /\ \A m \in Models : version[m].status = "absent" /\ version[m].costs = {} /\ version[m].offered = {}
      /\ Champions = {} /\ Retired = {} /\ Trained = {}
  BY DEF RegistryInit, NoVersion, Champions, Retired, Trained
<1>3. /\ policies = <<>> /\ DOMAIN policies = {} /\ DOMAIN predictions = {}
      /\ operator = Idle /\ operator.pc = "idle"
      /\ \A m \in Models : objects[m].calibrator = 0
      /\ \A w \in Scorers : \A m \in Models : cache[w][m].calibrator = 0
      /\ \A w \in Scorers : scorer[w] = Idle /\ scorer[w].pc = "idle"
  BY DEF RegistryInit, NoObjects, Idle
<1>4. OneChampion /\ OneActive
  BY <1>2, <1>3 DEF OneChampion, OneActive, Promoting
<1>5. AllOffered /\ ScoredSoundly
  BY <1>2, <1>3, FS_EmptySet DEF AllOffered, ScoredSoundly, Promoting
<1>6. RegistryGrows /\ NeverWorse
  BY <1>2, <1>3 DEF RegistryGrows, NeverWorse, Promoting
<1> QED
  BY <1>1, <1>4, <1>5, <1>6 DEF RegInv

-----------------------------------------------------------------------------
(*                      and every step preserves it                        *)

\* The rows of the policies and predictions, and what a worker has read.
LEMMA RowTypes ==
  ASSUME RegInv
  PROVE  /\ \A r \in DOMAIN policies : policies[r].model \in Models /\ policies[r].run \in Nat
         /\ \A n \in DOMAIN predictions : predictions[n].model \in Models
         /\ \A w \in Scorers : scorer[w] # Idle => scorer[w].model \in Models /\ scorer[w].calibrator \in Nat
         /\ \A w \in Scorers : scorer[w].pc = "policy" => scorer[w].policy \in Nat
<1>1. ASSUME NEW r \in DOMAIN policies
      PROVE  policies[r].model \in Models /\ policies[r].run \in Nat
  <2>1. policies[r] \in PolicyRow
    BY <1>1 DEF RegInv, RegistryTypeOK
  <2> QED
    BY <2>1 DEF PolicyRow
<1>2. ASSUME NEW n \in DOMAIN predictions
      PROVE  predictions[n].model \in Models
  <2>1. predictions[n] \in Prediction
    BY <1>2 DEF RegInv, RegistryTypeOK
  <2> QED
    BY <2>1 DEF Prediction
<1>3. ASSUME NEW w \in Scorers
      PROVE  /\ scorer[w] # Idle => scorer[w].model \in Models /\ scorer[w].calibrator \in Nat
             /\ scorer[w].pc = "policy" => scorer[w].policy \in Nat
  BY <1>3 DEF RegInv, RegistryTypeOK, ScorerType, Idle
<1> QED
  BY <1>1, <1>2, <1>3

\* A row of a sequence replaced by another.
LEMMA Replaced ==
  ASSUME NEW T, NEW t \in Seq(T), NEW n \in DOMAIN t, NEW e \in T
  PROVE  /\ [t EXCEPT ![n] = e] \in Seq(T) /\ DOMAIN [t EXCEPT ![n] = e] = DOMAIN t
         /\ [t EXCEPT ![n] = e][n] = e
         /\ \A k \in DOMAIN t : k # n => [t EXCEPT ![n] = e][k] = t[k]
OBVIOUS

LEMMA NoRows == ASSUME NEW s, s = <<>> PROVE DOMAIN s = {}
OBVIOUS

\* Numbers.
LEMMA Larger == \A i, j, k \in Nat : i <= j /\ j < k => i # k
OBVIOUS

LEMMA Lower == \A i, j, k \in Nat : (i <= j \/ i = j \/ i < j) /\ j < k => i < k /\ i <= k
OBVIOUS

LEMMA AtMost == \A i, j, k \in Int : i <= j /\ (j <= k \/ j = k) => i <= k
OBVIOUS

LEMMA Same == \A i \in Nat : i <= i
OBVIOUS

LEMMA Below == \A i, j \in Nat : i <= j /\ i # j => i < j
OBVIOUS

\* The artifacts on disk grow.
LEMMA PipelinePreserves ==
  ASSUME RegInv, UNCHANGED unscored, DiskType', disk.models <= disk'.models,
         \A n \in DOMAIN disk.evaluations : n \in DOMAIN disk'.evaluations /\ disk'.evaluations[n] = disk.evaluations[n]
  PROVE  RegInv'
<1>1. RegistryTypeOK'
  BY DEF unscored, RegInv, RegistryTypeOK, VersionType, OperatorType, ScorerType
<1>2. OneChampion' /\ OneActive'
  <2>1. Champions' = Champions /\ Promoting' = Promoting /\ \A m : RowsOf(m)' = RowsOf(m)
    BY DEF unscored, Promoting, Champions, RowsOf
  <2>2. OneChampion'
    BY <2>1 DEF unscored, RegInv, OneChampion
  <2>3. OneActive'
    BY <2>1 DEF unscored, RegInv, OneActive
  <2> QED
    BY <2>2, <2>3
<1>3. AllOffered' /\ ScoredSoundly'
  <2>1. /\ \A m, x : CalibratorOffered(m, x)' = CalibratorOffered(m, x)
        /\ \A m, p : PolicyOffered(m, p)' = PolicyOffered(m, p)
        /\ \A m, p : HasRow(m, p)' = HasRow(m, p)
    BY DEF unscored, CalibratorOffered, PolicyOffered, HasRow, RowsOf
  <2>2. Promoting' = Promoting /\ Trained' = Trained
    BY DEF unscored, Promoting, Trained
  <2>3. AllOffered'
    BY <2>1, <2>2 DEF unscored, RegInv, AllOffered
  <2>4. ScoredSoundly'
    BY <2>1, <2>2 DEF unscored, RegInv, ScoredSoundly
  <2> QED
    BY <2>3, <2>4
<1>4. ASSUME NEW m, NEW p, EvaluationExists(m, p)
      PROVE  EvaluationExists(m, p)'
  BY <1>4 DEF EvaluationExists
<1>5. NeverWorse'
  <2>1. /\ UNCHANGED <<version, policies, operator, history>>
        /\ Champions' = Champions /\ Retired' = Retired /\ EvaluatedOnce' = EvaluatedOnce /\ Promoting' = Promoting
    BY DEF unscored, Champions, Retired, EvaluatedOnce, Promoting
  <2> QED
    BY <1>4, <2>1 DEF RegInv, NeverWorse
<1>6. RegistryGrows'
  <2>1. /\ disk.models \in Nat /\ disk'.models \in Nat /\ Models \subseteq Nat
    BY RegistryAssumption DEF RegInv, RegistryTypeOK, DiskType
  <2>2. Trained' = Trained /\ Champions' = Champions /\ Trained \subseteq Models
    BY DEF unscored, Trained, Champions
  <2>3. ASSUME NEW m \in Trained'
        PROVE  m <= disk'.models
    <3>1. m \in Trained /\ m \in Nat
      BY <2>1, <2>2
    <3>2. m <= disk.models
      BY <3>1 DEF RegInv, RegistryGrows
    <3> QED
      BY <2>1, <3>1, <3>2
  <2>4. version' = version
    BY DEF unscored
  <2> QED
    BY <2>2, <2>3, <2>4 DEF RegInv, RegistryGrows
<1> QED
  BY <1>1, <1>2, <1>3, <1>5, <1>6 DEF RegInv

LEMMA PipelineStepPreserves ==
  ASSUME RegInv, PipelineStep
  PROVE  RegInv'
<1> DEFINE P == [calibration : Nat, config : Configs]
<1>1. /\ disk \in [models : Nat, calibrations : Seq(Nat), policies : Seq(P), evaluations : Seq(Evaluation)]
      /\ disk.models \in Models \cup {0} /\ Models \subseteq Nat
  BY RegistryAssumption DEF RegInv, RegistryTypeOK, DiskType
<1>2. /\ disk.models \in Nat /\ disk.calibrations \in Seq(Nat) /\ disk.policies \in Seq(P)
      /\ disk.evaluations \in Seq(Evaluation)
  BY <1>1
<1> HIDE DEF P
<1>3. CASE Train
  <2>1. /\ disk' = [disk EXCEPT !.models = disk.models + 1] /\ disk.models + 1 \in Models /\ UNCHANGED unscored
    BY <1>3 DEF Train
  <2>2. DiskType'
    BY <1>1, <1>2, <2>1 DEF DiskType, P
  <2> QED
    BY <1>1, <1>2, <2>1, <2>2, PipelinePreserves
<1>4. ASSUME NEW x \in Seq(Nat), disk' = [disk EXCEPT !.calibrations = x], UNCHANGED unscored
      PROVE  RegInv'
  <2>1. DiskType' /\ disk'.evaluations = disk.evaluations /\ disk'.models = disk.models
    BY <1>1, <1>2, <1>4 DEF DiskType, P
  <2> QED
    BY <1>2, <1>4, <2>1, PipelinePreserves
<1>5. ASSUME NEW x \in Seq(P), disk' = [disk EXCEPT !.policies = x], UNCHANGED unscored
      PROVE  RegInv'
  <2>1. DiskType' /\ disk'.evaluations = disk.evaluations /\ disk'.models = disk.models
    BY <1>1, <1>2, <1>5 DEF DiskType, P
  <2> QED
    BY <1>2, <1>5, <2>1, PipelinePreserves
<1>6. ASSUME NEW cost \in Costs, EvaluateHoldout(cost)
      PROVE  RegInv'
  <2> DEFINE e == [model |-> disk.models, policy |-> Len(disk.policies), cost |-> cost]
  <2>1. e \in Evaluation
    BY <1>2 DEF Evaluation
  <2>2. disk' = [disk EXCEPT !.evaluations = Append(disk.evaluations, e)] /\ UNCHANGED unscored
    BY <1>6 DEF EvaluateHoldout
  <2> HIDE DEF e
  <2>3. /\ Append(disk.evaluations, e) \in Seq(Evaluation)
        /\ \A n \in DOMAIN disk.evaluations : /\ n \in DOMAIN Append(disk.evaluations, e)
                                              /\ Append(disk.evaluations, e)[n] = disk.evaluations[n]
    BY <1>2, <2>1
  <2>4. /\ disk'.evaluations = Append(disk.evaluations, e) /\ disk'.models = disk.models
        /\ disk' \in [models : Nat, calibrations : Seq(Nat), policies : Seq(P), evaluations : Seq(Evaluation)]
    BY <1>1, <1>2, <2>2, <2>3
  <2>5. DiskType'
    BY <1>1, <2>4 DEF DiskType, P
  <2> QED
    BY <1>2, <2>2, <2>3, <2>4, <2>5, PipelinePreserves
<1>7. CASE Calibrate
  <2>1. Append(disk.calibrations, disk.models) \in Seq(Nat)
    BY <1>2
  <2> QED
    BY <1>4, <1>7, <2>1 DEF Calibrate
<1>8. ASSUME NEW config \in Configs, OptimizeThresholds(config)
      PROVE  RegInv'
  <2>1. [calibration |-> Len(disk.calibrations), config |-> config] \in P
    BY <1>2 DEF P
  <2>2. Append(disk.policies, [calibration |-> Len(disk.calibrations), config |-> config]) \in Seq(P)
    BY <1>2, <2>1
  <2> QED
    BY <1>5, <1>8, <2>2 DEF OptimizeThresholds
<1> QED
  BY <1>3, <1>6, <1>7, <1>8 DEF PipelineStep

\* What the pipeline left, with the evaluation it was made from.
LEMMA CandidateType ==
  ASSUME RegInv, OnDisk
  PROVE  /\ Candidate \in CandidateRow
         /\ Candidate.model = disk.models
         /\ Candidate.costs # {} => EvaluationExists(Candidate.model, Candidate.policy)
<1> DEFINE P == [calibration : Nat, config : Configs]
<1>1. /\ disk.models \in Models
      /\ disk.calibrations \in Seq(Nat) /\ Len(disk.calibrations) \in Nat \ {0}
      /\ disk.policies \in Seq(P) /\ Len(disk.policies) \in Nat \ {0}
      /\ disk.evaluations \in Seq(Evaluation)
  <2>1. /\ disk \in [models : Nat, calibrations : Seq(Nat), policies : Seq(P), evaluations : Seq(Evaluation)]
        /\ disk.models \in Models \cup {0} /\ Models \subseteq Nat
    BY RegistryAssumption DEF RegInv, RegistryTypeOK, DiskType
  <2> HIDE DEF P
  <2>2. /\ disk.models \in Nat /\ disk.calibrations \in Seq(Nat) /\ disk.policies \in Seq(P)
        /\ disk.evaluations \in Seq(Evaluation)
    BY <2>1
  <2>3. disk.models > 0 /\ disk.calibrations # <<>> /\ disk.policies # <<>>
    BY DEF OnDisk
  <2> QED
    BY <2>1, <2>2, <2>3
<1>2. Last(disk.policies).config \in Configs
  <2> HIDE DEF P
  <2>1. Last(disk.policies) \in P
    BY <1>1 DEF Last
  <2> QED
    BY <2>1 DEF P
<1> DEFINE m == disk.models
           p == Len(disk.policies)
<1>3. HoldoutMetrics(m, p) \in SUBSET Costs /\ (HoldoutMetrics(m, p) # {} => EvaluationExists(m, p))
  <2>1. CASE disk.evaluations = <<>>
    BY <2>1 DEF HoldoutMetrics
  <2>2. CASE disk.evaluations # <<>>
    <3>1. Len(disk.evaluations) \in DOMAIN disk.evaluations
      BY <1>1, <2>2
    <3>2. Last(disk.evaluations) \in Evaluation
      BY <1>1, <3>1 DEF Last
    <3> QED
      BY <3>1, <3>2 DEF HoldoutMetrics, EvaluationExists, Last, Evaluation
  <2> QED
    BY <2>1, <2>2
<1>4. /\ Candidate.model = m /\ Candidate.calibrator = Len(disk.calibrations) /\ Candidate.policy = p
      /\ Candidate.config = Last(disk.policies).config /\ Candidate.costs = HoldoutMetrics(m, p)
      /\ Candidate = [model |-> m, calibrator |-> Len(disk.calibrations), policy |-> p,
                      config |-> Last(disk.policies).config, costs |-> HoldoutMetrics(m, p)]
  BY DEF Candidate
<1>5. Candidate \in CandidateRow
  BY <1>1, <1>2, <1>3, <1>4 DEF CandidateRow
<1> QED
  BY <1>3, <1>4, <1>5

\* The row of a candidate, which has what it was offered with.
LEMMA RegisteredType ==
  ASSUME RegInv, NEW c \in CandidateRow, NEW status \in {"champion", "rejected_regression"}
  PROVE  /\ Registered(c, status) \in VersionRow
         /\ Registered(c, status).status = status
         /\ Registered(c, status).costs = version[c.model].costs \cup c.costs
         /\ Registered(c, status).offered = version[c.model].offered \cup {<<c.calibrator, c.policy>>}
         /\ IsFiniteSet(Registered(c, status).offered)
         /\ \E p \in Nat : <<Registered(c, status).calibrator, p>> \in Registered(c, status).offered
<1>1. /\ c.model \in Models /\ c.calibrator \in Nat /\ c.policy \in Nat /\ c.costs \subseteq Costs
  BY DEF CandidateRow
<1>2. /\ version[c.model] \in VersionRow
  BY <1>1 DEF RegInv, RegistryTypeOK, VersionType
<1>3. /\ version[c.model].costs \subseteq Costs /\ version[c.model].offered \subseteq Nat \X Nat
      /\ version[c.model].calibrator \in Nat
  BY <1>2 DEF VersionRow
<1>4. <<c.calibrator, c.policy>> \in Nat \X Nat
  BY <1>1
<1>5. /\ Registered(c, status).status = status
      /\ Registered(c, status).costs = version[c.model].costs \cup c.costs
      /\ Registered(c, status).offered = version[c.model].offered \cup {<<c.calibrator, c.policy>>}
      /\ Registered(c, status).calibrator = IF c.model \in Trained THEN version[c.model].calibrator ELSE c.calibrator
  BY DEF Registered
<1>6. Registered(c, status) \in VersionRow
  <2>1. version[c.model].offered \cup {<<c.calibrator, c.policy>>} \subseteq Nat \X Nat
    BY <1>3, <1>4
  <2>2. version[c.model].costs \cup c.costs \subseteq Costs
    BY <1>1, <1>3
  <2>3. (IF c.model \in Trained THEN version[c.model].calibrator ELSE c.calibrator) \in Nat
    BY <1>1, <1>3
  <2> QED
    BY <2>1, <2>2, <2>3 DEF Registered, VersionRow
<1>7. IsFiniteSet(Registered(c, status).offered)
  <2>1. IsFiniteSet(version[c.model].offered)
    BY <1>1 DEF RegInv, AllOffered
  <2>2. IsFiniteSet(version[c.model].offered \cup {<<c.calibrator, c.policy>>})
    BY <2>1, FS_AddElement
  <2> QED
    BY <1>5, <2>2
<1>8. \E p \in Nat : <<Registered(c, status).calibrator, p>> \in Registered(c, status).offered
  <2>1. CASE c.model \in Trained
    BY <1>5, <2>1 DEF RegInv, AllOffered, CalibratorOffered
  <2>2. CASE c.model \notin Trained
    BY <1>1, <1>5, <2>2
  <2> QED
    BY <2>1, <2>2
<1> QED
  BY <1>5, <1>6, <1>7, <1>8

\* What a registration, rejected or not, does to what was offered.
LEMMA Registration ==
  ASSUME RegInv, NEW c \in CandidateRow, NEW status \in {"champion", "rejected_regression"},
         NEW f \in [Models -> VersionRow],
         \A n \in Models \ {c.model} :
           /\ f[n].costs = version[n].costs /\ f[n].offered = version[n].offered
           /\ f[n].calibrator = version[n].calibrator
           /\ f[n].status = "absent" <=> version[n].status = "absent",
         version' = [f EXCEPT ![c.model] = Registered(c, status)],
         UNCHANGED <<policies, objects, scorer, cache, predictions>>
  PROVE  /\ VersionType' /\ AllOffered' /\ ScoredSoundly'
         /\ Trained' = Trained \cup {c.model}
         /\ version'[c.model] = Registered(c, status)
         /\ \A n \in Models \ {c.model} : version'[n] = f[n]
<1>1. c.model \in Models
  BY DEF CandidateRow
<1> DEFINE R == Registered(c, status)
<1>2. /\ R \in VersionRow /\ R.status = status
      /\ R.offered = version[c.model].offered \cup {<<c.calibrator, c.policy>>}
      /\ IsFiniteSet(R.offered)
      /\ \E p \in Nat : <<R.calibrator, p>> \in R.offered
  BY RegisteredType
<1> HIDE DEF R
<1>3. /\ version'[c.model] = R
      /\ \A n \in Models \ {c.model} : version'[n] = f[n]
      /\ version' \in [Models -> VersionRow]
  BY <1>1, <1>2 DEF R
<1>4. Trained' = Trained \cup {c.model}
  BY <1>1, <1>2, <1>3 DEF Trained
<1>5. \A n \in Models : version[n].offered \subseteq version'[n].offered
  BY <1>2, <1>3
<1>6. ASSUME NEW m \in Models, NEW x
      PROVE  /\ CalibratorOffered(m, x) => CalibratorOffered(m, x)'
             /\ PolicyOffered(m, x) => PolicyOffered(m, x)'
  BY <1>5 DEF CalibratorOffered, PolicyOffered
<1>7. /\ \A w \in Scorers : scorer[w] # Idle => scorer[w].model \in Models
      /\ \A n \in DOMAIN predictions : predictions[n].model \in Models
      /\ \A r \in DOMAIN policies : policies[r].model \in Models
  BY RowTypes
<1>8. AllOffered'
  <2>1. \A n \in Models : IsFiniteSet(version'[n].offered)
    BY <1>2, <1>3 DEF RegInv, AllOffered
  <2>2. ASSUME NEW m \in Trained'
        PROVE  CalibratorOffered(m, version[m].calibrator)'
    <3>1. CASE m = c.model
      BY <1>2, <1>3, <3>1 DEF CalibratorOffered
    <3>2. CASE m # c.model
      BY <1>3, <1>4, <1>6, <3>2 DEF RegInv, AllOffered, Trained
    <3> QED
      BY <3>1, <3>2
  <2>3. \A r \in DOMAIN policies : PolicyOffered(policies[r].model, policies[r].run)'
    BY <1>6, <1>7 DEF RegInv, AllOffered
  <2>4. \A m \in Models : objects[m].calibrator # 0 => CalibratorOffered(m, objects[m].calibrator)'
    BY <1>6 DEF RegInv, AllOffered
  <2> QED
    BY <2>1, <2>2, <2>3, <2>4 DEF AllOffered
<1>9. ScoredSoundly'
  <2>1. \A m, p : HasRow(m, p) => HasRow(m, p)'
    BY DEF HasRow, RowsOf
  <2>2. \A w \in Scorers : \A m \in Models : cache[w][m].calibrator # 0 => CalibratorOffered(m, cache[w][m].calibrator)'
    BY <1>6 DEF RegInv, ScoredSoundly
  <2>3. \A w \in Scorers : scorer[w] # Idle => CalibratorOffered(scorer[w].model, scorer[w].calibrator)'
    BY <1>6, <1>7 DEF RegInv, ScoredSoundly
  <2>4. \A n \in DOMAIN predictions : CalibratorOffered(predictions[n].model, predictions[n].calibrator)'
    BY <1>6, <1>7 DEF RegInv, ScoredSoundly
  <2> QED
    BY <2>1, <2>2, <2>3, <2>4 DEF RegInv, ScoredSoundly
<1> QED
  BY <1>3, <1>4, <1>8, <1>9 DEF VersionType, R

LEMMA RejectPreserves ==
  ASSUME RegInv, Reject
  PROVE  RegInv'
<1>1. PICK c \in CandidateRow : c = Candidate
  BY CandidateType DEF Reject
<1>2. PICK champion \in Champions : Refused(c, champion)
  BY <1>1 DEF Reject
<1>3. /\ c.model \notin Champions /\ c.model = disk.models /\ c.model \in Models
      /\ version' = [version EXCEPT ![c.model] = Registered(c, "rejected_regression")]
      /\ UNCHANGED <<disk, policies, objects, operator, scorer, cache, predictions, history>>
      /\ operator = Idle
  BY <1>1, CandidateType DEF Reject, CandidateRow
<1>4. /\ VersionType' /\ AllOffered' /\ ScoredSoundly'
      /\ Trained' = Trained \cup {c.model}
      /\ version'[c.model] = Registered(c, "rejected_regression")
      /\ \A n \in Models \ {c.model} : version'[n] = version[n]
  BY <1>3, Registration DEF RegInv, RegistryTypeOK, VersionType
<1>5. version'[c.model].status = "rejected_regression"
  BY <1>4, RegisteredType
<1>6. Champions' = Champions /\ Retired' \subseteq Retired /\ c.model \notin Retired'
  BY <1>3, <1>4, <1>5 DEF Champions, Retired
<1>7. RegistryTypeOK'
  BY <1>3, <1>4 DEF RegInv, RegistryTypeOK, DiskType, OperatorType, ScorerType
<1>8. ~Promoting /\ ~Promoting' /\ operator.pc = "idle"
  BY <1>3 DEF Promoting, Idle
<1>9. OneChampion' /\ OneActive'
  BY <1>3, <1>6, <1>8 DEF RegInv, OneChampion, OneActive, RowsOf
<1>10. RegistryGrows'
  <2>1. \A m \in Trained' : m <= disk'.models
    BY <1>3, <1>4 DEF RegInv, RegistryGrows, RegistryTypeOK, DiskType
  <2> QED
    BY <1>2, <1>4, <1>6, <2>1 DEF RegInv, RegistryGrows
<1>11. NeverWorse'
  <2> SUFFICES ASSUME "rolled back" \notin history
               PROVE  NeverWorse'
    BY <1>3 DEF NeverWorse
  <2>1. \A n \in Models : version[n].costs \subseteq version'[n].costs
    BY <1>4, RegisteredType
  <2>2. version[champion].costs # {}
    BY <1>2 DEF Refused
  <2>3. \A d \in Champions : d = champion
    BY DEF RegInv, OneChampion
  <2>4. \A d \in Champions : version'[d] = version[d]
    BY <1>3, <1>4 DEF Champions
  <2>5. EvaluatedOnce' => EvaluatedOnce
    BY <2>1 DEF EvaluatedOnce
  <2>6. \A a \in Retired' : a \in Retired /\ version'[a] = version[a]
    BY <1>4, <1>6 DEF Retired
  <2>7. champion < c.model
    <3>1. champion \in Trained /\ champion \in Nat /\ c.model \in Nat /\ champion # c.model
      BY <1>3, RegistryAssumption DEF Champions, Trained
    <3>2. champion <= c.model
      BY <1>3, <3>1 DEF RegInv, RegistryGrows
    <3> QED
      BY <3>1, <3>2, Below
  <2>8. \A r \in DOMAIN policies : /\ policies[r].model <= champion /\ policies[r].model \in Models
                                   /\ policies[r].model # c.model
    <3> SUFFICES ASSUME NEW r \in DOMAIN policies
                 PROVE  policies[r].model <= champion /\ policies[r].model \in Models /\ policies[r].model # c.model
      OBVIOUS
    <3>1. policies[r].model <= champion /\ policies[r].model \in Models
      BY RowTypes DEF RegInv, NeverWorse
    <3>2. policies[r].model \in Nat /\ champion \in Nat /\ c.model \in Nat
      BY <1>3, <3>1, RegistryAssumption DEF Champions
    <3> QED
      BY <2>7, <3>1, <3>2, Larger
  <2>9. /\ \A d \in Champions' : /\ \A a \in Retired' : a < d
                                 /\ \A r \in DOMAIN policies' : policies'[r].model <= d
                                 /\ \A m \in Models : version'[m].costs # {} => version'[d].costs # {}
    BY <1>3, <1>6, <2>2, <2>3, <2>4, <2>6, <2>8 DEF RegInv, NeverWorse
  <2>10. EvaluatedOnce' =>
           \A a \in Retired', d \in Champions' : \A x \in version'[a].costs, y \in version'[d].costs : y <= x
    BY <1>6, <2>4, <2>5, <2>6 DEF RegInv, NeverWorse
  <2>11. \A r \in DOMAIN policies' :
           version'[policies'[r].model].costs # {} => EvaluationExists(policies[r].model, policies[r].run)'
    <3> SUFFICES ASSUME NEW r \in DOMAIN policies, version'[policies[r].model].costs # {}
                 PROVE  EvaluationExists(policies[r].model, policies[r].run)'
      BY <1>3
    <3>1. version[policies[r].model].costs # {}
      BY <1>4, <2>8
    <3>2. EvaluationExists(policies[r].model, policies[r].run)
      BY <3>1 DEF RegInv, NeverWorse
    <3> QED
      BY <1>3, <3>2 DEF EvaluationExists
  <2> QED
    BY <1>8, <2>9, <2>10, <2>11 DEF NeverWorse
<1> QED
  BY <1>4, <1>7, <1>9, <1>10, <1>11 DEF RegInv

LEMMA MarkedType ==
  ASSUME RegInv, NEW m \in Models
  PROVE  /\ Marked(m) \in [Models -> VersionRow]
         /\ \A n \in Models :
              /\ Marked(m)[n].costs = version[n].costs /\ Marked(m)[n].offered = version[n].offered
              /\ Marked(m)[n].calibrator = version[n].calibrator
              /\ Marked(m)[n].status = IF n \in Champions \ {m} THEN "retired" ELSE version[n].status
<1> SUFFICES ASSUME NEW n \in Models
             PROVE  /\ Marked(m)[n] \in VersionRow
                    /\ Marked(m)[n].costs = version[n].costs /\ Marked(m)[n].offered = version[n].offered
                    /\ Marked(m)[n].calibrator = version[n].calibrator
                    /\ Marked(m)[n].status = IF n \in Champions \ {m} THEN "retired" ELSE version[n].status
  <2>1. Marked(m) = [n \in Models |-> Marked(m)[n]]
    BY DEF Marked
  <2> QED
    BY <2>1
<1>1. version[n] \in VersionRow
  BY DEF RegInv, RegistryTypeOK, VersionType
<1>2. Marked(m)[n] = IF n \in Champions \ {m} THEN [version[n] EXCEPT !.status = "retired"] ELSE version[n]
  BY DEF Marked
<1> QED
  BY <1>1, <1>2 DEF VersionRow

LEMMA ActiveOfChampion ==
  ASSUME RegInv, operator = Idle, "died" \notin history, NEW r \in DOMAIN policies, policies[r].active
  PROVE  policies[r].model \in Champions
<1>0. policies # <<>>
  OBVIOUS
<1>1. PICK m \in Champions : TRUE
  BY <1>0 DEF RegInv, OneChampion
<1>2. PICK s \in RowsOf(m) : {n \in DOMAIN policies : policies[n].active} = {s}
  BY <1>1 DEF RegInv, OneActive
<1> QED
  BY <1>1, <1>2 DEF RowsOf

LEMMA PromotePreserves ==
  ASSUME RegInv, Promote
  PROVE  RegInv'
<1>1. PICK c \in CandidateRow : c = Candidate
  BY CandidateType DEF Promote
<1>2. /\ c.model \notin Champions /\ c.model = disk.models /\ c.model \in Models
      /\ c.costs # {} => EvaluationExists(c.model, c.policy)
      /\ version' = [Marked(c.model) EXCEPT ![c.model] = Registered(c, "champion")]
      /\ operator' = [pc |-> "uploading", candidate |-> c, old |-> Champions]
      /\ UNCHANGED <<disk, policies, objects, scorer, cache, predictions, history>>
      /\ operator = Idle
  BY <1>1, CandidateType DEF Promote, CandidateRow
<1>3. Champions = {} \/ \E champion \in Champions : Evaluated(c, champion)
  BY <1>1 DEF Promote
<1>4. \A n \in Models \ {c.model} : Marked(c.model)[n].status = "absent" <=> version[n].status = "absent"
  BY <1>2, MarkedType DEF Champions
<1>5. /\ VersionType' /\ AllOffered' /\ ScoredSoundly'
      /\ Trained' = Trained \cup {c.model}
      /\ version'[c.model] = Registered(c, "champion")
      /\ \A n \in Models \ {c.model} : version'[n] = Marked(c.model)[n]
  <2>1. /\ Marked(c.model) \in [Models -> VersionRow]
        /\ \A n \in Models \ {c.model} :
             /\ Marked(c.model)[n].costs = version[n].costs /\ Marked(c.model)[n].offered = version[n].offered
             /\ Marked(c.model)[n].calibrator = version[n].calibrator
             /\ Marked(c.model)[n].status = "absent" <=> version[n].status = "absent"
    BY <1>2, <1>4, MarkedType
  <2> QED
    BY <1>2, <2>1, Registration
<1>6. /\ version'[c.model].status = "champion"
      /\ version'[c.model].costs = version[c.model].costs \cup c.costs
      /\ <<c.calibrator, c.policy>> \in version'[c.model].offered
      /\ \A n \in Models \ {c.model} : version'[n].costs = version[n].costs
  BY <1>2, <1>5, RegisteredType, MarkedType
<1>7. /\ Champions' = {c.model} /\ Retired' \subseteq Retired \cup Champions /\ c.model \notin Retired'
  <2>1. \A n \in Models \ {c.model} : version'[n].status = IF n \in Champions THEN "retired" ELSE version[n].status
    BY <1>2, <1>5, MarkedType
  <2> QED
    BY <1>2, <1>6, <2>1 DEF Champions, Retired
<1>8. RegistryTypeOK'
  <2>1. operator' \in [pc : {"uploading", "uploaded"}, candidate : CandidateRow, old : SUBSET Models]
    BY <1>2 DEF Champions
  <2> QED
    BY <1>2, <1>5, <2>1 DEF RegInv, RegistryTypeOK, DiskType, OperatorType, ScorerType
<1>9. Promoting' /\ operator'.candidate = c /\ operator'.pc = "uploading" /\ operator'.old = Champions /\ operator' # Idle
  BY <1>2 DEF Promoting, Idle
<1>10. OneChampion'
  BY <1>2, <1>6, <1>7, <1>9 DEF RegInv, OneChampion
<1>11. OneActive'
  <2> SUFFICES ASSUME "died" \notin history, NEW r \in DOMAIN policies, policies[r].active
               PROVE  policies[r].model \in Champions
    BY <1>2, <1>9 DEF OneActive
  <2> QED
    BY <1>2, ActiveOfChampion
<1>12. RegistryGrows'
  <2>1. \A m \in Trained' : m <= disk'.models
    BY <1>2, <1>5 DEF RegInv, RegistryGrows, RegistryTypeOK, DiskType
  <2>2. \A m \in Models \ Trained' : version'[m].costs = {} /\ version'[m].offered = {}
    BY <1>2, <1>5, <1>6, MarkedType DEF RegInv, RegistryGrows
  <2> QED
    BY <1>7, <2>1, <2>2 DEF RegistryGrows
<1>13. NeverWorse'
  <2> SUFFICES ASSUME "rolled back" \notin history
               PROVE  NeverWorse'
    BY <1>2 DEF NeverWorse
  <2>1. \A n \in Models : version[n].costs \subseteq version'[n].costs
    BY <1>6
  <2>2. EvaluatedOnce' => EvaluatedOnce
    BY <2>1 DEF EvaluatedOnce
  <2>3. CASE Champions = {}
    <3>1. /\ Trained = {} /\ policies = <<>> /\ Retired' = {} /\ DOMAIN policies = {}
          /\ \A m \in Models : version[m].costs = {}
      <4>1. Trained = {} /\ policies = <<>>
        BY <2>3 DEF RegInv, RegistryGrows, OneChampion
      <4>2. Retired = {}
        BY <4>1 DEF Retired, Trained
      <4>3. \A m \in Models : version[m].costs = {}
        BY <4>1 DEF RegInv, RegistryGrows
      <4>4. DOMAIN policies = {}
        BY <4>1, NoRows
      <4>5. Retired' = {}
        BY <1>7, <2>3, <4>2
      <4> QED
        BY <4>1, <4>3, <4>4, <4>5
    <3>2. \A m \in Models : version'[m].costs # {} => version'[c.model].costs # {}
      BY <1>2, <1>6, <3>1
    <3>3. version'[c.model].costs # {} => EvaluationExists(c.model, c.policy)'
      BY <1>2, <1>6, <3>1 DEF EvaluationExists
    <3> QED
      BY <1>2, <1>7, <1>9, <3>1, <3>2, <3>3 DEF NeverWorse
  <2>4. CASE Champions # {}
    <3>1. PICK champion \in Champions : Evaluated(c, champion)
      BY <1>3, <2>4
    <3>2. \A d \in Champions : d = champion
      BY DEF RegInv, OneChampion
    <3>3. champion < c.model /\ champion \in Models /\ champion \in Nat /\ c.model \in Nat
      <4>1. champion \in Trained /\ champion \in Nat /\ c.model \in Nat /\ champion # c.model
        BY <1>2, RegistryAssumption DEF Champions, Trained
      <4>2. champion <= c.model
        BY <1>2, <4>1 DEF RegInv, RegistryGrows
      <4> QED
        BY <4>1, <4>2, Below DEF Champions
    <3>4. /\ \A a \in Retired : a < champion
          /\ \A r \in DOMAIN policies : policies[r].model <= champion
          /\ \A m \in Models : version[m].costs # {} => version[champion].costs # {}
      BY DEF RegInv, NeverWorse
    <3>5. \A a \in Retired' : a < c.model
      <4> SUFFICES ASSUME NEW a \in Retired' PROVE a < c.model
        OBVIOUS
      <4>1. a \in Nat
        BY RegistryAssumption DEF Retired
      <4>2. a = champion \/ a < champion
        BY <1>7, <3>2, <3>4
      <4> QED
        BY <3>3, <4>1, <4>2, Lower
    <3>6. ASSUME NEW r \in DOMAIN policies
          PROVE  /\ policies[r].model \in Models /\ policies[r].model <= c.model /\ policies[r].model # c.model
      <4>1. policies[r].model \in Models /\ policies[r].model \in Nat /\ policies[r].model <= champion
        BY <3>4, RowTypes, RegistryAssumption
      <4> QED
        BY <3>3, <4>1, Larger, Lower
    <3>7. version[champion].costs # {} =>
            /\ c.costs # {}
            /\ \E recorded \in version[champion].costs : \A x \in c.costs : x <= recorded
      BY <3>1 DEF Evaluated
    <3>8. \A m \in Models : version'[m].costs # {} => version'[c.model].costs # {}
      BY <1>6, <3>4, <3>7
    <3>9. EvaluatedOnce' =>
            \A a \in Retired', d \in Champions' : \A x \in version'[a].costs, y \in version'[d].costs : y <= x
      <4> SUFFICES ASSUME EvaluatedOnce', NEW a \in Retired', NEW x \in version'[a].costs, NEW y \in version'[c.model].costs
                   PROVE  y <= x
        BY <1>7
      <4>1. a \in Models /\ a # c.model /\ x \in version[a].costs
        BY <1>6, <1>7 DEF Retired
      <4>2. version[champion].costs # {}
        BY <3>4, <4>1
      <4>3. PICK recorded \in version[champion].costs : \A z \in c.costs : z <= recorded
        BY <3>7, <4>2
      <4>4. y \in c.costs
        <5>1. PICK z \in c.costs : TRUE
          BY <3>7, <4>2
        <5>2. z \in version'[c.model].costs
          BY <1>6, <5>1
        <5>3. c.model \in Models
          BY <1>2
        <5>4. y = z
          BY <5>2, <5>3 DEF EvaluatedOnce
        <5> QED
          BY <5>1, <5>4
      <4>5. y <= recorded
        BY <4>3, <4>4
      <4>6. recorded <= x \/ recorded = x
        <5>1. CASE a = champion
          BY <2>2, <3>3, <4>1, <5>1 DEF EvaluatedOnce
        <5>2. CASE a # champion
          <6>1. a \in Retired
            BY <1>7, <3>2, <5>2
          <6> QED
            BY <2>2, <4>1, <6>1 DEF RegInv, NeverWorse
        <5> QED
          BY <5>1, <5>2
      <4>7. x \in Int /\ y \in Int /\ recorded \in Int
        BY <3>3, <4>1, <4>4, RegistryAssumption DEF RegInv, RegistryTypeOK, VersionType, VersionRow, CandidateRow
      <4> QED
        BY <4>5, <4>6, <4>7, AtMost
    <3>10. \A r \in DOMAIN policies :
             version'[policies[r].model].costs # {} => EvaluationExists(policies[r].model, policies[r].run)'
      <4> SUFFICES ASSUME NEW r \in DOMAIN policies, version'[policies[r].model].costs # {}
                   PROVE  EvaluationExists(policies[r].model, policies[r].run)'
        BY <1>2
      <4>1. version[policies[r].model].costs # {}
        BY <1>6, <3>6
      <4>2. EvaluationExists(policies[r].model, policies[r].run)
        BY <4>1 DEF RegInv, NeverWorse
      <4> QED
        BY <1>2, <4>2 DEF EvaluationExists
    <3>11. version'[c.model].costs # {} => EvaluationExists(c.model, c.policy)'
      <4>1. version'[c.model].costs # {} => c.costs # {}
        BY <1>2, <1>6, <3>4, <3>7
      <4> QED
        BY <1>2, <4>1 DEF EvaluationExists
    <3> QED
      BY <1>2, <1>7, <1>9, <3>5, <3>6, <3>8, <3>9, <3>10, <3>11 DEF NeverWorse
  <2> QED
    BY <2>3, <2>4
<1> QED
  BY <1>5, <1>8, <1>10, <1>11, <1>12, <1>13 DEF RegInv

\* What the operator holds.
LEMMA OperatorFields ==
  ASSUME RegInv
  PROVE  /\ Promoting => /\ operator.candidate \in CandidateRow /\ operator.old \subseteq Models
                         /\ operator # Idle
                         /\ \A pc \in {"uploading", "uploaded"} :
                              [operator EXCEPT !.pc = pc] =
                                [pc |-> pc, candidate |-> operator.candidate, old |-> operator.old]
         /\ operator.pc = "rolling back" => operator.row \in Nat /\ operator.old \subseteq Models /\ operator # Idle
<1> DEFINE O == [pc : {"uploading", "uploaded"}, candidate : CandidateRow, old : SUBSET Models]
           Q == [pc : {"rolling back"}, row : Nat, old : SUBSET Models]
<1>1. operator = Idle \/ operator \in O \/ operator \in Q
  BY DEF RegInv, RegistryTypeOK, OperatorType
<1>2. /\ \A o \in O : o.pc \in {"uploading", "uploaded"} /\ o.candidate \in CandidateRow /\ o.old \subseteq Models
      /\ \A o \in Q : o.pc = "rolling back" /\ o.row \in Nat /\ o.old \subseteq Models
  OBVIOUS
<1>3. ASSUME NEW o \in O, NEW pc
      PROVE  [o EXCEPT !.pc = pc] = [pc |-> pc, candidate |-> o.candidate, old |-> o.old]
  OBVIOUS
<1> HIDE DEF O, Q
<1>4. Idle.pc = "idle"
  BY DEF Idle
<1> QED
  BY <1>1, <1>2, <1>3, <1>4 DEF Promoting

\* Policy rows that are not active any more.
LEMMA DeactivatedType ==
  ASSUME RegInv, NEW old
  PROVE  /\ Deactivated(old) \in Seq(PolicyRow) /\ Len(Deactivated(old)) = Len(policies)
         /\ DOMAIN Deactivated(old) = DOMAIN policies
         /\ \A r \in DOMAIN policies :
              /\ Deactivated(old)[r] \in PolicyRow
              /\ Deactivated(old)[r].model = policies[r].model /\ Deactivated(old)[r].run = policies[r].run
              /\ Deactivated(old)[r].active <=> policies[r].active /\ policies[r].model \notin old
<1> DEFINE D == Deactivated(old)
<1>1. policies \in Seq(PolicyRow) /\ DOMAIN policies = 1..Len(policies) /\ Len(policies) \in Nat
  BY DEF RegInv, RegistryTypeOK
<1>2. ASSUME NEW r \in DOMAIN policies
      PROVE  /\ D[r] \in PolicyRow
             /\ D[r].model = policies[r].model /\ D[r].run = policies[r].run
             /\ D[r].active <=> policies[r].active /\ policies[r].model \notin old
  <2>1. policies[r] \in PolicyRow
    BY <1>1, <1>2
  <2>2. D[r] = IF policies[r].model \in old THEN [policies[r] EXCEPT !.active = FALSE] ELSE policies[r]
    BY <1>2 DEF Deactivated
  <2> QED
    BY <2>1, <2>2 DEF PolicyRow
<1>3. D \in [DOMAIN policies -> PolicyRow]
  <2>1. D = [r \in DOMAIN policies |-> D[r]]
    BY DEF Deactivated
  <2> QED
    BY <1>2, <2>1
<1> HIDE DEF D
<1>4. D \in Seq(PolicyRow) /\ Len(D) = Len(policies) /\ DOMAIN D = DOMAIN policies
  BY <1>1, <1>3
<1> QED
  BY <1>2, <1>4 DEF D

LEMMA UploadPreserves ==
  ASSUME RegInv, NEW through \in 0..2, Upload(through)
  PROVE  RegInv'
<1> DEFINE c == operator.candidate
<1>1. /\ Promoting /\ c \in CandidateRow /\ operator.old \subseteq Models
      /\ operator' = [pc |-> "uploaded", candidate |-> c, old |-> operator.old]
      /\ c.model \in Champions /\ <<c.calibrator, c.policy>> \in version[c.model].offered
      /\ operator # Idle
  <2>1. Promoting /\ operator' = [operator EXCEPT !.pc = "uploaded"]
    BY DEF Upload, Promoting
  <2> QED
    BY <2>1, OperatorFields DEF RegInv, OneChampion
<1>2. /\ c.model \in Models /\ c.calibrator \in Nat /\ c.policy \in Nat
  BY <1>1 DEF CandidateRow
<1>3. UNCHANGED <<disk, version, policies, scorer, cache, predictions, history>>
  BY DEF Upload
<1>4. PICK o \in Stored : /\ objects' = [objects EXCEPT ![c.model] = o]
                          /\ o.calibrator \in {c.calibrator, objects[c.model].calibrator}
  <2> DEFINE o == [model |-> objects[c.model].model \/ through > 0,
                   calibrator |-> IF through > 1 THEN c.calibrator ELSE objects[c.model].calibrator]
  <2>1. objects[c.model].model \in BOOLEAN /\ objects[c.model].calibrator \in Nat
    BY <1>2 DEF RegInv, RegistryTypeOK, Stored
  <2>2. o \in Stored /\ o.calibrator \in {c.calibrator, objects[c.model].calibrator}
    BY <1>2, <2>1 DEF Stored
  <2>3. objects' = [objects EXCEPT ![c.model] = o]
    BY DEF Upload
  <2> QED
    BY <2>2, <2>3
<1> HIDE DEF c
<1>5. /\ operator'.candidate = c /\ operator'.old = operator.old /\ operator'.pc = "uploaded"
      /\ operator' # Idle /\ Promoting' /\ operator'.pc # "rolling back"
  BY <1>1 DEF Promoting, Idle
<1>6. RegistryTypeOK'
  <2>1. operator' \in [pc : {"uploading", "uploaded"}, candidate : CandidateRow, old : SUBSET Models]
    BY <1>1
  <2>2. objects' \in [Models -> Stored]
    BY <1>4 DEF RegInv, RegistryTypeOK
  <2> QED
    BY <1>3, <2>1, <2>2 DEF RegInv, RegistryTypeOK, DiskType, VersionType, OperatorType, ScorerType
<1>7. OneChampion'
  BY <1>1, <1>3, <1>5 DEF RegInv, OneChampion, Champions
<1>8. OneActive'
  BY <1>1, <1>3, <1>5 DEF RegInv, OneActive
<1>9. AllOffered'
  <2>1. ASSUME NEW m \in Models, objects'[m].calibrator # 0
        PROVE  CalibratorOffered(m, objects'[m].calibrator)
    <3>1. CASE m = c.model /\ objects'[m].calibrator = c.calibrator
      BY <1>1, <1>2, <3>1 DEF CalibratorOffered
    <3>2. CASE objects'[m].calibrator = objects[m].calibrator
      BY <2>1, <3>2 DEF RegInv, AllOffered
    <3> QED
      BY <1>4, <3>1, <3>2 DEF RegInv, RegistryTypeOK
  <2> QED
    BY <1>3, <2>1 DEF RegInv, AllOffered, CalibratorOffered, PolicyOffered, Trained
<1>10. ScoredSoundly' /\ RegistryGrows'
  BY <1>3 DEF RegInv, ScoredSoundly, CalibratorOffered, HasRow, RowsOf, RegistryGrows, Trained, Champions
<1>11. NeverWorse'
  <2>1. Champions' = Champions /\ Retired' = Retired /\ EvaluatedOnce' = EvaluatedOnce
    BY <1>3 DEF Champions, Retired, EvaluatedOnce
  <2>2. \A m, p : EvaluationExists(m, p)' = EvaluationExists(m, p)
    BY <1>3 DEF EvaluationExists
  <2>3. operator.candidate = c
    BY DEF c
  <2> QED
    BY <1>1, <1>3, <1>5, <2>1, <2>2, <2>3 DEF RegInv, NeverWorse
<1> QED
  BY <1>6, <1>7, <1>8, <1>9, <1>10, <1>11 DEF RegInv

\* Policy rows are added and change only whether they are active.
LEMMA RowsStay ==
  ASSUME RegInv, UNCHANGED <<version, objects, scorer, cache, predictions>>,
         \A r \in DOMAIN policies :
           r \in DOMAIN policies' /\ policies'[r].model = policies[r].model /\ policies'[r].run = policies[r].run,
         \A r \in DOMAIN policies' : PolicyOffered(policies'[r].model, policies'[r].run)
  PROVE  AllOffered' /\ ScoredSoundly'
<1>1. \A m, p : HasRow(m, p) => HasRow(m, p)'
  BY DEF HasRow, RowsOf
<1>2. \A m, x : /\ CalibratorOffered(m, x)' = CalibratorOffered(m, x)
                /\ PolicyOffered(m, x)' = PolicyOffered(m, x)
  BY DEF CalibratorOffered, PolicyOffered
<1> QED
  BY <1>1, <1>2 DEF RegInv, AllOffered, ScoredSoundly, Trained

LEMMA ActivatePolicyPreserves ==
  ASSUME RegInv, ActivatePolicy
  PROVE  RegInv'
<1>0. PICK c : c = operator.candidate
  OBVIOUS
<1> DEFINE D == Deactivated(operator.old)
           row == [model |-> c.model, run |-> c.policy, config |-> c.config, active |-> TRUE]
<1>1. /\ Promoting /\ c \in CandidateRow /\ operator # Idle
      /\ c.model \in Champions /\ <<c.calibrator, c.policy>> \in version[c.model].offered
      /\ "rolled back" \notin history =>
           (version[c.model].costs # {} => EvaluationExists(c.model, c.policy))
  <2>1. Promoting
    BY DEF ActivatePolicy, Promoting
  <2> QED
    BY <1>0, <2>1, OperatorFields DEF RegInv, OneChampion, NeverWorse
<1>2. /\ policies' = Append(D, row) /\ operator' = Idle
      /\ UNCHANGED <<disk, version, objects, scorer, cache, predictions, history>>
  BY <1>0 DEF ActivatePolicy
<1>3. row \in PolicyRow /\ row.model = c.model /\ row.run = c.policy /\ row.active
  BY <1>1 DEF PolicyRow, CandidateRow
<1>4. /\ D \in Seq(PolicyRow) /\ DOMAIN D = DOMAIN policies
      /\ \A r \in DOMAIN policies : /\ D[r].model = policies[r].model /\ D[r].run = policies[r].run
                                    /\ D[r].active <=> policies[r].active /\ policies[r].model \notin operator.old
  BY DeactivatedType
<1>5. c.calibrator \in Nat /\ c.policy \in Nat
  BY <1>1 DEF CandidateRow
<1> HIDE DEF D, row
<1>6. /\ policies' \in Seq(PolicyRow)
      /\ DOMAIN policies' = DOMAIN policies \cup {Len(D) + 1} /\ Len(D) + 1 \notin DOMAIN policies
      /\ policies'[Len(D) + 1] = row
      /\ \A r \in DOMAIN policies : policies'[r] = D[r]
  BY <1>2, <1>3, <1>4, Appended
<1>7. AllOffered' /\ ScoredSoundly'
  <2>1. PolicyOffered(c.model, c.policy)
    BY <1>1, <1>5 DEF PolicyOffered
  <2>2. \A r \in DOMAIN policies' : PolicyOffered(policies'[r].model, policies'[r].run)
    BY <1>3, <1>4, <1>6, <2>1 DEF RegInv, AllOffered
  <2> QED
    BY <1>2, <1>4, <1>6, <2>2, RowsStay
<1>8. ~Promoting' /\ operator'.pc = "idle"
  BY <1>2 DEF Promoting, Idle
<1>9. RegistryTypeOK'
  BY <1>2, <1>6 DEF RegInv, RegistryTypeOK, DiskType, VersionType, OperatorType, ScorerType
<1>10. Champions' = Champions /\ \A d \in Champions : d = c.model
  BY <1>1, <1>2 DEF RegInv, OneChampion, Champions
<1>11. OneChampion'
  BY <1>1, <1>8, <1>10 DEF OneChampion
<1>12. OneActive'
  <2> SUFFICES ASSUME "died" \notin history
               PROVE  \E r \in RowsOf(c.model)' : {n \in DOMAIN policies' : policies'[n].active} = {r}
    BY <1>2, <1>10 DEF OneActive, RowsOf
  <2>1. \A r \in DOMAIN policies : ~policies'[r].active
    BY <1>1, <1>4, <1>6 DEF RegInv, OneActive
  <2>2. {n \in DOMAIN policies' : policies'[n].active} = {Len(D) + 1}
    BY <1>3, <1>6, <2>1
  <2> QED
    BY <1>3, <1>6, <2>2 DEF RowsOf
<1>13. RegistryGrows'
  BY <1>2, <1>10 DEF RegInv, RegistryGrows, Trained
<1>14. NeverWorse'
  <2> SUFFICES ASSUME "rolled back" \notin history
               PROVE  NeverWorse'
    BY <1>2 DEF NeverWorse
  <2>1. Retired' = Retired /\ EvaluatedOnce' = EvaluatedOnce
    BY <1>2 DEF Retired, EvaluatedOnce
  <2>2. \A m, p : EvaluationExists(m, p)' = EvaluationExists(m, p)
    BY <1>2 DEF EvaluationExists
  <2>3. c.model <= c.model
    <3>1. c.model \in Nat
      BY <1>1, RegistryAssumption DEF Champions
    <3> QED
      BY <3>1, Same
  <2>4. \A r \in DOMAIN policies' : /\ policies'[r].model <= c.model
                                    /\ version[policies'[r].model].costs # {} =>
                                         EvaluationExists(policies'[r].model, policies'[r].run)
    <3>1. \A r \in DOMAIN policies : /\ policies[r].model <= c.model
                                     /\ version[policies[r].model].costs # {} =>
                                          EvaluationExists(policies[r].model, policies[r].run)
      BY <1>1 DEF RegInv, NeverWorse
    <3> QED
      BY <1>1, <1>3, <1>4, <1>6, <2>3, <3>1
  <2> QED
    BY <1>2, <1>8, <1>10, <2>1, <2>2, <2>4 DEF RegInv, NeverWorse
<1> QED
  BY <1>7, <1>9, <1>11, <1>12, <1>13, <1>14 DEF RegInv

LEMMA RollbackPreserves ==
  ASSUME RegInv, NEW m \in Models, NEW r \in RowsOf(m), Rollback(m, r)
  PROVE  RegInv'
<1>1. /\ version' = [Marked(m) EXCEPT ![m].status = "champion"]
      /\ operator = Idle
      /\ operator' = [pc |-> "rolling back", row |-> r, old |-> Champions]
      /\ history' = history \cup {"rolled back"}
      /\ UNCHANGED <<disk, policies, objects, scorer, cache, predictions>>
  BY DEF Rollback
<1>2. r \in DOMAIN policies /\ policies[r].model = m /\ r \in Nat
  BY DEF RowsOf, RegInv, RegistryTypeOK
<1>3. m \in Trained
  BY <1>2 DEF RegInv, AllOffered, PolicyOffered, RegistryGrows
<1>4. /\ Marked(m) \in [Models -> VersionRow]
      /\ \A n \in Models :
           /\ Marked(m)[n].costs = version[n].costs /\ Marked(m)[n].offered = version[n].offered
           /\ Marked(m)[n].calibrator = version[n].calibrator
           /\ Marked(m)[n].status = IF n \in Champions \ {m} THEN "retired" ELSE version[n].status
  BY MarkedType
<1>5. /\ version' \in [Models -> VersionRow]
      /\ \A n \in Models :
           /\ version'[n].costs = version[n].costs /\ version'[n].offered = version[n].offered
           /\ version'[n].calibrator = version[n].calibrator
           /\ version'[n].status = IF n = m THEN "champion" ELSE IF n \in Champions THEN "retired" ELSE version[n].status
  <2>1. /\ [Marked(m)[m] EXCEPT !.status = "champion"] \in VersionRow
        /\ [Marked(m)[m] EXCEPT !.status = "champion"].status = "champion"
        /\ [Marked(m)[m] EXCEPT !.status = "champion"].costs = version[m].costs
        /\ [Marked(m)[m] EXCEPT !.status = "champion"].offered = version[m].offered
        /\ [Marked(m)[m] EXCEPT !.status = "champion"].calibrator = version[m].calibrator
    BY <1>4 DEF VersionRow
  <2>2. version' = [Marked(m) EXCEPT ![m] = [Marked(m)[m] EXCEPT !.status = "champion"]]
    BY <1>1
  <2> QED
    BY <1>4, <2>1, <2>2
<1>6. Champions' = {m} /\ Trained' = Trained
  BY <1>3, <1>5 DEF Champions, Trained
<1>7. RegistryTypeOK'
  <2>1. operator' \in [pc : {"rolling back"}, row : Nat, old : SUBSET Models]
    BY <1>1, <1>2 DEF Champions
  <2>2. history' = history \cup {"rolled back"}
    BY <1>1
  <2> QED
    BY <1>1, <1>5, <2>1 DEF RegInv, RegistryTypeOK, DiskType, VersionType, OperatorType, ScorerType
<1>8. /\ ~Promoting' /\ operator'.pc = "rolling back" /\ operator'.row = r /\ operator'.old = Champions
      /\ operator' # Idle
  BY <1>1 DEF Promoting, Idle
<1>9. OneChampion'
  BY <1>1, <1>2, <1>6, <1>8 DEF OneChampion
<1>10. OneActive'
  BY <1>1, <1>8, ActiveOfChampion DEF OneActive
<1>11. \A n \in Models : \A x : /\ CalibratorOffered(n, x)' = CalibratorOffered(n, x)
                               /\ PolicyOffered(n, x)' = PolicyOffered(n, x)
  BY <1>5 DEF CalibratorOffered, PolicyOffered
<1>12. AllOffered' /\ ScoredSoundly'
  <2>1. \A n, p : HasRow(n, p)' = HasRow(n, p)
    BY <1>1 DEF HasRow, RowsOf
  <2>2. AllOffered'
    <3>1. \A n \in Models : IsFiniteSet(version'[n].offered)
      BY <1>5 DEF RegInv, AllOffered
    <3>2. \A n \in Trained' : CalibratorOffered(n, version[n].calibrator)'
      BY <1>5, <1>6, <1>11 DEF RegInv, AllOffered, Trained
    <3>3. \A x \in DOMAIN policies : PolicyOffered(policies[x].model, policies[x].run)'
      <4> SUFFICES ASSUME NEW x \in DOMAIN policies
                   PROVE  PolicyOffered(policies[x].model, policies[x].run)'
        OBVIOUS
      <4>1. PolicyOffered(policies[x].model, policies[x].run) /\ policies[x].model \in Models
        BY RowTypes DEF RegInv, AllOffered
      <4>2. PolicyOffered(policies[x].model, policies[x].run)' = PolicyOffered(policies[x].model, policies[x].run)
        BY <1>1, <1>5, <4>1 DEF PolicyOffered
      <4> QED
        BY <4>1, <4>2
    <3>4. \A n \in Models : objects[n].calibrator # 0 => CalibratorOffered(n, objects[n].calibrator)'
      <4> SUFFICES ASSUME NEW n \in Models, objects[n].calibrator # 0
                   PROVE  CalibratorOffered(n, objects[n].calibrator)'
        OBVIOUS
      <4>1. CalibratorOffered(n, objects[n].calibrator)
        BY DEF RegInv, AllOffered
      <4>2. CalibratorOffered(n, objects[n].calibrator)' = CalibratorOffered(n, objects[n].calibrator)
        BY <1>1, <1>5 DEF CalibratorOffered
      <4> QED
        BY <4>1, <4>2
    <3> QED
      BY <1>1, <3>1, <3>2, <3>3, <3>4 DEF AllOffered
  <2>3. ScoredSoundly'
    <3>1. \A w \in Scorers : \A n \in Models :
            cache[w][n].calibrator # 0 => CalibratorOffered(n, cache[w][n].calibrator)'
      <4> SUFFICES ASSUME NEW w \in Scorers, NEW n \in Models, cache[w][n].calibrator # 0
                   PROVE  CalibratorOffered(n, cache[w][n].calibrator)'
        OBVIOUS
      <4>1. CalibratorOffered(n, cache[w][n].calibrator)
        BY DEF RegInv, ScoredSoundly
      <4>2. CalibratorOffered(n, cache[w][n].calibrator)' = CalibratorOffered(n, cache[w][n].calibrator)
        BY <1>1, <1>5 DEF CalibratorOffered
      <4> QED
        BY <4>1, <4>2
    <3>2. \A w \in Scorers : scorer[w] # Idle => CalibratorOffered(scorer[w].model, scorer[w].calibrator)'
      <4> SUFFICES ASSUME NEW w \in Scorers, scorer[w] # Idle
                   PROVE  CalibratorOffered(scorer[w].model, scorer[w].calibrator)'
        BY <1>1
      <4>1. CalibratorOffered(scorer[w].model, scorer[w].calibrator) /\ scorer[w].model \in Models
        BY RowTypes DEF RegInv, ScoredSoundly
      <4>2. CalibratorOffered(scorer[w].model, scorer[w].calibrator)' = CalibratorOffered(scorer[w].model, scorer[w].calibrator)
        BY <1>1, <1>5, <4>1 DEF CalibratorOffered
      <4> QED
        BY <4>1, <4>2
    <3>3. \A n \in DOMAIN predictions : CalibratorOffered(predictions[n].model, predictions[n].calibrator)'
      <4> SUFFICES ASSUME NEW n \in DOMAIN predictions
                   PROVE  CalibratorOffered(predictions[n].model, predictions[n].calibrator)'
        BY <1>1
      <4>1. CalibratorOffered(predictions[n].model, predictions[n].calibrator) /\ predictions[n].model \in Models
        BY RowTypes DEF RegInv, ScoredSoundly
      <4>2. CalibratorOffered(predictions[n].model, predictions[n].calibrator)'
              = CalibratorOffered(predictions[n].model, predictions[n].calibrator)
        BY <1>1, <1>5, <4>1 DEF CalibratorOffered
      <4> QED
        BY <4>1, <4>2
    <3> QED
      BY <1>1, <2>1, <3>1, <3>2, <3>3 DEF RegInv, ScoredSoundly
  <2> QED
    BY <2>2, <2>3
<1>13. RegistryGrows' /\ NeverWorse'
  BY <1>1, <1>5, <1>6 DEF RegInv, RegistryGrows, NeverWorse
<1> QED
  BY <1>7, <1>9, <1>10, <1>12, <1>13 DEF RegInv

LEMMA ReactivatePolicyPreserves ==
  ASSUME RegInv, ReactivatePolicy
  PROVE  RegInv'
<1>0. PICK s : s = operator.row
  OBVIOUS
<1> DEFINE D == Deactivated(operator.old)
<1>1. /\ operator.pc = "rolling back" /\ operator # Idle
      /\ s \in DOMAIN policies /\ policies[s].model \in Champions /\ "rolled back" \in history
      /\ policies' = [D EXCEPT ![s].active = TRUE] /\ operator' = Idle
      /\ UNCHANGED <<disk, version, objects, scorer, cache, predictions, history>>
  BY <1>0, OperatorFields DEF ReactivatePolicy, RegInv, OneChampion
<1>2. /\ D \in Seq(PolicyRow) /\ DOMAIN D = DOMAIN policies
      /\ \A r \in DOMAIN policies : /\ D[r] \in PolicyRow
                                    /\ D[r].model = policies[r].model /\ D[r].run = policies[r].run
                                    /\ D[r].active <=> policies[r].active /\ policies[r].model \notin operator.old
  BY DeactivatedType
<1> HIDE DEF D
<1>3. PICK row \in PolicyRow : /\ policies' = [D EXCEPT ![s] = row]
                               /\ row.model = policies[s].model /\ row.run = policies[s].run /\ row.active
  <2>1. /\ [D[s] EXCEPT !.active = TRUE] \in PolicyRow
        /\ [D[s] EXCEPT !.active = TRUE].model = policies[s].model
        /\ [D[s] EXCEPT !.active = TRUE].run = policies[s].run
        /\ [D[s] EXCEPT !.active = TRUE].active
    BY <1>1, <1>2 DEF PolicyRow
  <2>2. policies' = [D EXCEPT ![s] = [D[s] EXCEPT !.active = TRUE]]
    BY <1>1
  <2> QED
    BY <2>1, <2>2
<1>4. /\ policies' \in Seq(PolicyRow) /\ DOMAIN policies' = DOMAIN policies
      /\ policies'[s] = row
      /\ \A r \in DOMAIN policies : r # s => policies'[r] = D[r]
  <2>1. D \in Seq(PolicyRow) /\ s \in DOMAIN D /\ row \in PolicyRow
    BY <1>1, <1>2
  <2>2. /\ [D EXCEPT ![s] = row] \in Seq(PolicyRow) /\ DOMAIN [D EXCEPT ![s] = row] = DOMAIN D
        /\ [D EXCEPT ![s] = row][s] = row
        /\ \A k \in DOMAIN D : k # s => [D EXCEPT ![s] = row][k] = D[k]
    BY <2>1, Replaced
  <2> QED
    BY <1>2, <1>3, <2>2
<1>5. \A r \in DOMAIN policies : policies'[r].model = policies[r].model /\ policies'[r].run = policies[r].run
  BY <1>2, <1>3, <1>4
<1>6. AllOffered' /\ ScoredSoundly'
  <2>1. \A r \in DOMAIN policies' : PolicyOffered(policies'[r].model, policies'[r].run)
    BY <1>4, <1>5 DEF RegInv, AllOffered
  <2> QED
    BY <1>1, <1>4, <1>5, <2>1, RowsStay
<1>7. RegistryTypeOK'
  BY <1>1, <1>4 DEF RegInv, RegistryTypeOK, DiskType, VersionType, OperatorType, ScorerType
<1>8. ~Promoting' /\ operator'.pc = "idle"
  BY <1>1 DEF Promoting, Idle
<1>9. Champions' = Champions /\ Trained' = Trained /\ \A d \in Champions : d = policies[s].model
  BY <1>1 DEF RegInv, OneChampion, Champions, Trained
<1>10. OneChampion'
  BY <1>1, <1>8, <1>9 DEF OneChampion
<1>11. OneActive'
  <2> SUFFICES ASSUME "died" \notin history, NEW m \in Champions
               PROVE  \E r \in RowsOf(m)' : {n \in DOMAIN policies' : policies'[n].active} = {r}
    BY <1>1, <1>9 DEF OneActive, RowsOf
  <2>1. \A r \in DOMAIN policies : r # s => ~policies'[r].active
    BY <1>1, <1>2, <1>4 DEF RegInv, OneActive
  <2>2. {n \in DOMAIN policies' : policies'[n].active} = {s}
    BY <1>1, <1>3, <1>4, <2>1
  <2>3. s \in RowsOf(m)'
    BY <1>1, <1>4, <1>5, <1>9 DEF RowsOf
  <2> QED
    BY <2>2, <2>3
<1>12. RegistryGrows' /\ NeverWorse'
  BY <1>1, <1>9 DEF RegInv, RegistryGrows, NeverWorse
<1> QED
  BY <1>6, <1>7, <1>10, <1>11, <1>12 DEF RegInv

LEMMA OperatorDiesPreserves ==
  ASSUME RegInv, OperatorDies
  PROVE  RegInv'
<1>1. /\ operator' = Idle /\ history' = history \cup {"died"}
      /\ UNCHANGED <<disk, version, policies, objects, scorer, cache, predictions>>
  BY DEF OperatorDies
<1>2. ~Promoting' /\ operator'.pc = "idle"
  BY <1>1 DEF Promoting, Idle
<1>3. Champions' = Champions /\ Retired' = Retired /\ EvaluatedOnce' = EvaluatedOnce
  BY <1>1 DEF Champions, Retired, EvaluatedOnce
<1>4. RegistryTypeOK'
  BY <1>1 DEF RegInv, RegistryTypeOK, DiskType, VersionType, OperatorType, ScorerType
<1>5. OneChampion' /\ OneActive'
  BY <1>1, <1>2, <1>3 DEF RegInv, OneChampion, OneActive
<1>6. AllOffered' /\ ScoredSoundly'
  <2>1. /\ \A m, x : CalibratorOffered(m, x)' = CalibratorOffered(m, x)
        /\ \A m, p : PolicyOffered(m, p)' = PolicyOffered(m, p)
        /\ \A m, p : HasRow(m, p)' = HasRow(m, p)
    BY <1>1 DEF CalibratorOffered, PolicyOffered, HasRow, RowsOf
  <2>2. Trained' = Trained
    BY <1>1 DEF Trained
  <2>3. AllOffered'
    BY <1>1, <2>1, <2>2 DEF RegInv, AllOffered
  <2>4. ScoredSoundly'
    BY <1>1, <2>1, <2>2 DEF RegInv, ScoredSoundly
  <2> QED
    BY <2>3, <2>4
<1>7. RegistryGrows' /\ NeverWorse'
  <2>1. Trained' = Trained /\ \A m, p : EvaluationExists(m, p)' = EvaluationExists(m, p)
    BY <1>1 DEF Trained, EvaluationExists
  <2>2. RegistryGrows'
    BY <1>1, <1>2, <1>3, <2>1 DEF RegInv, RegistryGrows
  <2>3. NeverWorse'
    BY <1>1, <1>2, <1>3, <2>1 DEF RegInv, NeverWorse
  <2> QED
    BY <2>2, <2>3
<1> QED
  BY <1>4, <1>5, <1>6, <1>7 DEF RegInv

\* A worker changes nothing of the registry.
LEMMA ScorerFrame ==
  ASSUME RegInv, UNCHANGED unregistered, ScorerType', cache' \in [Scorers -> [Models -> Stored]],
         predictions' \in Seq(Prediction), ScoredSoundly'
  PROVE  RegInv'
<1>1. RegistryTypeOK'
  BY DEF unregistered, RegInv, RegistryTypeOK, DiskType, VersionType, OperatorType
<1>2. Champions' = Champions /\ Retired' = Retired /\ Trained' = Trained /\ EvaluatedOnce' = EvaluatedOnce
      /\ Promoting' = Promoting
  BY DEF unregistered, Champions, Retired, Trained, EvaluatedOnce, Promoting
<1>3. OneChampion' /\ OneActive'
  <2>1. \A m : RowsOf(m)' = RowsOf(m)
    BY DEF unregistered, RowsOf
  <2>2. OneChampion'
    BY <1>2 DEF unregistered, RegInv, OneChampion
  <2>3. OneActive'
    BY <1>2, <2>1 DEF unregistered, RegInv, OneActive
  <2> QED
    BY <2>2, <2>3
<1>4. AllOffered' /\ RegistryGrows'
  <2>1. /\ \A m, x : CalibratorOffered(m, x)' = CalibratorOffered(m, x)
        /\ \A m, p : PolicyOffered(m, p)' = PolicyOffered(m, p)
    BY DEF unregistered, CalibratorOffered, PolicyOffered
  <2>2. AllOffered'
    <3>1. UNCHANGED <<version, policies, objects>> /\ AllOffered
      BY DEF unregistered, RegInv
    <3> QED
      BY <1>2, <2>1, <3>1 DEF AllOffered
  <2>3. RegistryGrows'
    BY <1>2 DEF unregistered, RegInv, RegistryGrows
  <2> QED
    BY <2>2, <2>3
<1>5. NeverWorse'
  BY <1>2 DEF unregistered, RegInv, NeverWorse, EvaluationExists
<1> QED
  BY <1>1, <1>3, <1>4, <1>5 DEF RegInv

\* What holds of a worker and its model is not disturbed by another step of a worker.
LEMMA ScorerFacts ==
  ASSUME RegInv, UNCHANGED unregistered
  PROVE  /\ \A m, x : CalibratorOffered(m, x)' = CalibratorOffered(m, x)
         /\ \A m, p : HasRow(m, p)' = HasRow(m, p)
BY DEF unregistered, CalibratorOffered, HasRow, RowsOf

\* Worker w goes on with q.
LEMMA ReadPreserves ==
  ASSUME RegInv, UNCHANGED unregistered, UNCHANGED predictions, NEW w \in Scorers, NEW q,
         scorer' = [scorer EXCEPT ![w] = q],
         \/ q = Idle
         \/ /\ q \in [pc : {"version"}, model : Models, calibrator : Nat]
            /\ CalibratorOffered(q.model, q.calibrator)
         \/ /\ q \in [pc : {"policy"}, model : Models, calibrator : Nat, policy : Nat]
            /\ CalibratorOffered(q.model, q.calibrator) /\ HasRow(q.model, q.policy),
         cache' \in [Scorers -> [Models -> Stored]],
         \A x \in Scorers : \A m \in Models :
           cache'[x][m].calibrator # 0 => CalibratorOffered(m, cache'[x][m].calibrator)
  PROVE  RegInv'
<1>1. ScorerType'
  BY DEF RegInv, RegistryTypeOK, ScorerType
<1>2. \A x \in Scorers : scorer'[x] = IF x = w THEN q ELSE scorer[x]
  BY DEF RegInv, RegistryTypeOK, ScorerType
<1>3. /\ q # Idle => CalibratorOffered(q.model, q.calibrator)
      /\ q.pc = "policy" => HasRow(q.model, q.policy)
  BY DEF Idle
<1>4. /\ \A m, x : CalibratorOffered(m, x)' = CalibratorOffered(m, x)
      /\ \A m, p : HasRow(m, p)' = HasRow(m, p)
  BY ScorerFacts
<1>5. ScoredSoundly'
  <2>1. \A x \in Scorers : scorer'[x] # Idle => CalibratorOffered(scorer[x].model, scorer[x].calibrator)'
    BY <1>2, <1>3, <1>4 DEF RegInv, ScoredSoundly
  <2>2. \A x \in Scorers : scorer'[x].pc = "policy" => HasRow(scorer[x].model, scorer[x].policy)'
    BY <1>2, <1>3, <1>4 DEF RegInv, ScoredSoundly
  <2>3. \A n \in DOMAIN predictions' :
          /\ CalibratorOffered(predictions[n].model, predictions[n].calibrator)'
          /\ HasRow(predictions[n].model, predictions[n].policy)'
    BY <1>4 DEF RegInv, ScoredSoundly
  <2>4. \A x \in Scorers : \A m \in Models :
          cache'[x][m].calibrator # 0 => CalibratorOffered(m, cache[x][m].calibrator)'
    BY <1>4
  <2> QED
    BY <2>1, <2>2, <2>3, <2>4 DEF ScoredSoundly
<1> QED
  BY <1>1, <1>5, ScorerFrame DEF RegInv, RegistryTypeOK

LEMMA ReadChampionPreserves ==
  ASSUME RegInv, NEW w \in Scorers, ReadChampion(w)
  PROVE  RegInv'
<1>1. PICK m \in Champions :
        scorer' = [scorer EXCEPT ![w] = [pc |-> "version", model |-> m, calibrator |-> version[m].calibrator]]
  BY DEF ReadChampion
<1> DEFINE q == [pc |-> "version", model |-> m, calibrator |-> version[m].calibrator]
<1>2. m \in Models /\ m \in Trained
  BY DEF Champions, Trained
<1>3. version[m].calibrator \in Nat
  BY <1>2 DEF RegInv, RegistryTypeOK, VersionType, VersionRow
<1>4. q \in [pc : {"version"}, model : Models, calibrator : Nat] /\ CalibratorOffered(q.model, q.calibrator)
  BY <1>2, <1>3 DEF RegInv, AllOffered
<1>5. UNCHANGED unregistered /\ UNCHANGED <<cache, predictions>>
  BY DEF ReadChampion, unregistered
<1> HIDE DEF q
<1>6. scorer' = [scorer EXCEPT ![w] = q]
  BY <1>1 DEF q
<1>7. /\ cache' \in [Scorers -> [Models -> Stored]]
      /\ \A x \in Scorers : \A n \in Models :
           cache'[x][n].calibrator # 0 => CalibratorOffered(n, cache'[x][n].calibrator)
  BY <1>5 DEF RegInv, RegistryTypeOK, ScoredSoundly
<1> QED
  BY <1>4, <1>5, <1>6, <1>7, ReadPreserves

LEMMA ReadPolicyPreserves ==
  ASSUME RegInv, NEW w \in Scorers, ReadPolicy(w)
  PROVE  RegInv'
<1>1. PICK r \in ActiveOf(scorer[w].model) :
        scorer' = [scorer EXCEPT ![w] = [pc |-> "policy", model |-> scorer[w].model,
                                         calibrator |-> scorer[w].calibrator, policy |-> policies[r].run]]
  BY DEF ReadPolicy
<1> DEFINE q == [pc |-> "policy", model |-> scorer[w].model, calibrator |-> scorer[w].calibrator,
                 policy |-> policies[r].run]
<1>2. scorer[w] # Idle
  BY DEF ReadPolicy, Idle
<1>3. scorer[w].model \in Models /\ scorer[w].calibrator \in Nat /\ policies[r].run \in Nat
  BY <1>2, RowTypes DEF ActiveOf, RowsOf
<1>4. /\ q \in [pc : {"policy"}, model : Models, calibrator : Nat, policy : Nat]
      /\ CalibratorOffered(q.model, q.calibrator) /\ HasRow(q.model, q.policy)
  <2>1. CalibratorOffered(scorer[w].model, scorer[w].calibrator)
    BY <1>2 DEF RegInv, ScoredSoundly
  <2>2. HasRow(scorer[w].model, policies[r].run)
    BY DEF ActiveOf, HasRow
  <2> QED
    BY <1>3, <2>1, <2>2
<1>5. UNCHANGED unregistered /\ UNCHANGED <<cache, predictions>>
  BY DEF ReadPolicy, unregistered
<1> HIDE DEF q
<1>6. scorer' = [scorer EXCEPT ![w] = q]
  BY <1>1 DEF q
<1>7. /\ cache' \in [Scorers -> [Models -> Stored]]
      /\ \A x \in Scorers : \A n \in Models :
           cache'[x][n].calibrator # 0 => CalibratorOffered(n, cache'[x][n].calibrator)
  BY <1>5 DEF RegInv, RegistryTypeOK, ScoredSoundly
<1> QED
  BY <1>4, <1>5, <1>6, <1>7, ReadPreserves

\* A cache with an entry o that was offered.
LEMMA CachePreserves ==
  ASSUME RegInv, NEW w \in Scorers, NEW m \in Models, NEW o \in Stored,
         cache' = cache \/ cache' = [cache EXCEPT ![w][m] = o],
         o.calibrator # 0 => CalibratorOffered(m, o.calibrator)
  PROVE  /\ cache' \in [Scorers -> [Models -> Stored]]
         /\ \A x \in Scorers : \A n \in Models :
              cache'[x][n].calibrator # 0 => CalibratorOffered(n, cache'[x][n].calibrator)
<1>1. cache \in [Scorers -> [Models -> Stored]]
  BY DEF RegInv, RegistryTypeOK
<1>2. \A x \in Scorers : \A n \in Models :
        cache[x][n].calibrator # 0 => CalibratorOffered(n, cache[x][n].calibrator)
  BY DEF RegInv, ScoredSoundly
<1>3. CASE cache' = [cache EXCEPT ![w][m] = o]
  <2>1. /\ cache' \in [Scorers -> [Models -> Stored]]
        /\ \A x \in Scorers : \A n \in Models : cache'[x][n] = IF x = w /\ n = m THEN o ELSE cache[x][n]
    BY <1>1, <1>3
  <2> QED
    BY <1>2, <2>1
<1> QED
  BY <1>1, <1>2, <1>3

LEMMA FetchedType ==
  ASSUME RegInv, NEW w \in Scorers, NEW m \in Models
  PROVE  /\ Fetched(w, m) \in Stored
         /\ Fetched(w, m).calibrator # 0 => CalibratorOffered(m, Fetched(w, m).calibrator)
<1>1. cache[w][m] \in Stored /\ objects[m] \in Stored
  BY DEF RegInv, RegistryTypeOK
<1>2. /\ cache[w][m].calibrator # 0 => CalibratorOffered(m, cache[w][m].calibrator)
      /\ objects[m].calibrator # 0 => CalibratorOffered(m, objects[m].calibrator)
  BY DEF RegInv, ScoredSoundly, AllOffered
<1>3. Fetched(w, m) \in Stored
  BY <1>1 DEF Fetched, Stored
<1>4. Fetched(w, m).calibrator = IF cache[w][m].calibrator # 0 THEN cache[w][m].calibrator ELSE objects[m].calibrator
  BY DEF Fetched
<1> QED
  BY <1>2, <1>3, <1>4

LEMMA ScorePreserves ==
  ASSUME RegInv, NEW w \in Scorers, Score(w)
  PROVE  RegInv' /\ \E p \in Prediction : predictions' = Append(predictions, p)
<1>0. PICK m : m = scorer[w].model
  OBVIOUS
<1> DEFINE p == [model |-> m, policy |-> scorer[w].policy,
                 calibrator |-> IF w \in Local THEN scorer[w].calibrator ELSE Fetched(w, m).calibrator]
<1>1. /\ scorer[w].pc = "policy" /\ (w \in Local \/ Complete(Fetched(w, m)))
      /\ cache' = cache \/ cache' = [cache EXCEPT ![w][m] = Fetched(w, m)]
      /\ predictions' = Append(predictions, p)
      /\ scorer' = [scorer EXCEPT ![w] = Idle]
      /\ UNCHANGED unregistered
  BY <1>0 DEF Score
<1>2. scorer[w] # Idle
  BY <1>1 DEF Idle
<1>3. /\ m \in Models /\ scorer[w].calibrator \in Nat /\ scorer[w].policy \in Nat
      /\ CalibratorOffered(m, scorer[w].calibrator) /\ HasRow(m, scorer[w].policy)
  BY <1>0, <1>1, <1>2, RowTypes DEF RegInv, ScoredSoundly
<1>4. /\ Fetched(w, m) \in Stored
      /\ Fetched(w, m).calibrator # 0 => CalibratorOffered(m, Fetched(w, m).calibrator)
  BY <1>3, FetchedType
<1>5. p \in Prediction
  BY <1>3, <1>4 DEF Prediction, Stored
<1>6. CalibratorOffered(p.model, p.calibrator) /\ HasRow(p.model, p.policy)
  BY <1>1, <1>3, <1>4 DEF Complete
<1> HIDE DEF p
<1>7. /\ cache' \in [Scorers -> [Models -> Stored]]
      /\ \A x \in Scorers : \A n \in Models :
           cache'[x][n].calibrator # 0 => CalibratorOffered(n, cache'[x][n].calibrator)
  BY <1>1, <1>3, <1>4, CachePreserves
<1>8. ScorerType' /\ \A x \in Scorers : scorer'[x] = IF x = w THEN Idle ELSE scorer[x]
  BY <1>1 DEF RegInv, RegistryTypeOK, ScorerType
<1>9. /\ predictions' \in Seq(Prediction)
      /\ DOMAIN predictions' = DOMAIN predictions \cup {Len(predictions) + 1}
      /\ \A n \in DOMAIN predictions : predictions'[n] = predictions[n]
      /\ predictions'[Len(predictions) + 1] = p
  <2>1. predictions \in Seq(Prediction)
    BY DEF RegInv, RegistryTypeOK
  <2> QED
    BY <1>1, <1>5, <2>1, Appended
<1>10. /\ \A n, x : CalibratorOffered(n, x)' = CalibratorOffered(n, x)
       /\ \A n, x : HasRow(n, x)' = HasRow(n, x)
  BY <1>1, ScorerFacts
<1>11. ScoredSoundly'
  <2>1. /\ \A x \in Scorers : scorer'[x] # Idle => CalibratorOffered(scorer[x].model, scorer[x].calibrator)'
        /\ \A x \in Scorers : scorer'[x].pc = "policy" => HasRow(scorer[x].model, scorer[x].policy)'
    BY <1>8, <1>10 DEF RegInv, ScoredSoundly, Idle
  <2>2. \A n \in DOMAIN predictions' :
          /\ CalibratorOffered(predictions'[n].model, predictions'[n].calibrator)
          /\ HasRow(predictions'[n].model, predictions'[n].policy)
    BY <1>6, <1>9 DEF RegInv, ScoredSoundly
  <2>3. \A n \in DOMAIN predictions' :
          /\ CalibratorOffered(predictions[n].model, predictions[n].calibrator)'
          /\ HasRow(predictions[n].model, predictions[n].policy)'
    BY <1>10, <2>2
  <2>4. \A x \in Scorers : \A n \in Models :
          cache'[x][n].calibrator # 0 => CalibratorOffered(n, cache[x][n].calibrator)'
    BY <1>7, <1>10
  <2> QED
    BY <2>1, <2>3, <2>4 DEF ScoredSoundly
<1> QED
  BY <1>1, <1>5, <1>7, <1>8, <1>9, <1>11, ScorerFrame

LEMMA UnavailablePreserves ==
  ASSUME RegInv, NEW w \in Scorers, Unavailable(w)
  PROVE  RegInv'
<1>0. PICK m : m = scorer[w].model
  OBVIOUS
<1>1. /\ scorer' = [scorer EXCEPT ![w] = Idle] /\ UNCHANGED unregistered /\ UNCHANGED predictions
      /\ scorer[w].pc \in {"version", "policy"}
  BY DEF Unavailable, unregistered
<1>2. m \in Models
  <2>1. scorer[w] # Idle
    BY <1>1 DEF Idle
  <2> QED
    BY <1>0, <2>1, RowTypes
<1>3. cache[w][m] \in Stored /\ Fetched(w, m) \in Stored
  BY <1>2, FetchedType DEF RegInv, RegistryTypeOK
<1>4. PICK o \in Stored : /\ cache' = cache \/ cache' = [cache EXCEPT ![w][m] = o]
                          /\ o.calibrator = cache[w][m].calibrator
  <2>1. CASE UNCHANGED cache
    BY <1>3, <2>1
  <2>2. CASE \E got \in {cache[w][m].model, Fetched(w, m).model} : cache' = [cache EXCEPT ![w][m].model = got]
    <3>1. PICK got \in {cache[w][m].model, Fetched(w, m).model} : cache' = [cache EXCEPT ![w][m].model = got]
      BY <2>2
    <3>2. got \in BOOLEAN
      BY <1>3, <3>1 DEF Stored
    <3> DEFINE o == [cache[w][m] EXCEPT !.model = got]
    <3>3. o \in Stored /\ o.calibrator = cache[w][m].calibrator
      BY <1>3, <3>2 DEF Stored
    <3>4. cache' = [cache EXCEPT ![w][m] = o]
      BY <3>1
    <3> QED
      BY <3>3, <3>4
  <2> QED
    BY <1>0, <2>1, <2>2 DEF Unavailable
<1>5. o.calibrator # 0 => CalibratorOffered(m, o.calibrator)
  BY <1>2, <1>4 DEF RegInv, ScoredSoundly
<1>6. /\ cache' \in [Scorers -> [Models -> Stored]]
      /\ \A x \in Scorers : \A n \in Models :
           cache'[x][n].calibrator # 0 => CalibratorOffered(n, cache'[x][n].calibrator)
  BY <1>2, <1>4, <1>5, CachePreserves
<1> DEFINE q == Idle
<1>7. q = Idle /\ scorer' = [scorer EXCEPT ![w] = q]
  BY <1>1
<1> HIDE DEF q
<1> QED
  BY <1>1, <1>6, <1>7, ReadPreserves

LEMMA RegistryStutter ==
  ASSUME RegInv, UNCHANGED registryVars
  PROVE  RegInv'
BY PipelinePreserves DEF registryVars, unscored, RegInv, RegistryTypeOK, DiskType

\* A step of the registry preserves its invariant and adds at most a prediction.
LEMMA RegistryPreserves ==
  ASSUME RegInv, PipelineStep \/ OperatorStep \/ ScorerStep
  PROVE  /\ RegInv'
         /\ predictions' = predictions \/ \E p \in Prediction : predictions' = Append(predictions, p)
<1>1. CASE PipelineStep
  <2>1. predictions' = predictions
    BY <1>1 DEF PipelineStep, Train, Calibrate, OptimizeThresholds, EvaluateHoldout, unscored
  <2> QED
    BY <1>1, <2>1, PipelineStepPreserves
<1>2. CASE OperatorStep
  <2>1. predictions' = predictions
    BY <1>2 DEF OperatorStep, Reject, Promote, ActivatePolicy, ReactivatePolicy, OperatorDies, Upload, Rollback
  <2>2. ASSUME NEW m \in Models, NEW r \in RowsOf(m), Rollback(m, r)
        PROVE  RegInv'
    BY <2>2, RollbackPreserves
  <2>3. ASSUME NEW through \in 0..2, Upload(through)
        PROVE  RegInv'
    BY <2>3, UploadPreserves
  <2>4. ASSUME Reject \/ Promote \/ ActivatePolicy \/ ReactivatePolicy \/ OperatorDies
        PROVE  RegInv'
    BY <2>4, RejectPreserves, PromotePreserves, ActivatePolicyPreserves, ReactivatePolicyPreserves, OperatorDiesPreserves
  <2> QED
    BY <1>2, <2>1, <2>2, <2>3, <2>4 DEF OperatorStep
<1>3. ASSUME NEW w \in Scorers, ReadChampion(w) \/ ReadPolicy(w) \/ Unavailable(w)
      PROVE  RegInv' /\ predictions' = predictions
  <2>1. predictions' = predictions
    BY <1>3 DEF ReadChampion, ReadPolicy, Unavailable
  <2> QED
    BY <1>3, <2>1, ReadChampionPreserves, ReadPolicyPreserves, UnavailablePreserves
<1> QED
  BY <1>1, <1>2, <1>3, ScorePreserves DEF ScorerStep

\* Every step preserves both invariants.
LEMMA InvNext == RegInv /\ FInv /\ [Next]_vars => RegInv' /\ FInv'
<1> SUFFICES ASSUME RegInv, FInv, [Next]_vars
             PROVE  RegInv' /\ FInv'
  OBVIOUS
<1>1. CASE UNCHANGED registryVars /\ Feedback!FeedbackStep
  BY <1>1, RegistryStutter, FeedbackPreserves
<1>2. ASSUME RegInv', UNCHANGED feedbackVars,
             predictions' = predictions \/ \E p \in Prediction : predictions' = Append(predictions, p)
      PROVE  FInv'
  <2>1. predictions \in Seq(Prediction)
    BY DEF RegInv, RegistryTypeOK
  <2>2. Len(predictions)' \in Nat /\ Len(predictions) <= Len(predictions)'
    BY <1>2, <2>1
  <2> QED
    BY <1>2, <2>2, PredictPreserves
<1>3. CASE (PipelineStep \/ OperatorStep \/ ScorerStep) /\ UNCHANGED feedbackVars
  BY <1>2, <1>3, RegistryPreserves
<1>4. CASE UNCHANGED registryVars /\ UNCHANGED feedbackVars
  BY <1>2, <1>4, RegistryStutter DEF registryVars
<1> QED
  BY <1>1, <1>3, <1>4 DEF Next, vars

-----------------------------------------------------------------------------
(*                                Theorems                                 *)

\* The inductive invariants hold always.
THEOREM LearningInvariance == Spec => [](RegInv /\ FInv)
BY RegInvInit, FInvInit, InvNext, PTL DEF Spec

\* Every variable of the outcomes and labels has its type.
THEOREM FeedbackTypeCorrect == Spec => []Feedback!FeedbackTypeOK
<1>1. FInv => Feedback!FeedbackTypeOK
  BY DEF FInv
<1> QED
  BY <1>1, LearningInvariance, PTL

\* An event has one outcome, an outcome names a contest that was submitted and a
\* prediction not older than it, and the labels of an outcome have no gap,
\* whatever races (ingest_outcome_event, curate_outcome).
THEOREM FeedbackSound == Spec => []FeedbackIsSound
<1>1. FInv => FeedbackIsSound
  <2> SUFFICES ASSUME FInv PROVE FeedbackIsSound
    OBVIOUS
  <2>1. \A n \in DOMAIN labels :
          /\ labels[n].outcome \in DOMAIN outcomes
          /\ \A v \in 1..labels[n].version :
               \E k \in Feedback!LabelsOf(labels[n].outcome) : labels[k].version = v
    BY DEF FInv, Numbered, Labelled
  <2>2. \A n \in DOMAIN outcomes : Attributed(outcomes[n])
    BY DEF FInv, Traced
  <2> QED
    BY <2>1, <2>2 DEF FeedbackIsSound, Feedback!FeedbackIsSound, FInv, OneRow, Attributed
<1> QED
  BY <1>1, LearningInvariance, PTL

\* One model serves, with its policy, its predictions are made with what was
\* offered, and without a rollback none serves that is known to be worse, however
\* often the operator promotes, rolls back and dies (promote_candidate, rollback,
\* load_champion_artifacts).
THEOREM RegistrySound == Spec => []RegistryIsSound
<1>1. RegInv => RegistryIsSound
  <2> SUFFICES ASSUME RegInv PROVE RegistryIsSound
    OBVIOUS
  <2>1. Cardinality(Champions) <= 1
    <3>1. CASE Champions = {}
      BY <3>1, FS_EmptySet
    <3>2. CASE Champions # {}
      <4>1. PICK c \in Champions : TRUE
        BY <3>2
      <4>2. Champions = {c}
        BY <4>1 DEF RegInv, OneChampion
      <4> QED
        BY <4>2, FS_Singleton
    <3> QED
      BY <3>1, <3>2
  <2>2. policies # <<>> => Champions # {}
    BY DEF RegInv, OneChampion
  <2>3. operator = Idle /\ "died" \notin history =>
          \A m \in Champions : \E r \in RowsOf(m) : {n \in DOMAIN policies : policies[n].active} = {r}
    BY DEF RegInv, OneActive
  <2>4. ASSUME NEW n \in DOMAIN predictions
        PROVE  LET p == predictions[n] IN
               /\ \E r \in RowsOf(p.model) : policies[r].run = p.policy
               /\ Cardinality(version[p.model].offered) = 1 => <<p.calibrator, p.policy>> \in version[p.model].offered
    <3> DEFINE p == predictions[n]
    <3>1. CalibratorOffered(p.model, p.calibrator) /\ HasRow(p.model, p.policy)
      BY DEF RegInv, ScoredSoundly
    <3>2. PolicyOffered(p.model, p.policy)
      BY <3>1 DEF HasRow, RowsOf, RegInv, AllOffered
    <3>3. ASSUME Cardinality(version[p.model].offered) = 1
          PROVE  <<p.calibrator, p.policy>> \in version[p.model].offered
      <4>1. IsFiniteSet(version[p.model].offered)
        BY RowTypes DEF RegInv, AllOffered
      <4>2. PICK x : version[p.model].offered = {x}
        BY <3>3, <4>1, FS_Singleton
      <4>3. PICK a \in Nat, b \in Nat : x = <<p.calibrator, a>> /\ x = <<b, p.policy>>
        BY <3>1, <3>2, <4>2 DEF CalibratorOffered, PolicyOffered
      <4> QED
        BY <4>2, <4>3
    <3> QED
      BY <3>1, <3>3 DEF HasRow
  <2>5. "rolled back" \notin history =>
          /\ EvaluatedOnce =>
               \A a \in Retired, c \in Champions : \A x \in version[a].costs, y \in version[c].costs : y <= x
          /\ \A r \in DOMAIN policies :
               version[policies[r].model].costs # {} =>
                 \E n \in DOMAIN disk.evaluations : /\ disk.evaluations[n].model = policies[r].model
                                                    /\ disk.evaluations[n].policy = policies[r].run
    BY DEF RegInv, NeverWorse, EvaluationExists
  <2> QED
    BY <2>1, <2>2, <2>3, <2>4, <2>5 DEF RegistryIsSound
<1> QED
  BY <1>1, LearningInvariance, PTL

-----------------------------------------------------------------------------
(*                    The benchmark: labels and features                   *)

\* The recursion that FoldLeft is made of, over the documents of a case.
StateRec(f, c) ==
  f = [s \in SUBSET DOMAIN c.documents |->
         IF s = {} THEN "MISSING"
         ELSE LET n == Max(s) IN
              IF c.documents[n].type = c.required /\ Loaded(c.documents[n].status)
              THEN Weigh(f[s \ {n}], c.documents[n].status) ELSE f[s \ {n}]]

LEMMA NoDocument ==
  ASSUME NEW c, c.documents = <<>>
  PROVE  RequirementState(c) = "MISSING"
<1> DEFINE g == CHOOSE f : StateRec(f, c)
<1>1. DOMAIN c.documents = {}
  OBVIOUS
<1>2. StateRec([s \in SUBSET DOMAIN c.documents |-> "MISSING"], c)
  BY <1>1, Zenon DEF StateRec
<1>3. StateRec(g, c)
  BY <1>2
<1>4. RequirementState(c) = g[DOMAIN c.documents]
  BY Zenon DEF RequirementState, FoldLeft, MapThenFoldSet, StateRec
<1> HIDE DEF g
<1>5. g[DOMAIN c.documents] = "MISSING"
  BY <1>1, <1>3, Zenon DEF StateRec
<1> QED
  BY <1>4, <1>5

\* A single document that is of the type and extracted.
LEMMA OneDocument ==
  ASSUME NEW c, NEW d, c.documents = <<d>>, d.type = c.required, d.status = "EXTRACTED"
  PROVE  RequirementState(c) = "PRESENT"
<1> DEFINE g == CHOOSE f : StateRec(f, c)
           h == [s \in SUBSET {1} |-> IF s = {} THEN "MISSING" ELSE "PRESENT"]
<1>1. DOMAIN c.documents = {1} /\ c.documents[1] = d
  OBVIOUS
<1>2. Loaded(d.status) /\ Weigh("MISSING", d.status) = "PRESENT"
  BY DEF Loaded, Weigh, Unusable
<1>3. Max({1}) = 1
  BY DEF Max
<1>4. \A s \in SUBSET {1} : s = {} \/ s = {1}
  OBVIOUS
<1>5. \A s \in SUBSET {1} :
        h[s] = IF s = {} THEN "MISSING"
               ELSE LET n == Max(s) IN
                    IF c.documents[n].type = c.required /\ Loaded(c.documents[n].status)
                    THEN Weigh(h[s \ {n}], c.documents[n].status) ELSE h[s \ {n}]
  <2>1. h[{}] = "MISSING" /\ h[{1}] = "PRESENT" /\ {1} \ {1} = {} /\ {1} # {}
    OBVIOUS
  <2> HIDE DEF h
  <2>2. h[{1}] = IF c.documents[1].type = c.required /\ Loaded(c.documents[1].status)
                 THEN Weigh(h[{1} \ {1}], c.documents[1].status) ELSE h[{1} \ {1}]
    BY <1>1, <1>2, <2>1
  <2>3. ASSUME NEW s \in SUBSET {1}, s # {}
        PROVE  h[s] = LET n == Max(s) IN
                      IF c.documents[n].type = c.required /\ Loaded(c.documents[n].status)
                      THEN Weigh(h[s \ {n}], c.documents[n].status) ELSE h[s \ {n}]
    <3>1. s = {1} /\ Max(s) = 1
      BY <1>3, <1>4, <2>3
    <3> QED
      BY <2>2, <3>1
  <2> QED
    BY <2>1, <2>3
<1>6. h = [s \in SUBSET {1} |-> h[s]]
  OBVIOUS
<1> HIDE DEF h
<1>7. StateRec(h, c)
  BY <1>1, <1>5, <1>6, Zenon DEF StateRec
<1>8. StateRec(g, c)
  BY <1>7
<1>9. RequirementState(c) = g[DOMAIN c.documents]
  BY Zenon DEF RequirementState, FoldLeft, MapThenFoldSet, StateRec
<1> HIDE DEF g
<1>10. \A s \in SUBSET {1} :
        g[s] = IF s = {} THEN "MISSING"
               ELSE LET n == Max(s) IN
                    IF c.documents[n].type = c.required /\ Loaded(c.documents[n].status)
                    THEN Weigh(g[s \ {n}], c.documents[n].status) ELSE g[s \ {n}]
  BY <1>1, <1>8, Zenon DEF StateRec
<1>11. g[{}] = "MISSING"
  BY <1>10
<1>12. g[{1}] = "PRESENT"
  BY <1>1, <1>2, <1>3, <1>10, <1>11
<1> QED
  BY <1>1, <1>9, <1>12

\* What a case of the benchmark is: it has at most one document.
Synthetic(c) ==
  /\ c.status \in {"open", "lost"} /\ c.daysLeft = 10 /\ c.order = 5000
  /\ \/ c.documents = <<>>
     \/ \E d : /\ c.documents = <<d>>
               /\ d.type = c.required /\ d.status = "EXTRACTED"
               /\ d.amount \in {3000, 5000} /\ d.confidence \in {60, 95}

LEMMA CaseFacts == \A s \in Scenarios, r \in Reasons : Synthetic(CaseOf(s, r))
<1> SUFFICES ASSUME NEW s \in Scenarios, NEW r \in Reasons, NEW c, c = CaseOf(s, r)
             PROVE  Synthetic(c)
  OBVIOUS
<1> DEFINE d == [type |-> ReasonCodeEvidenceType[r], status |-> "EXTRACTED", fields |-> 1,
                 amount |-> IF s = "CONTRADICTORY" THEN 3000 ELSE 5000,
                 confidence |-> IF s = "QUALITY_DEGRADED" THEN 60 ELSE 95]
<1>1. c.documents = DocumentsOf(s, r) /\ c.required = ReasonCodeEvidenceType[r]
  BY DEF CaseOf
<1>2. DocumentsOf(s, r) = <<>> \/ DocumentsOf(s, r) = <<d>>
  BY DEF DocumentsOf
<1>3. /\ d.type = ReasonCodeEvidenceType[r] /\ d.status = "EXTRACTED"
      /\ d.amount \in {3000, 5000} /\ d.confidence \in {60, 95}
  OBVIOUS
<1>4. c.status \in {"open", "lost"} /\ c.daysLeft = 10 /\ c.order = 5000
  BY DEF CaseOf
<1> HIDE DEF d
<1> QED
  BY <1>1, <1>2, <1>3, <1>4 DEF Synthetic

\* The rules a label goes by fail, or count nothing.
LEMMA FailedRules ==
  ASSUME NEW c
  PROVE  /\ \A x \in Failed(c) : x.severity \in {"ERROR", "WARN"}
         /\ RequiredEvidencePresent(c) = "FAIL" => Failed(c) # {}
         /\ InvoiceAmountMatch(c) = "FAIL" => Failed(c) # {}
<1>1. \A x \in Results(c) : x.severity \in {"ERROR", "WARN"}
  BY DEF Results
<1>2. ASSUME RequiredEvidencePresent(c) = "FAIL"
      PROVE  [rule |-> "REQUIRED_EVIDENCE_PRESENT", severity |-> "ERROR", result |-> "FAIL"] \in Failed(c)
  BY <1>2 DEF Failed, Results
<1>3. ASSUME InvoiceAmountMatch(c) = "FAIL"
      PROVE  [rule |-> "INVOICE_AMOUNT_MATCH", severity |-> "ERROR", result |-> "FAIL"] \in Failed(c)
  BY <1>3 DEF Failed, Results
<1> QED
  BY <1>1, <1>2, <1>3 DEF Failed

\* What is not held against a case that gets the label 1.
LEMMA Unblocked ==
  ASSUME NEW c, Label(c) = 1
  PROVE  /\ c.status # "lost" /\ (c.daysLeft = None \/ ~(c.daysLeft <= 0))
         /\ Failed(c) = {}
         /\ \A d \in Extracted(c) : ~(d.confidence < 70)
<1>1. Blocking(c) = {}
  BY DEF Label
<1>2. /\ "status" \notin Blocking(c) /\ "deadline" \notin Blocking(c)
      /\ "contradiction" \notin Blocking(c) /\ "confidence" \notin Blocking(c)
  BY <1>1
<1>3. c.status # "lost"
  BY <1>2 DEF Blocking
<1>4. c.daysLeft = None \/ ~(c.daysLeft <= 0)
  BY <1>2 DEF Blocking
<1>5. \A x \in Failed(c) : ~(x.severity \in {"ERROR", "WARN"})
  BY <1>2 DEF Blocking
<1>6. \A d \in Extracted(c) : ~(d.confidence < 70)
  BY <1>2 DEF Blocking
<1> QED
  BY <1>3, <1>4, <1>5, <1>6, FailedRules

\* What the amount of a single invoice comes to.
LEMMA OneInvoice ==
  ASSUME NEW c, NEW d, c.documents = <<d>>, c.order = 5000, d.type = "INVOICE", d.status = "EXTRACTED",
         d.amount \in {3000, 5000}
  PROVE  InvoiceAmountMatch(c) = IF d.amount = 5000 THEN "PASS" ELSE "FAIL"
<1> DEFINE invoices == {n \in DOMAIN c.documents : c.documents[n].type = "INVOICE" /\ Loaded(c.documents[n].status)}
           readable == {n \in invoices : c.documents[n].amount # None}
<1>1. Target(c) = 5000 /\ Target(c) # None
  BY NoneAssumption DEF Target
<1>2. DOMAIN c.documents = {1} /\ c.documents[1] = d /\ Loaded(d.status) /\ d.amount # None
  BY NoneAssumption DEF Loaded
<1>3. invoices = {1}
  BY <1>2
<1> HIDE DEF invoices
<1>4. readable = {1}
  BY <1>2, <1>3
<1> HIDE DEF readable
<1>5. Min(readable) = 1
  BY <1>4 DEF Min
<1> QED
  BY <1>1, <1>2, <1>3, <1>4, <1>5 DEF InvoiceAmountMatch, invoices, readable

\* Examples are what their label says.
LEMMA ExampleIsJustified ==
  ASSUME NEW s \in Scenarios, NEW r \in Reasons, NEW g
  PROVE  Justified(ExampleOf(s, r, g))
<1> DEFINE c == CaseOf(s, r)
           e == ExampleOf(s, r, g)
<1>1. /\ e.scenario = s /\ e.reason = r /\ e.label = Label(c) /\ e.features = Features(c)
      /\ CaseOf(e.scenario, e.reason) = c
  BY DEF ExampleOf
<1>2. /\ Features(c).coverage = IF RequirementState(c) = "PRESENT" THEN 1 ELSE 0
      /\ Features(c).missing = IF RequirementState(c) = "MISSING" THEN 1 ELSE 0
      /\ Features(c).contradictions = Cardinality(Failed(c))
      /\ Features(c).severe = Cardinality({x \in Failed(c) : x.severity = "ERROR"})
      /\ Features(c).daysToDeadline = c.daysLeft
      /\ Features(c).amountMatch \in {TRUE, FALSE, None}
      /\ Features(c).amountMatch = FALSE => InvoiceAmountMatch(c) = "FAIL"
  <2>1. Features(c).amountMatch = CASE InvoiceAmountMatch(c) = "PASS" -> TRUE
                                    [] InvoiceAmountMatch(c) = "FAIL" -> FALSE
                                    [] OTHER                          -> None
    BY DEF Features
  <2>2. None # FALSE
    BY NoneAssumption
  <2> QED
    BY <2>1, <2>2 DEF Features
<1>3. Synthetic(c)
  BY CaseFacts
<1> HIDE DEF c, e
<1>4. ASSUME Label(c) = 1
      PROVE  /\ c.status = "open" /\ c.daysLeft > 0
             /\ \E d \in Extracted(c) :
                  /\ d.type = c.required /\ d.status = "EXTRACTED" /\ d.confidence >= 70
                  /\ d.type = "INVOICE" => d.amount = c.order
             /\ Features(c).coverage = 1 /\ Features(c).contradictions = 0 /\ Features(c).amountMatch # FALSE
             /\ Features(c).missing = 0 /\ Features(c).severe = 0
  <2>1. /\ c.status # "lost" /\ Failed(c) = {}
        /\ \A d \in Extracted(c) : ~(d.confidence < 70)
    BY <1>4, Unblocked
  <2>2. RequirementState(c) = "PRESENT" /\ InvoiceAmountMatch(c) # "FAIL"
    BY <2>1, FailedRules DEF RequiredEvidencePresent
  <2>3. c.documents # <<>>
    BY <2>2, NoDocument
  <2>4. PICK d : /\ c.documents = <<d>>
                 /\ d.type = c.required /\ d.status = "EXTRACTED"
                 /\ d.amount \in {3000, 5000} /\ d.confidence \in {60, 95}
    BY <1>3, <2>3 DEF Synthetic
  <2>5. d \in Extracted(c)
    BY <2>4 DEF Extracted
  <2>6. d.confidence >= 70
    BY <2>1, <2>4, <2>5
  <2>7. d.type = "INVOICE" => d.amount = c.order
    BY <1>3, <2>2, <2>4, OneInvoice DEF Synthetic
  <2>8. Cardinality(Failed(c)) = 0 /\ Cardinality({x \in Failed(c) : x.severity = "ERROR"}) = 0
    <3>1. {x \in Failed(c) : x.severity = "ERROR"} = {}
      BY <2>1
    <3> QED
      BY <2>1, <3>1, FS_EmptySet
  <2>9. c.status = "open" /\ c.daysLeft > 0
    BY <1>3, <2>1 DEF Synthetic
  <2>10. \E b \in Extracted(c) :
            /\ b.type = c.required /\ b.status = "EXTRACTED" /\ b.confidence >= 70
            /\ b.type = "INVOICE" => b.amount = c.order
    BY <2>4, <2>5, <2>6, <2>7
  <2> QED
    BY <1>2, <2>2, <2>8, <2>9, <2>10
<1>5. Label(c) \in {0, 1}
  BY DEF Label
<1>6. HardBlock(Features(c)) /\ Features(c).missing = 0 => Features(c).severe > 0
  BY <1>2, <1>3 DEF HardBlock, Synthetic
<1>7. Label(c) = 1 => ~HardBlock(Features(c))
  BY <1>4, <1>6
<1> QED
  BY <1>1, <1>4, <1>5, <1>7 DEF Justified, e

-----------------------------------------------------------------------------
(*                     The benchmark: the split                            *)

LEMMA LeastNumber ==
  ASSUME NEW T, T \subseteq Nat, T # {}
  PROVE  \E x \in T : \A y \in T : x <= y
<1>1. PICK x \in T : \A y \in T : ~(<<y, x>> \in OpToRel(<, Nat))
  BY Zenon, NatLessThanWellFounded, WFMin
<1>2. \A y \in T : ~(y < x)
  BY <1>1 DEF OpToRel
<1> QED
  BY <1>2

LEMMA SmallestSet ==
  ASSUME NEW S, IsFiniteSet(S), NEW T, T \subseteq SUBSET S, T # {}
  PROVE  \E s \in T : \A x \in s : s \ {x} \notin T
<1>1. T \subseteq FiniteSubsetsOf(S)
  BY FS_FiniteSubsetsOfFinite
<1>2. PICK s \in T : \A r \in T : ~(<<r, s>> \in StrictSubsetOrdering(S))
  BY Zenon, <1>1, FS_StrictSubsetOrderingWellFounded, WFMin
<1>3. ASSUME NEW x \in s, s \ {x} \in T
      PROVE  FALSE
  <2>1. <<s \ {x}, s>> \in StrictSubsetOrdering(S)
    BY DEF StrictSubsetOrdering
  <2> QED
    BY <1>2, <1>3, <2>1
<1> QED
  BY <1>3

\* A sum over a set, by recursion; f need follow it only up to n elements.
Turn(f, w, s) == IF s = {} THEN 0 ELSE LET x == CHOOSE x \in s : TRUE IN f[s \ {x}] + w[x]

IsSum(f, w, S) == f = [s \in SUBSET S |-> Turn(f, w, s)]

UpTo(f, w, S, n) == \A s \in SUBSET S : Cardinality(s) <= n => f[s] = Turn(f, w, s)

LEMMA SumExists ==
  ASSUME NEW S, IsFiniteSet(S), NEW w \in [S -> Nat]
  PROVE  \E f : IsSum(f, w, S)
<1>1. \A s \in SUBSET S : IsFiniteSet(s) /\ Cardinality(s) \in Nat /\ Cardinality(s) <= Cardinality(S)
  BY FS_Subset, FS_CardinalityType
<1>2. \A s \in SUBSET S : Cardinality(s) = 0 <=> s = {}
  BY <1>1, FS_EmptySet
<1>3. \A s \in SUBSET S : \A x \in s : Cardinality(s \ {x}) = Cardinality(s) - 1
  BY <1>1, FS_RemoveElement
<1> DEFINE T == {n \in Nat : ~\E f : UpTo(f, w, S, n)}
<1>4. T = {}
  <2>1. SUFFICES ASSUME T # {} PROVE FALSE
    OBVIOUS
  <2>2. PICK n \in T : \A m \in T : n <= m
    BY <2>1, LeastNumber
  <2>3. n \in Nat /\ ~\E f : UpTo(f, w, S, n)
    OBVIOUS
  <2>4. CASE n = 0
    <3> DEFINE f == [s \in SUBSET S |-> 0]
    <3>1. UpTo(f, w, S, 0)
      BY <1>1, <1>2 DEF UpTo, Turn
    <3> QED
      BY <2>3, <2>4, <3>1
  <2>5. CASE n # 0
    <3>1. n - 1 \in Nat /\ ~(n <= n - 1)
      BY <2>3, <2>5
    <3>2. PICK g : UpTo(g, w, S, n - 1)
      BY <2>2, <3>1
    <3> DEFINE f == [s \in SUBSET S |-> IF Cardinality(s) <= n - 1 THEN g[s] ELSE Turn(g, w, s)]
    <3>3. \A s \in SUBSET S : f[s] = Turn(g, w, s)
      BY <3>2 DEF UpTo
    <3>4. \A s \in SUBSET S : Cardinality(s) <= n - 1 => f[s] = g[s]
      OBVIOUS
    <3> HIDE DEF f
    <3>5. ASSUME NEW s \in SUBSET S, Cardinality(s) <= n
          PROVE  Turn(f, w, s) = Turn(g, w, s)
      <4>1. CASE s = {}
        BY <4>1 DEF Turn
      <4>2. CASE s # {}
        <5>1. PICK x \in s : x = CHOOSE y \in s : TRUE
          BY <4>2
        <5>2. s \ {x} \in SUBSET S /\ Cardinality(s \ {x}) <= n - 1
          BY <1>1, <1>3, <2>3, <3>5
        <5>3. f[s \ {x}] = g[s \ {x}]
          BY <3>4, <5>2
        <5> QED
          BY <4>2, <5>1, <5>3 DEF Turn
      <4> QED
        BY <4>1, <4>2
    <3>6. UpTo(f, w, S, n)
      BY <3>3, <3>5 DEF UpTo
    <3> QED
      BY <2>3, <3>6
  <2> QED
    BY <2>4, <2>5
<1>5. PICK f : UpTo(f, w, S, Cardinality(S))
  BY <1>1, <1>4
<1> DEFINE g == [s \in SUBSET S |-> f[s]]
<1>6. ASSUME NEW s \in SUBSET S
      PROVE  f[s] = Turn(f, w, s) /\ Turn(f, w, s) = Turn(g, w, s)
  <2>1. f[s] = Turn(f, w, s)
    BY <1>1, <1>5 DEF UpTo
  <2>2. CASE s = {}
    BY <2>2, <2>1 DEF Turn
  <2>3. CASE s # {}
    <3>1. PICK x \in s : x = CHOOSE y \in s : TRUE
      BY <2>3
    <3>2. g[s \ {x}] = f[s \ {x}]
      OBVIOUS
    <3> HIDE DEF g
    <3> QED
      BY <2>1, <2>3, <3>1, <3>2 DEF Turn
  <2> QED
    BY <2>2, <2>3
<1>7. IsSum(g, w, S)
  BY <1>6 DEF IsSum
<1> QED
  BY <1>7

\* How far the examples of ns are from the whole, over all strata.
Misfits(ns) ==
  FoldSet(LAMBDA x, sum :
      sum + Distance(Of(ns, x) * Len(examples), Of(DOMAIN examples, x) * Cardinality(ns)), 0, Strata)

\* The recursion that FoldSet is made of.
MisfitRec(f, ns) ==
  f = [s \in SUBSET Strata |->
         IF s = {} THEN 0
         ELSE LET x == CHOOSE x \in s : TRUE IN
              f[s \ {x}] + Distance(Of(ns, x) * Len(examples), Of(DOMAIN examples, x) * Cardinality(ns))]

Over(ns, s) == {n \in ns : <<examples[n].label, examples[n].reason>> \in s}

LEMMA OverSplits ==
  ASSUME NEW ns, IsFiniteSet(ns), NEW s, NEW x \in s
  PROVE  /\ Of(ns, x) \in Nat /\ Cardinality(Over(ns, s \ {x})) \in Nat
         /\ Cardinality(Over(ns, s)) = Cardinality(Over(ns, s \ {x})) + Of(ns, x)
<1> DEFINE one == {n \in ns : <<examples[n].label, examples[n].reason>> = x}
           rest == Over(ns, s \ {x})
<1>1. Over(ns, s) = rest \cup one /\ rest \cap one = {}
  BY DEF Over
<1>2. rest \subseteq ns /\ one \subseteq ns /\ Of(ns, x) = Cardinality(one)
  BY DEF Over, Of
<1> HIDE DEF one, rest
<1>3. IsFiniteSet(rest) /\ IsFiniteSet(one)
  BY <1>2, FS_Subset
<1>4. Cardinality(rest) \in Nat /\ Cardinality(one) \in Nat
  BY <1>3, FS_CardinalityType
<1>5. Cardinality(rest \cup one) = Cardinality(rest) + Cardinality(one) - Cardinality(rest \cap one)
  BY <1>3, FS_Union
<1>6. Cardinality(rest \cap one) = 0
  BY <1>1, FS_EmptySet
<1> QED
  BY <1>1, <1>2, <1>4, <1>5, <1>6 DEF rest

LEMMA DistanceBounded ==
  ASSUME NEW a \in Nat, NEW b \in Nat, NEW j \in Nat, NEW k \in Nat
  PROVE  Distance(a * k, b * j) \in Nat /\ Distance(a * k, b * j) <= k * a + j * b
<1>1. a * k \in Nat /\ b * j \in Nat /\ a * k = k * a /\ b * j = j * b
  OBVIOUS
<1>2. \A m, n \in Nat : Distance(m, n) \in Nat /\ Distance(m, n) <= m + n
  BY DEF Distance
<1> QED
  BY <1>1, <1>2

LEMMA Spread ==
  ASSUME NEW k \in Nat, NEW j \in Nat, NEW p \in Nat, NEW q \in Nat, NEW a \in Nat, NEW b \in Nat
  PROVE  (k * p + j * q) + (k * a + j * b) = k * (p + a) + j * (q + b)
<1>1. k * (p + a) = k * p + k * a /\ j * (q + b) = j * q + j * b
  OBVIOUS
<1>2. k * p \in Nat /\ k * a \in Nat /\ j * q \in Nat /\ j * b \in Nat
  OBVIOUS
<1> QED
  BY <1>1, <1>2

\* Examples of the dataset.
LEMMA MisfitsBounded ==
  ASSUME IsFiniteSet(DOMAIN examples), Len(examples) \in Nat, Cardinality(DOMAIN examples) = Len(examples),
         IsFiniteSet(Strata), NEW ns \in SUBSET DOMAIN examples
  PROVE  Misfits(ns) \in Nat /\ Misfits(ns) <= 2 * (Len(examples) * Cardinality(ns))
<1>1. PICK D, N, J : D = DOMAIN examples /\ N = Len(examples) /\ J = Cardinality(ns)
  OBVIOUS
<1>2. IsFiniteSet(D) /\ IsFiniteSet(ns) /\ N \in Nat /\ J \in Nat /\ Cardinality(D) = N
  BY <1>1, FS_Subset, FS_CardinalityType
<1> DEFINE w == [x \in Strata |-> Distance(Of(ns, x) * N, Of(D, x) * J)]
           g == CHOOSE f : MisfitRec(f, ns)
<1>3. ASSUME NEW x
      PROVE  Of(ns, x) \in Nat /\ Of(D, x) \in Nat
  BY <1>2, OverSplits
<1>4. w \in [Strata -> Nat]
  BY <1>2, <1>3, DistanceBounded
<1>5. \A x \in Strata : w[x] = Distance(Of(ns, x) * N, Of(D, x) * J)
  OBVIOUS
<1> HIDE DEF w
<1>6. ASSUME NEW f
      PROVE  MisfitRec(f, ns) <=> IsSum(f, w, Strata)
  <2>1. ASSUME NEW s \in SUBSET Strata
        PROVE  Turn(f, w, s) = IF s = {} THEN 0
                 ELSE LET x == CHOOSE x \in s : TRUE IN
                      f[s \ {x}] + Distance(Of(ns, x) * Len(examples), Of(DOMAIN examples, x) * Cardinality(ns))
    <3>1. CASE s = {}
      BY <3>1 DEF Turn
    <3>2. CASE s # {}
      <4>1. PICK x \in s : x = CHOOSE y \in s : TRUE
        BY <3>2
      <4>2. w[x] = Distance(Of(ns, x) * Len(examples), Of(DOMAIN examples, x) * Cardinality(ns))
        BY <1>1, <1>5
      <4> QED
        BY <3>2, <4>1, <4>2, Zenon DEF Turn
    <3> QED
      BY <3>1, <3>2
  <2> QED
    BY <2>1, Zenon DEF MisfitRec, IsSum
<1>7. \E f : MisfitRec(f, ns)
  <2>1. PICK f : IsSum(f, w, Strata)
    BY <1>4, SumExists
  <2> QED
    BY <1>6, <2>1
<1>8. MisfitRec(g, ns)
  BY <1>7
<1>9. Misfits(ns) = g[Strata]
  BY Zenon DEF Misfits, FoldSet, MapThenFoldSet, MisfitRec
<1> HIDE DEF g
<1>10. \A s \in SUBSET Strata : g[s] = Turn(g, w, s)
  BY <1>6, <1>8, Zenon DEF IsSum
<1> DEFINE Bounded(s) == g[s] \in Nat /\ g[s] <= N * Cardinality(Over(ns, s)) + J * Cardinality(Over(D, s))
           T == {s \in SUBSET Strata : ~Bounded(s)}
<1>11. T = {}
  <2>1. SUFFICES ASSUME T # {} PROVE FALSE
    OBVIOUS
  <2>2. PICK s \in T : \A x \in s : s \ {x} \notin T
    BY <2>1, SmallestSet
  <2>3. s \in SUBSET Strata /\ ~Bounded(s) /\ \A x \in s : Bounded(s \ {x})
    BY <2>2
  <2>4. g[s] = Turn(g, w, s)
    BY <1>10, <2>3
  <2>5. CASE s = {}
    <3>1. Over(ns, s) = {} /\ Over(D, s) = {} /\ g[s] = 0
      BY <2>4, <2>5 DEF Over, Turn
    <3> QED
      BY <1>2, <2>3, <3>1, FS_EmptySet
  <2>6. CASE s # {}
    <3>1. PICK x \in s : x = CHOOSE y \in s : TRUE
      BY <2>6
    <3>2. PICK p, q, a, b : /\ p = Cardinality(Over(ns, s \ {x})) /\ q = Cardinality(Over(D, s \ {x}))
                            /\ a = Of(ns, x) /\ b = Of(D, x)
      OBVIOUS
    <3>3. /\ p \in Nat /\ q \in Nat /\ a \in Nat /\ b \in Nat
          /\ Cardinality(Over(ns, s)) = p + a /\ Cardinality(Over(D, s)) = q + b
      BY <1>2, <3>2, OverSplits
    <3>4. g[s] = g[s \ {x}] + w[x]
      BY <2>4, <2>6, <3>1 DEF Turn
    <3>5. w[x] = Distance(a * N, b * J)
      BY <1>5, <2>3, <3>2
    <3>6. w[x] \in Nat /\ w[x] <= N * a + J * b
      BY <1>2, <3>3, <3>5, DistanceBounded
    <3>7. g[s \ {x}] \in Nat /\ g[s \ {x}] <= N * p + J * q
      BY <2>3, <3>2
    <3>8. (N * p + J * q) + (N * a + J * b) = N * (p + a) + J * (q + b)
      BY <1>2, <3>3, Spread
    <3>9. ASSUME NEW u \in Nat, NEW v \in Nat, NEW y \in Nat, NEW z \in Nat, u <= y, v <= z
          PROVE  u + v \in Nat /\ u + v <= y + z
      BY <3>9
    <3>10. N * p + J * q \in Nat /\ N * a + J * b \in Nat
      BY <1>2, <3>3
    <3>11. g[s] \in Nat /\ g[s] <= (N * p + J * q) + (N * a + J * b)
      BY <3>4, <3>6, <3>7, <3>9, <3>10
    <3>12. Bounded(s)
      BY <3>3, <3>8, <3>11
    <3> QED
      BY <2>3, <3>12
  <2> QED
    BY <2>5, <2>6
<1>12. Bounded(Strata)
  BY <1>11
<1>13. Over(ns, Strata) = ns /\ Over(D, Strata) = D
  BY <1>1 DEF Over, Strata
<1>14. N * J \in Nat /\ J * N = N * J
  BY <1>2
<1> QED
  BY <1>1, <1>2, <1>9, <1>12, <1>13, <1>14

\* What a product is compared by.
LEMMA Product ==
  ASSUME NEW p \in Nat, p > 0, NEW x \in Int, NEW y \in Int, p * x <= p * y
  PROVE  x <= y
<1>1. SUFFICES ASSUME x >= y + 1 PROVE FALSE
  OBVIOUS
<1>2. p * x >= p * (y + 1)
  BY <1>1
<1>3. p * (y + 1) = p * y + p
  OBVIOUS
<1>4. p * x \in Int /\ p * y \in Int
  OBVIOUS
<1> QED
  BY <1>2, <1>3, <1>4

\* A split other than training, with a examples, that costs no more than
\* training, which would have b of k examples.
LEMMA CheaperBounds ==
  ASSUME NEW a \in Nat, a > 0, NEW b \in Nat, b > 0, NEW k \in Nat, NEW v \in Nat, NEW m \in Nat,
         m <= 2 * (k * b),
         (1000 * a * a + 15 * v) * (70 * b) <= (1000 * b * b + 70 * m) * (15 * a)
  PROVE  700 * a <= 150 * b + 21 * k
<1>1. PICK ab \in Nat, bb \in Nat, kb \in Nat : ab = a * b /\ bb = b * b /\ kb = k * b
  OBVIOUS
<1>2. (1000 * a * a + 15 * v) * (70 * b) = 70000 * (a * ab) + 1050 * (v * b)
  BY <1>1
<1>3. (1000 * b * b + 70 * m) * (15 * a) = a * (15000 * bb + 1050 * m)
  BY <1>1
<1>4. v * b \in Nat /\ a * ab \in Nat
  BY <1>1
<1>5. 70000 * (a * ab) = a * (70000 * ab)
  BY <1>1
<1>6. a * (15000 * bb + 1050 * m) \in Nat
  BY <1>1
<1>7. a * (70000 * ab) <= a * (15000 * bb + 1050 * m)
  BY <1>2, <1>3, <1>4, <1>5, <1>6
<1>8. 70000 * ab \in Int /\ 15000 * bb + 1050 * m \in Int
  BY <1>1
<1>9. 70000 * ab <= 15000 * bb + 1050 * m
  BY <1>7, <1>8, Product
<1>10. 70000 * ab <= 15000 * bb + 2100 * kb
  BY <1>1, <1>9
<1>11. 70000 * ab = b * (70000 * a) /\ 15000 * bb + 2100 * kb = b * (15000 * b + 2100 * k)
  BY <1>1
<1>12. 70000 * a <= 15000 * b + 2100 * k
  BY <1>10, <1>11, Product
<1> QED
  BY <1>12

-----------------------------------------------------------------------------
(*                    The benchmark: its invariant                         *)

\* What can be generated.
Examples == {ExampleOf(s, r, g) : s \in Scenarios, r \in Reasons, g \in Groups}

Undecided == \A g \in Groups : splitOf[g] = Undealt

\* No customer has more than half of the examples.
Even == \A g \in Groups : 2 * Cardinality(In({g})) <= Len(examples)

\* How far a split may have grown beyond training.
Within(s) ==
  700 * Cardinality(In(Members(s))) <= 150 * Cardinality(In(Members("train"))) + 96 * Len(examples)

BInv ==
  /\ examples \in Seq(Examples)
  /\ splitOf \in [Groups -> Splits \cup {Undealt}]
  /\ Undecided \/ Len(examples) = Size
  /\ Even => \A s \in Splits \ {"train"} : Within(s)

LEMMA BInvInit == BenchmarkInit => BInv
<1> SUFFICES ASSUME BenchmarkInit PROVE BInv
  OBVIOUS
<1>1. examples = <<>> /\ examples \in Seq(Examples) /\ DOMAIN examples = {} /\ Len(examples) = 0
  BY DEF BenchmarkInit
<1>2. splitOf \in [Groups -> Splits \cup {Undealt}] /\ Undecided
  BY DEF BenchmarkInit, Undecided
<1>3. \A gs : Cardinality(In(gs)) = 0
  BY <1>1, FS_EmptySet DEF In
<1> QED
  BY <1>1, <1>2, <1>3 DEF BInv, Within

\* Sizes are numbers.
LEMMA DatasetIsFinite ==
  ASSUME examples \in Seq(Examples)
  PROVE  /\ Len(examples) \in Nat /\ DOMAIN examples = 1..Len(examples)
         /\ IsFiniteSet(DOMAIN examples) /\ Cardinality(DOMAIN examples) = Len(examples)
         /\ IsFiniteSet(Strata)
         /\ \A gs : IsFiniteSet(In(gs)) /\ Cardinality(In(gs)) \in Nat
<1>1. Len(examples) \in Nat /\ DOMAIN examples = 1..Len(examples)
  OBVIOUS
<1>2. IsFiniteSet(DOMAIN examples) /\ Cardinality(DOMAIN examples) = Len(examples)
  BY <1>1, FS_Interval
<1> DEFINE D == DOMAIN examples
           f == [n \in D |-> <<examples[n].label, examples[n].reason>>]
<1>3. f \in Surjection(D, Strata)
  BY DEF Surjection, Strata
<1>4. IsFiniteSet(Strata)
  BY <1>2, <1>3, FS_Surjection
<1>5. \A gs : In(gs) \subseteq DOMAIN examples
  BY DEF In
<1>6. \A gs : IsFiniteSet(In(gs)) /\ Cardinality(In(gs)) \in Nat
  BY <1>2, <1>5, FS_Subset, FS_CardinalityType
<1> QED
  BY <1>1, <1>2, <1>4, <1>6

LEMMA GeneratePreserves ==
  ASSUME BInv, NEW s \in Scenarios, NEW r \in Reasons, NEW g \in Groups, Generate(s, r, g)
  PROVE  BInv'
<1> DEFINE e == ExampleOf(s, r, g)
<1>1. e \in Examples
  BY DEF Examples
<1>2. examples' = Append(examples, e) /\ Len(examples) < Size /\ splitOf' = splitOf
  BY DEF Generate
<1> HIDE DEF e
<1>3. examples \in Seq(Examples) /\ examples' \in Seq(Examples) /\ Len(examples') \in Nat
  BY <1>1, <1>2 DEF BInv
<1>4. Len(examples) \in Nat /\ Len(examples) # Size
  BY <1>2, <1>3
<1>5. Undecided
  BY <1>4 DEF BInv
<1>6. Undecided'
  BY <1>2, <1>5 DEF Undecided
<1>7. ASSUME NEW t \in Splits
      PROVE  Cardinality(In(Members(t))') = 0
  <2>1. In(Members(t))' = {}
    BY <1>2, <1>5 DEF In, Members, Undecided, Undealt, Splits
  <2> QED
    BY <2>1, FS_EmptySet
<1>8. \A t \in Splits : Within(t)'
  BY <1>3, <1>7 DEF Within, Splits
<1>9. splitOf' \in [Groups -> Splits \cup {Undealt}]
  BY <1>2 DEF BInv
<1> QED
  BY <1>3, <1>6, <1>8, <1>9 DEF BInv

\* A turn of the split: a customer of the dataset joins a split that costs no
\* more than the others.
LEMMA DealPreserves ==
  ASSUME BInv, NEW g \in Groups, NEW s \in Splits, Deal(g, s)
  PROVE  BInv'
<1>1. /\ examples' = examples /\ Len(examples) = Size
      /\ splitOf[g] = Undealt /\ In({g}) # {}
      /\ splitOf' = [splitOf EXCEPT ![g] = s]
      /\ Cheaper(g, s, "train")
  BY DEF Deal, Splits
<1>2. examples \in Seq(Examples) /\ splitOf \in [Groups -> Splits \cup {Undealt}]
  BY DEF BInv
<1>3. splitOf' \in [Groups -> Splits \cup {Undealt}]
  BY <1>1, <1>2
<1>4. /\ Len(examples) \in Nat /\ IsFiniteSet(DOMAIN examples) /\ Cardinality(DOMAIN examples) = Len(examples)
      /\ IsFiniteSet(Strata)
      /\ \A gs : IsFiniteSet(In(gs)) /\ Cardinality(In(gs)) \in Nat
  BY <1>2, DatasetIsFinite
<1>5. \A t \in Splits : Members(t)' = IF t = s THEN Members(t) \cup {g} ELSE Members(t)
  BY <1>1, <1>2 DEF Members, Splits, Undealt
<1>6. \A t \in Splits : In(Members(t))' = IF t = s THEN Joined(g, t) ELSE In(Members(t))
  BY <1>1, <1>5 DEF In, Joined
<1>7. \A t \in Splits : /\ Joined(g, t) = In(Members(t)) \cup In({g})
                        /\ IsFiniteSet(Joined(g, t))
                        /\ Cardinality(Joined(g, t)) \in Nat
                        /\ Cardinality(Joined(g, t)) <= Cardinality(In(Members(t))) + Cardinality(In({g}))
                        /\ Cardinality(In(Members(t))) <= Cardinality(Joined(g, t))
                        /\ Cardinality(Joined(g, t)) > 0
                        /\ Joined(g, t) \subseteq DOMAIN examples
  <2> TAKE t \in Splits
  <2>1. Joined(g, t) = In(Members(t)) \cup In({g}) /\ Joined(g, t) \subseteq DOMAIN examples
    BY DEF Joined, In
  <2>2. IsFiniteSet(In(Members(t))) /\ IsFiniteSet(In({g}))
    BY <1>4
  <2>3. /\ IsFiniteSet(In(Members(t)) \cup In({g}))
        /\ Cardinality(In(Members(t)) \cup In({g}))
             = Cardinality(In(Members(t))) + Cardinality(In({g})) - Cardinality(In(Members(t)) \cap In({g}))
    BY <2>2, FS_Union
  <2>4. IsFiniteSet(In(Members(t)) \cap In({g}))
    BY <2>2, FS_Subset
  <2>5. Cardinality(In(Members(t)) \cap In({g})) \in Nat /\ Cardinality(Joined(g, t)) \in Nat
    BY <2>1, <2>3, <2>4, FS_CardinalityType
  <2>6. Cardinality(In(Members(t))) <= Cardinality(Joined(g, t))
    BY <2>1, <2>3, FS_Subset
  <2>7. Cardinality(Joined(g, t)) # 0
    BY <1>1, <2>1, <2>3, FS_EmptySet
  <2>8. PICK a, m, h, i : /\ a = Cardinality(Joined(g, t)) /\ m = Cardinality(In(Members(t)))
                          /\ h = Cardinality(In({g})) /\ i = Cardinality(In(Members(t)) \cap In({g}))
    OBVIOUS
  <2>9. a \in Nat /\ m \in Nat /\ h \in Nat /\ i \in Nat /\ a = m + h - i /\ a # 0
    BY <1>4, <2>1, <2>3, <2>5, <2>7, <2>8
  <2>10. a <= m + h /\ a > 0
    BY <2>9
  <2> QED
    BY <2>1, <2>3, <2>5, <2>6, <2>8, <2>10
<1>8. ASSUME Even', NEW t \in Splits \ {"train"}
      PROVE  Within(t)'
  <2>1. Even
    BY <1>1, <1>8 DEF Even, In
  <2>2. Within(t)
    BY <1>8, <2>1 DEF BInv
  <2>3. PICK n, m, k, h, a, b : /\ n = Cardinality(In(Members(t))) /\ m = Cardinality(In(Members("train")))
                                /\ k = Len(examples) /\ h = Cardinality(In({g}))
                                /\ a = Cardinality(Joined(g, t)) /\ b = Cardinality(Joined(g, "train"))
    OBVIOUS
  <2>4. /\ n \in Nat /\ m \in Nat /\ k \in Nat /\ h \in Nat /\ a \in Nat /\ b \in Nat
        /\ a > 0 /\ b > 0 /\ b <= m + h /\ m <= b /\ 2 * h <= k /\ "train" \in Splits
    BY <1>4, <1>7, <2>1, <2>3 DEF Even, Splits
  <2>5. 700 * n <= 150 * m + 96 * k
    BY <2>2, <2>3 DEF Within
  <2>6. CASE t = s
    <3>1. PICK v, u : v = Misfits(Joined(g, t)) /\ u = Misfits(Joined(g, "train"))
      OBVIOUS
    <3>2. v \in Nat /\ u \in Nat /\ u <= 2 * (k * b)
      BY <1>4, <1>7, <2>3, <2>4, <3>1, MisfitsBounded
    <3>3. Penalty(g, t) = 1000 * a * a + 15 * v /\ Weight(g, t) = 15 * a
      <4>1. Share[t] = 15
        BY DEF Share
      <4>2. Penalty(g, t) = 1000 * Cardinality(Joined(g, t)) * Cardinality(Joined(g, t))
                            + Share[t] * Misfits(Joined(g, t))
        BY Zenon DEF Penalty, Misfits
      <4> QED
        BY <2>3, <3>1, <4>1, <4>2 DEF Weight
    <3>4. Penalty(g, "train") = 1000 * b * b + 70 * u /\ Weight(g, "train") = 70 * b
      <4>1. Share["train"] = 70
        BY <2>4 DEF Share
      <4>2. Penalty(g, "train") = 1000 * Cardinality(Joined(g, "train")) * Cardinality(Joined(g, "train"))
                            + Share["train"] * Misfits(Joined(g, "train"))
        BY Zenon DEF Penalty, Misfits
      <4> QED
        BY <2>3, <3>1, <4>1, <4>2 DEF Weight
    <3>5. (1000 * a * a + 15 * v) * (70 * b) <= (1000 * b * b + 70 * u) * (15 * a)
      BY <1>1, <2>6, <3>3, <3>4 DEF Cheaper
    <3>6. 700 * a <= 150 * b + 21 * k
      BY <2>4, <3>2, <3>5, CheaperBounds
    <3>7. 700 * a <= 150 * m + 96 * k
      BY <2>4, <3>6
    <3>8. In(Members(t))' = Joined(g, t) /\ In(Members("train"))' = In(Members("train"))
      BY <1>6, <1>8, <2>4, <2>6
    <3> QED
      BY <1>1, <2>3, <3>7, <3>8 DEF Within
  <2>7. CASE t # s
    <3>1. In(Members(t))' = In(Members(t))
      BY <1>6, <2>7
    <3>2. In(Members("train"))' \in {In(Members("train")), Joined(g, "train")}
      BY <1>6, <2>4
    <3>3. PICK z : z = Cardinality(In(Members("train"))')
      OBVIOUS
    <3>4. z \in Nat /\ m <= z
      BY <2>3, <2>4, <3>2, <3>3
    <3>5. 700 * n <= 150 * z + 96 * k
      BY <2>4, <2>5, <3>4
    <3> QED
      BY <1>1, <2>3, <3>1, <3>3, <3>5 DEF Within
  <2> QED
    BY <2>6, <2>7
<1> QED
  BY <1>1, <1>2, <1>3, <1>8 DEF BInv

LEMMA BenchmarkStutters == BInv /\ UNCHANGED benchmarkVars => BInv'
BY DEF BInv, benchmarkVars, Undecided, Even, Within, In, Members

LEMMA BenchmarkPreserves == BInv /\ [Next]_vars => BInv'
<1> SUFFICES ASSUME BInv, [Next]_vars PROVE BInv'
  OBVIOUS
<1>1. CASE BenchmarkStep
  BY <1>1, GeneratePreserves, DealPreserves DEF BenchmarkStep
<1>2. CASE UNCHANGED benchmarkVars
  BY <1>2, BenchmarkStutters
<1> QED
  BY <1>1, <1>2 DEF Next, vars

\* With every group dealt and none over half, no split is larger than training.
LEMMA TrainingIsLargest ==
  ASSUME BInv, SplitDone, Even, NEW s \in Splits
  PROVE  Cardinality(In(Members(s))) <= Cardinality(In(Members("train")))
<1> DEFINE A == In(Members("train"))
           B == In(Members("validation"))
           C == In(Members("test_holdout"))
<1>1. examples \in Seq(Examples) /\ splitOf \in [Groups -> Splits \cup {Undealt}]
  BY DEF BInv
<1>2. /\ Len(examples) \in Nat /\ DOMAIN examples = 1..Len(examples)
      /\ IsFiniteSet(DOMAIN examples) /\ Cardinality(DOMAIN examples) = Len(examples)
      /\ \A gs : IsFiniteSet(In(gs)) /\ Cardinality(In(gs)) \in Nat
  BY <1>1, DatasetIsFinite
<1>3. DOMAIN examples \subseteq (A \cup B) \cup C
  <2> SUFFICES ASSUME NEW n \in DOMAIN examples PROVE n \in (A \cup B) \cup C
    OBVIOUS
  <2>1. examples[n] \in Examples
    BY <1>1
  <2>2. examples[n].group \in Groups
    BY <2>1 DEF Examples, ExampleOf
  <2>3. splitOf[examples[n].group] \in Splits
    BY <1>1, <2>2 DEF SplitDone, In
  <2> QED
    BY <2>2, <2>3 DEF In, Members, Splits
<1>4. PICK a, b, c, k : a = Cardinality(A) /\ b = Cardinality(B) /\ c = Cardinality(C) /\ k = Len(examples)
  OBVIOUS
<1>5. a \in Nat /\ b \in Nat /\ c \in Nat /\ k \in Nat
  BY <1>2, <1>4
<1>6. IsFiniteSet(A) /\ IsFiniteSet(B) /\ IsFiniteSet(C)
  BY <1>2
<1>7. 700 * b <= 150 * a + 96 * k /\ 700 * c <= 150 * a + 96 * k
  BY <1>4 DEF BInv, Within, Splits
<1>8. s = "train" => Cardinality(In(Members(s))) = a
  BY <1>4
<1>9. s = "validation" => Cardinality(In(Members(s))) = b
  BY <1>4
<1>10. s = "test_holdout" => Cardinality(In(Members(s))) = c
  BY <1>4
<1> HIDE DEF A, B, C
<1>11. k <= a + b + c
  <2>1. ASSUME NEW S, NEW T, IsFiniteSet(S), IsFiniteSet(T)
        PROVE  /\ IsFiniteSet(S \cup T)
               /\ Cardinality(S \cup T) \in Nat /\ Cardinality(S) \in Nat /\ Cardinality(T) \in Nat
               /\ Cardinality(S \cup T) <= Cardinality(S) + Cardinality(T)
    <3>1. /\ IsFiniteSet(S \cup T)
          /\ Cardinality(S \cup T) = Cardinality(S) + Cardinality(T) - Cardinality(S \cap T)
      BY <2>1, FS_Union
    <3>2. IsFiniteSet(S \cap T)
      BY <2>1, FS_Subset
    <3> QED
      BY <2>1, <3>1, <3>2, FS_CardinalityType
  <2>2. IsFiniteSet(A \cup B) /\ Cardinality(A \cup B) \in Nat /\ Cardinality(A \cup B) <= a + b
    BY <1>4, <1>6, <2>1
  <2>3. /\ IsFiniteSet((A \cup B) \cup C) /\ Cardinality((A \cup B) \cup C) \in Nat
        /\ Cardinality((A \cup B) \cup C) <= Cardinality(A \cup B) + c
    BY <1>4, <1>6, <2>1, <2>2
  <2>4. k <= Cardinality((A \cup B) \cup C)
    BY <1>2, <1>3, <1>4, <2>3, FS_Subset
  <2> QED
    BY <1>5, <2>2, <2>3, <2>4
<1>12. b <= a /\ c <= a
  BY <1>5, <1>7, <1>11
<1>13. s \in {"train", "validation", "test_holdout"}
  BY DEF Splits
<1>14. Cardinality(In(Members("train"))) = a
  BY <1>4 DEF A
<1> QED
  BY <1>5, <1>8, <1>9, <1>10, <1>12, <1>13, <1>14

\* However many customers and examples there are, a dataset is fit to learn
\* from: its labels say what its documents do, and no split outgrows training.
THEOREM DatasetSound == Spec => []DatasetIsSound
<1>1. BInv => DatasetIsSound
  <2> SUFFICES ASSUME BInv PROVE DatasetIsSound
    OBVIOUS
  <2>1. ASSUME NEW n \in DOMAIN examples
        PROVE  Justified(examples[n])
    <3>1. examples \in Seq(Examples)
      BY DEF BInv
    <3>2. examples[n] \in Examples
      BY <3>1
    <3>3. PICK s \in Scenarios, r \in Reasons, g \in Groups : examples[n] = ExampleOf(s, r, g)
      BY <3>2 DEF Examples
    <3>4. Justified(ExampleOf(s, r, g))
      BY ExampleIsJustified
    <3> QED
      BY <3>3, <3>4
  <2>2. ASSUME SplitDone, \A g \in Groups : 2 * Cardinality(In({g})) <= Size, NEW s \in Splits
        PROVE  Cardinality(In(Members(s))) <= Cardinality(In(Members("train")))
    <3>1. Even
      BY <2>2 DEF Even, SplitDone
    <3> QED
      BY <2>2, <3>1, TrainingIsLargest
  <2> QED
    BY <2>1, <2>2 DEF DatasetIsSound
<1>2. Init => BInv
  BY BInvInit DEF Init
<1> QED
  BY <1>1, <1>2, BenchmarkPreserves, PTL DEF Spec

=============================================================================
