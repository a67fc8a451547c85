------------------------------ MODULE Learning ------------------------------
(***************************************************************************)
(* The loop the product learns in: a benchmark is generated and split,     *)
(* models are trained on it, one of them scores a case, the case is        *)
(* contested and its outcome comes back as a label.                        *)
(***************************************************************************)
EXTENDS Benchmark, ModelRegistry

CONSTANTS Deliveries, EventOf, Handled, Curations, MaxSubmissions   \* as in OutcomeFeedback

VARIABLES known, submissions, delivery, outcomes, curation, labels

feedbackVars == <<known, submissions, delivery, outcomes, curation, labels>>

Feedback == INSTANCE OutcomeFeedback WITH scored <- Len(predictions)

vars == <<benchmarkVars, registryVars, feedbackVars>>

Init == BenchmarkInit /\ RegistryInit /\ Feedback!FeedbackInit

FeedbackIsSound == Feedback!FeedbackIsSound

\* The scripts read the files the split left.
Next ==
  \/ BenchmarkStep /\ UNCHANGED <<registryVars, feedbackVars>>
  \/ SplitDone /\ PipelineStep /\ UNCHANGED <<benchmarkVars, feedbackVars>>
  \/ (OperatorStep \/ ScorerStep) /\ UNCHANGED <<benchmarkVars, feedbackVars>>
  \/ UNCHANGED <<benchmarkVars, registryVars>> /\ Feedback!FeedbackStep

Spec == Init /\ [][Next]_vars
=============================================================================
