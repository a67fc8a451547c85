\* Two versions of the evidence of a case, validated and scored side by side,
\* with one retry of either task.
SPECIFICATION ScoringSpec
CONSTANTS
  Runs = {r1, r2}
  Duplicated = {}
  Mortal = {}
  MaxRetries = 1
  MaxScoreRetries = 1
INVARIANTS ScoringTypeOK OneItemPerSnapshot NewestIsQueued ScoredIsQueued
PROPERTIES FeedsReview
CHECK_DEADLOCK FALSE
