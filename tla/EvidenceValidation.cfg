\* Two versions of the evidence of a case: the message of the first comes twice
\* and its workers may be killed, the second comes once and its worker lives.
SPECIFICATION FairSpec
CONSTANTS
  Runs = {r1, r2}
  Duplicated = {r1}
  Mortal = {r1}
  MaxRetries = 1
INVARIANTS TypeOK OneSnapshotPerRun RunningHasTask
PROPERTIES ValidationEnds
CHECK_DEADLOCK FALSE
