\* Safety of the outbox dispatch and its promise: three attempts with their
\* backoffs, two workers that may both die.
SPECIFICATION Spec
CONSTANTS
  Packages = {p1}
  Documents = {d1}
  Workers = {w1, w2}
  MortalWorkers = {w1, w2}
  MaxAttempts = 3
  MaxClock = 3
  NULL = NULL
INVARIANTS TypeOK AtMostOnceApplied RecordsAreReal EvidenceBeforeContest AttemptLedger
PROPERTIES KeepsPromise
