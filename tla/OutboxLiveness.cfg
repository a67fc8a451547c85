\* Liveness of the outbox dispatch: w1 survives, w2 may die at any point.
SPECIFICATION FairSpec
CONSTANTS
  Packages = {p1}
  Documents = {d1}
  Workers = {w1, w2}
  MortalWorkers = {w2}
  MaxAttempts = 2
  MaxClock = 1
  NULL = NULL
PROPERTIES HeldRowSettles
