\* A submitted package goes back to APPROVED when the writer runs again.
SPECIFICATION Spec
CONSTANTS
  Packages = {p1}
  Documents = {d1}
  Workers = {w1}
  MortalWorkers = {}
  MaxAttempts = 1
  MaxClock = 0
  NULL = NULL
PROPERTIES SubmittedIsTerminal
