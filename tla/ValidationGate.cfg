\* Two runs pass the gate together and both claim the case.
SPECIFICATION Spec
CONSTANTS
  Runs = {r1, r2}
  Duplicated = {}
  Mortal = {}
  MaxRetries = 0
PROPERTIES EligibilityGate
CHECK_DEADLOCK FALSE
