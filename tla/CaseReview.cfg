\* The review of a case of a low amount, where only the hard block asks for
\* two approvers: two items, two approvers, every verdict.
SPECIFICATION Spec
CONSTANTS
  Items = {i1, i2}
  Approvers = {u1, u2}
  HighAmount = FALSE
INVARIANTS TypeOK PendingIsFirstApproval SubmitIsApproved
PROPERTIES SubmitStands KeepsFourEyes
SYMMETRY Renamings
