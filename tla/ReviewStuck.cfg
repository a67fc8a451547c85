\* A request is turned away as DONE although the case has an item to review.
SPECIFICATION Spec
CONSTANTS
  Items = {i1, i2}
  Approvers = {u1}
  HighAmount = FALSE
INVARIANTS ActionableItemIsFound
