\* A benchmark, its split, promotions and rollbacks, predictions, outcomes, labels.
SPECIFICATION MCSpec
CONSTANTS
  won = won
  closed = closed
  created = created
  None = None
  Groups = {1, 2, 3, 4}
  Size = 6
  Models = {1, 2}
  MaxRuns = 3
  MaxRows = 3
  Configs = {1, 2}
  Costs = {1, 2}
  Scorers = {11, 12}
  Local = {11}
  MaxScored = 2
  Deliveries <- MCDeliveries
  EventOf <- MCEventOf
  Handled = {won, closed}
  Curations = {21, 22}
  MaxSubmissions = 2
INVARIANTS RegistryIsSound FeedbackIsSound DatasetIsSound
CHECK_DEADLOCK FALSE
