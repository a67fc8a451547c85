\* Two events of a dispute, the older one delivered twice, and an enrichment
\* triggered by hand: two cases at most, three enrichments.
SPECIFICATION MCSpec
CONSTANTS
  first = first
  again = again
  newer = newer
  manual = manual
  e1 = e1
  e2 = e2
  Cases = {c1, c2}
  Deliveries <- MCDeliveries
  Events = {e1, e2}
  EventOf <- MCEventOf
  EventTime <- MCEventTime
  EventStatus <- MCEventStatus
  Tasks <- MCTasks
  Kinds = {"payment", "order", "shipment", "refund", "customer"}
  Sources <- MCSources
  MaxRetries = 1
INVARIANTS TypeOK EventHasEffectOnce EnrichmentIsWhole FlagsAreTrue
PROPERTIES NewerEventStands EnrichmentEnds
CHECK_DEADLOCK FALSE
