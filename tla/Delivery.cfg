SPECIFICATION FairSpec
CONSTANTS
  p1 = p1
  p2 = p2
  Events <- MCEvents
  Relays = {p1, p2}
  Consumers = {p1, p2}
  BatchSize = 2
  MaxFaults = 1
CHECK_DEADLOCK FALSE
INVARIANTS
  CopiesCostFaults
  OnlyAbandonedAreSkipped
PROPERTIES
  ImplementsOutbox
  EveryTaskIsAnswered
