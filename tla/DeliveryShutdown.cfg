SPECIFICATION Spec
CONSTANTS
  p1 = p1
  Events <- MCEvents
  Relays = {p1}
  Consumers = {p1}
  BatchSize = 2
  MaxFaults = 1
CHECK_DEADLOCK FALSE
INVARIANT CommittedIsHandled
