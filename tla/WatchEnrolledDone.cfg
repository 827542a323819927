SPECIFICATION Spec
CONSTANTS
  Users = {u1}
  Assignments = {a1}
  Sessions = {s1, s2}
  Requests = {r1, r2}
  ToleranceNum = 3
  ToleranceDen = 2
  Interval = 2
  Slack = 1
  ThresholdNum = 2
  ThresholdDen = 3
  CeilExcess = 0
  Retention = 1
  Duration = 2
  MaxPosition = 2
  MaxSeq = 2
  MaxClock = 3
SYMMETRY WatchSymmetry
INVARIANTS
  CompletedIsDated
\* A failed video takes no more heartbeats, and the system may stop with it.
CHECK_DEADLOCK FALSE
