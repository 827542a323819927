SPECIFICATION Spec
CONSTANTS
  k1 = k1
  k2 = k2
  k3 = k3
  k4 = k4
  c1 = c1
  c2 = c2
  c3 = c3
  Ids = {k1, k2, k3, k4}
  Clients = {c1, c2, c3}
  Duration = 4
  Limit = 1
  ThresholdPct = 50
SYMMETRY ChapterSymmetry
CHECK_DEADLOCK FALSE
INVARIANTS
  BoundsPartition
  LimitUpToOverlap
  AllDoneShowsInPercent
