SPECIFICATION Spec
CONSTANTS
  a1 = a1
  c1 = c1
  c2 = c2
  n1 = n1
  u1 = u1
  u2 = u2
  Users = {u1, u2}
  Overseers = {}
  Assignments = {a1}
  Dates = {}
  Days = {n1}
  Clients = {c1, c2}
SYMMETRY UserSymmetry
CHECK_DEADLOCK FALSE
INVARIANTS
  JournalMatchesRows
  OnlyNewcomersOutlive
PROPERTIES
  SettledIsFinal
  ReopenedByJoining
  LeavingSparesPersonal
  ImplementsLifecycle
