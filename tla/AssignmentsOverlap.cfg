SPECIFICATION Spec
CONSTANTS
  a1 = a1
  c1 = c1
  c2 = c2
  n1 = n1
  u1 = u1
  Users = {u1}
  Overseers = {}
  Assignments = {a1}
  Dates = {}
  Days = {n1}
  Clients = {c1, c2}
SYMMETRY ClientSymmetry
CHECK_DEADLOCK FALSE
INVARIANTS
  CancelledIsClosed
