SPECIFICATION Spec
CONSTANTS
  a1 = a1
  c1 = c1
  n1 = n1
  u1 = u1
  Users = {u1}
  Overseers = {}
  Assignments = {a1}
  Dates = {}
  Days = {n1}
  Clients = {c1}
SYMMETRY ClientSymmetry
CHECK_DEADLOCK FALSE
INVARIANTS
  GroupRowsAreMembers
