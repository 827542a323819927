SPECIFICATION Spec
CONSTANTS
  a1 = a1
  a2 = a2
  c1 = c1
  d1 = d1
  n1 = n1
  u1 = u1
  Users = {u1}
  Overseers = {u1}
  Assignments = {a1, a2}
  Dates = {d1}
  Days = {n1}
  Clients = {c1}
SYMMETRY ClientSymmetry
CHECK_DEADLOCK FALSE
INVARIANTS
  SerialPromises
