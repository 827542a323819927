SPECIFICATION Spec
CONSTANTS
  r1 = r1
  r2 = r2
  u1 = u1
  u2 = u2
  e1 = e1
  t1 = t1
  t2 = t2
  c1 = c1
  c2 = c2
  OwnerRole = OwnerRole
  Roles = {r1, r2}
  Users = {u1, u2}
  Emails = {e1}
  EmailOf <- OneEmail
  Links = {t1, t2}
  UserOf <- LinksInTurn
  Clients = {c1, c2}
SYMMETRY DirectorySymmetry
CHECK_DEADLOCK FALSE
INVARIANTS
  DefaultsUpToOverlap
  RowsOfEmailUpToOverlap
PROPERTIES
  SpentStaysSpent
