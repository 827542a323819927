SPECIFICATION Spec
CONSTANTS
  c1 = c1
  d1 = d1
  Completes = {c1}
  Deletes = {d1}
  Ticks = {}
  Finishes = {}
  NoTx = NoTx
INVARIANTS
  NoOrphanFiles
CHECK_DEADLOCK FALSE
