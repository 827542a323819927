SPECIFICATION Spec
CONSTANTS
  c1 = c1
  c2 = c2
  Completes = {c1, c2}
  Deletes = {}
  Ticks = {}
  Finishes = {}
  NoTx = NoTx
INVARIANTS
  LostRaceIsAnswered
CHECK_DEADLOCK FALSE
