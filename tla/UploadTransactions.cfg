SPECIFICATION FairSpec
CONSTANTS
  c1 = c1
  c2 = c2
  d1 = d1
  d2 = d2
  w1 = w1
  f1 = f1
  f2 = f2
  Completes = {c1, c2}
  Deletes = {d1, d2}
  Ticks = {w1}
  Finishes = {f1, f2}
  NoTx = NoTx
INVARIANTS
  TypeOK
  AcceptedAsAWhole
  LiveVideoIsWhole
PROPERTIES
  EveryTxEnds
  ImplementsAtomic
CHECK_DEADLOCK FALSE
