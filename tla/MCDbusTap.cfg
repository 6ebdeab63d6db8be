SPECIFICATION FairSpec
CONSTANTS
  c1 = c1
  c2 = c2
  Conns = {c1, c2}
  Plans <- MCPlans
  Room = 2
  RecvMax = 2
  MaxFds = 1
CHECK_DEADLOCK FALSE
INVARIANTS
  Transparent
  RecordedFirst
  NoSilentLoss
  NoLeak
PROPERTY
  Served
