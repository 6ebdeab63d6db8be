SPECIFICATION Spec
CONSTANTS
  UintMax = 1
  HeldCap = 2
  MaxInbox = 2
  Asked <- MCAsked
  Tables <- MCTables
INVARIANTS
  TypeOK
  HeldIsMine
  HeldOwesRelease
  ControlAccounted
  FailedTakeUndone
  NoTableNoBus
PROPERTY
  NeverRevoked
