SPECIFICATION Spec
CONSTANTS
  UintMax = 1
  HeldCap = 2
  MaxInbox = 1
  Asked <- MCAskedTwo
  Tables <- MCFullTable
INVARIANT
  GoneMeansReleased
