SPECIFICATION FairSpec
CONSTANTS
  Hdr = 2
  Cap = 4
  MsgMax = 9
  FdqCap = 1
  Streams <- MCStreams3
INVARIANTS
  InStep
  FdsAreHeads
  FdsAccounted
  DescriptorIsNamed
  MovedBounded
PROPERTIES
  StreamFollowed
  ImplementsStream
