SPECIFICATION FairSpec
CONSTANTS
  MaxSerial = 2
  Timeout = 2
  RcvTimeo = 1
  Backstop = 2
  PumpMsgs = 2
  PumpReads = 3
  MaxConn = 2
  MaxReq = 4
  MaxSent = 2
INVARIANTS
  OwnReply
  EndsInTime
PROPERTIES
  NeverSkipsOwn
  HalfIsLast
  QuietIsAlive
  CallsEnd
