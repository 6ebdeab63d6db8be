SPECIFICATION TextSpec
CONSTANTS
  Readers <- MCReaderNames
  Phrases <- MCPhrases
  Longest <- MCLongest
  BufCap = 8
  FdMax = 3
INVARIANTS
  CReadAsCompiled
  LinesKept
  DecodesCapture
  SaslAsSent
  FieldsFound
  RightsCollected
CHECK_DEADLOCK FALSE
