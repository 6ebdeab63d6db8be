SPECIFICATION TextSpec
CONSTANTS
  Readers <- MCReaderNames
  Phrases <- MCPhrases
  Longest <- MCLongest
  Manifests <- MCManifests
  Allowed <- MCAllowed
  Denied <- MCDenied
INVARIANTS
  ReadAsCompiled
  ScannedApart
  SurfaceFrozen
  BoundaryHolds
  BuildScanned
CHECK_DEADLOCK FALSE
