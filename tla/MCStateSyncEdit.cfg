SPECIFICATION Spec
CONSTANTS
  Versions <- MCVersions
  Others <- MCNone
  Outcomes <- MCNone
  Start0 <- MCStart
  NewLines <- MCLines
  NewCovers <- MCCovers
  Rank <- MCRank
  Cuts = {0, 9}
  MaxEdits = 1
  Concurrent = TRUE
  MarkerInBlock = FALSE
PROPERTY
  HandKept
