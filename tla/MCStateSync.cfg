SPECIFICATION Spec
CONSTANTS
  Versions <- MCVersions
  Others <- MCOthers
  Outcomes <- MCOutcomes
  Start0 <- MCStart
  NewLines <- MCLines
  NewCovers <- MCCovers
  Rank <- MCRank
  Cuts = {0, 9}
  MaxEdits = 2
  Concurrent = FALSE
  MarkerInBlock = FALSE
INVARIANT
  StatusIsTrue
PROPERTY
  HandKept
