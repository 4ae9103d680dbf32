SPECIFICATION FairSpec
CONSTANTS
  Blocks = 3
  Pages = 2
  Versions = {v1, v2}
  NoVersion = NoVersion
  Blank = Blank
  Torn = Torn
  MaxCrash = 2
INVARIANTS
  TypeOK
  OneCompleteImage
  RunsCompleteImage
  CopiesToBlankPages
PROPERTIES
  IsUpgrade
  CommittedRuns
