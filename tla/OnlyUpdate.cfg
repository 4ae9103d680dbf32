SPECIFICATION FairSpec
CONSTANTS
  Blocks = 2
  Pages = 2
  Versions = {v1, v2}
  NoVersion = NoVersion
  Blank = Blank
  Torn = Torn
  PageUnits = 3
  Chunk = 2
  ImageUnits = 11
  EraseSizes = {2, 4}
  MaxTrouble = 2
  MaxCrash = 2
  PromReplies = {"ok", "err"}
  CutsRepeated = FALSE
INVARIANTS
  TypeOK
  FlagTellsImage
  RunsCompleteImage
  CommitsWhatWasSent
PROPERTIES
  UpdateArrives
CHECK_DEADLOCK FALSE
