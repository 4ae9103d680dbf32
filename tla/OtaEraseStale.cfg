SPECIFICATION OtaSpec
CONSTANTS
  Blocks = 2
  Pages = 2
  Versions = {v1, v2}
  NoVersion = NoVersion
  Blank = Blank
  Torn = Torn
  MaxCrash = 1
  PageUnits = 3
  Chunk = 2
  ImageUnits = 11
  EraseSizes = {2, 4}
  PromReplies = {"ok"}
  MaxTrouble = 2
INVARIANTS
  ErasesOnlyTheImage
CHECK_DEADLOCK FALSE
