SPECIFICATION FairOta
CONSTANTS
  Blocks = 2
  Pages = 2
  Versions = {v1, v2}
  NoVersion = NoVersion
  Blank = Blank
  Torn = Torn
  MaxCrash = 1
  PageUnits = 3
  Chunk = 2
  ImageUnits = 11
  EraseSizes = {2, 4}
  PromReplies = {"ok"}
  MaxTrouble = 2
INVARIANTS
  SessionTypeOK
  CommitsWhatWasSent
  CleanDownloadVerifies
  NothingMissing
PROPERTIES
  IsBackupBoot
  UpdateArrives
CHECK_DEADLOCK FALSE
