\* The receive buffer drains although the host may never read; the ZLP for one that does.
CONSTANTS
  RxLen = 3
  PackSize = 2
  RxTimeOutMax = 1
  ZlpTimeOut = 1
  UpTimeOutMax = 2
  MaxU8 = 1
  MaxU16 = 3
  MaxBytes = 4
  MaxReset = 1
  MaxBusReset = 1
  MaxClear = 1
  KeepUp = TRUE
  Prompt = TRUE
  Quiet = TRUE
SPECIFICATION FairSpec
PROPERTIES BufferDrains ZlpSent
