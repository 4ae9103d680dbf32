\* Uploads while the endpoint is still busy.
CONSTANTS
  RxLen = 4
  PackSize = 2
  RxTimeOutMax = 1
  ZlpTimeOut = 1
  UpTimeOutMax = 2
  MaxU8 = 1
  MaxU16 = 4
  MaxBytes = 7
  MaxReset = 0
  MaxBusReset = 0
  MaxClear = 0
  KeepUp = TRUE
  Prompt = FALSE
  Quiet = TRUE
SPECIFICATION Spec
PROPERTY UploadNotDropped
