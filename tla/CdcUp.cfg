\* Safety of the UART-to-USB direction; loop and host keep up.
CONSTANTS
  RxLen = 4
  PackSize = 2
  RxTimeOutMax = 1
  ZlpTimeOut = 1
  UpTimeOutMax = 2
  MaxU8 = 1
  MaxU16 = 5
  MaxBytes = 6
  MaxReset = 1
  MaxBusReset = 1
  MaxClear = 1
  KeepUp = TRUE
  Prompt = FALSE
  Quiet = TRUE
SPECIFICATION Spec
INVARIANTS TypeOK RemainIsUnprocessed WaitingIntact HostInOrder
