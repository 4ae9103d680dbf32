\* SET_LINE_CODING or a bus reset while UART2_DataTx_Deal is half way.
CONSTANTS
  NumMax = 5
  MaxU16 = 65535
  PackSize = 2
  OutLens = {1, 2}
  MaxBytes = 4
  MaxReset = 1
  MaxClear = 0
  Quiet = FALSE
SPECIFICATION Spec
INVARIANT RingConsistent
