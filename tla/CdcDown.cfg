\* The USB-to-UART direction, safety and liveness: host resets at safe points only.
CONSTANTS
  NumMax = 4
  MaxU16 = 65535
  PackSize = 2
  OutLens = {1, 2}
  MaxBytes = 6
  MaxReset = 1
  MaxClear = 2
  Quiet = TRUE
SPECIFICATION FairSpec
INVARIANTS TypeOK RingConsistent NoOverrun InOrder NakHasStopFlag
PROPERTIES ReleasedWhenSent IsOrderedPipe EveryByteSent DownlinkRestarts
