SPECIFICATION FairSpec
CONSTANTS
  MaxLen = 2
  OutLens = {1, 2}
  WriteLens = {2}
  SendMax = 1
  Payloads = {1, 2}
  DefaultPayload = 1
  MaxUsb = 3
  MaxBle = 4
  MaxTrouble = 1
  Junk = Junk
INVARIANTS
  TypeOK
  UsbToBle
  BleToUsb
PROPERTIES
  InterruptsReturn
  RingsDrain
CHECK_DEADLOCK FALSE
