\* Buffers of two bytes, indices that wrap at four and have reached three,
\* packets of two bytes, one pass that waits for a full one; two bytes of the
\* line, two of the phone, one lost connection.  The system rests in the end.
SPECIFICATION FairSpec
CONSTANTS
  Size = 2
  IndexMod = 4
  Blank = Blank
  MtuData = 2
  Retries = 0
  WriteLens = {1, 2}
  MaxUart = 2
  MaxPhone = 2
  MaxLinks = 1
  Start = 3
CHECK_DEADLOCK FALSE
INVARIANTS TypeOK FifosKeepOrder
PROPERTIES BytesServed
