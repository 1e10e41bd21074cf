\* A scan with room for two events on their way that emits up to four before its last.
\* The model stops when the scan has returned.
SPECIFICATION FairSpec
CONSTANTS
  Buffer = 2
  MaxEvents = 4
  None = None
INVARIANT
  EverythingIsDelivered
PROPERTIES
  KeepsContract
  CancelledStreamEnds
CHECK_DEADLOCK FALSE
