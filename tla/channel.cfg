SPECIFICATION Spec
CONSTANTS
  Drives <- MCDrives
  Registers = {552}
  Overlap = FALSE
  MaxRequests = 3
  MaxLosses = 1
  MaxBuffered = 3
INVARIANTS
  TypeOK
  ReadIsOfRequest
  SentIsExecuted
  AtMostTwice
PROPERTIES
  Returns
  ImplementsRequest
CHECK_DEADLOCK FALSE
