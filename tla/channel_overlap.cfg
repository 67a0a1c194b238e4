SPECIFICATION Spec
CONSTANTS
  Drives <- MCDrives
  Registers = {552}
  Overlap = TRUE
  MaxRequests = 2
  MaxLosses = 0
  MaxBuffered = 4
INVARIANTS
  ReadIsOfRequest
CHECK_DEADLOCK FALSE
