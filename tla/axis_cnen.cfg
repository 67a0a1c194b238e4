SPECIFICATION Spec
CONSTANTS
  Length = 1
  UseLSP = FALSE
  Positions <- MCPositions
  MaxLosses = 0
  MaxTrips = 1
INVARIANTS
  DisableIsEffective
