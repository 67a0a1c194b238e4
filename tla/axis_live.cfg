SPECIFICATION Spec
CONSTANTS
  Length = 1
  UseLSP = FALSE
  Positions = {}
  MaxLosses = 1
  MaxTrips = 0
PROPERTIES
  PowerSync
  MotionReported
  HomingEnds
