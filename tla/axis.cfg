SPECIFICATION Spec
CONSTANTS
  Length = 2
  UseLSP = FALSE
  Positions <- MCPositions
  MaxLosses = 1
  MaxTrips = 1
INVARIANTS
  TypeOK
  EventDisarmed
  StopHolds
  HoldHidesNoMotion
PROPERTIES
  HomesAtLimitUnlessCut
  ForcedHomeIsHome
