SPECIFICATION Spec
CONSTANTS
  NumAxes = 1
  Fds = {3}
  MaxSetups = 1
  MaxBackoff = 3
  MaxLinkLosses = 1
  MaxDriveLosses = 0
  MaxAckLosses = 0
PROPERTIES
  DropDetected
