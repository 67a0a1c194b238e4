SPECIFICATION Spec
CONSTANTS
  c1 = c1
  d1 = d1
  d2 = d2
  None = None
  Iocsh = Iocsh
  Controllers = {c1}
  Drives = {d1, d2}
  ControllerOf <- OneController
  AxisId <- OwnIds
  Defaults <- Manual
  ZipVariables <- SameSetup
  Firmware <- SameSetup
  MaxCommands = 2
INVARIANTS
  TypeOK
  CallsReachOwnDrive
  InheritsOnlyLeftOut
  ResolvedFromOwnSetup
