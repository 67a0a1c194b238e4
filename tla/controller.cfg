SPECIFICATION Spec
CONSTANTS
  NumAxes = 2
  Fds <- MCFds
  MaxSetups = 2
  MaxBackoff = 3
  MaxLinkLosses = 1
  MaxDriveLosses = 1
  MaxAckLosses = 1
INVARIANTS
  TypeOK
  ChannelRegistered
  SetupSlotsOwned
  ReadyIsInitialised
PROPERTIES
  NoInitAfterAck
  OpenRateLimited
  Recovers
  DropSurfaces
  ImplementsLifecycle
