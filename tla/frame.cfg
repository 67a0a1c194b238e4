SPECIFICATION Spec
CONSTANTS
  Messages <- MCMessages
  Padding <- Nulls
  Noise = {0, 4, 79, 255}
  MaxPadding = 2
INVARIANTS
  TypeOK
  PaddingIsSkipped
  DamagedIsRefused
