SPECIFICATION Spec
CONSTANTS
  Messages <- MCMessages
  Padding <- WithLineFeed
  Noise = {255}
  MaxPadding = 1
INVARIANTS
  PaddingIsSkipped
