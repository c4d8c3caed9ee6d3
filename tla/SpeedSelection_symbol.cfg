CONSTANTS
  WIs = {1, 10, 32, 64, 255}
SPECIFICATION SpeedSpec
CHECK_DEADLOCK FALSE
INVARIANT SymbolTimesAgree
