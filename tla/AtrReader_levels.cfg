CONSTANTS
  HandshakeFamilies = {"bytes"}
  MAX_ATR_SIZE = 33
  Answers <- MCChains
  Replies <- MCReplies
  WIs = {1, 10, 32, 64, 255}
  None = None
  t0card = t0card
  twomode = twomode
  odd = odd
  fallback = fallback
  fast = fast
  dflt = dflt
  uart = uart
  other = other
  Cards <- MCCards
  Params <- MCParams
  DefaultParams = dflt
  Devices <- MCDevices
  WiredDevice = uart
  AtrLen <- MCAtrLen
  TwoModeCards <- MCTwoModeCards
  CardParams <- MCCardParams
  CardAnswers <- MCCardAnswers
  Best <- MCBest
  Fallback <- MCFallback
SPECIFICATION HandshakeSpec
CHECK_DEADLOCK FALSE
INVARIANT EveryLevelHasAnEntry
