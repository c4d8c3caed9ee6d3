CONSTANTS
  HandshakeFamilies = {"bytes", "speed", "reset"}
  MAX_ATR_SIZE = 9
  Answers <- MCAnswers
  Replies <- MCReplies
  WIs = {1, 10, 32, 64, 255}
  None = None
  t0card = t0card
  twomode = twomode
  odd = odd
  fallback = fallback
  fast = fast
  dflt = dflt
  uart = uart
  other = other
  Cards <- MCCards
  Params <- MCParams
  DefaultParams = dflt
  Devices <- MCDevices
  WiredDevice = uart
  AtrLen <- MCAtrLen
  TwoModeCards <- MCTwoModeCards
  CardParams <- MCCardParams
  CardAnswers <- MCCardAnswers
  Best <- MCBest
  Fallback <- MCFallback
SPECIFICATION HandshakeSpec
CHECK_DEADLOCK FALSE
INVARIANTS
  AtrFitsBuffer
  OffsetsNameTheirBytes
  SoundAnswersAccepted
  AgreesWithCard
  SpeedSuitsCard
  ResetKept
PROPERTY ResetEnds
