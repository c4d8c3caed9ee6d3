CONSTANTS
  None = None
  t0card = t0card
  t1card = t1card
  fallback = fallback
  fast = fast
  dflt = dflt
  uart = uart
  other = other
  lun0 = lun0
  lun1 = lun1
  Cards <- MCCards
  Params <- MCParams
  DefaultParams = dflt
  Devices <- MCDevices
  WiredDevice = uart
  AtrLen <- MCAtrLen
  TwoModeCards <- MCTwoModeCards
  CardParams <- MCCardParams
  Luns <- MCLuns
  Channels <- MCChannels
  gReaderListSize = 2
SPECIFICATION PolledAndPoweredUp
INVARIANTS
  SessionKept
PROPERTIES
  FreshChannel
  PowerUpSynchronises
  AgreementKept
  OpenLeavesOthersAlone
  CardChangesNoticed
