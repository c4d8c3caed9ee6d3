CONSTANTS
  Families = {"link"}
  MaxNe = 3
  Apdus <- MCLinkApdus
  MaxQueue = 2
  Incoming <- MCLinkIncoming
  Faults = {{"late"}}
  ResetsAfterError = FALSE
SPECIFICATION MCSpec
INVARIANT EchoIsSynchronous
