CONSTANTS
  Families = {"open", "link"}
  MaxNe = 3
  Apdus <- MCApdus
  MaxQueue = 2
  Incoming <- MCIncoming
  Faults <- MCFaults
  ResetsAfterError = TRUE
SPECIFICATION MCSpec
INVARIANTS
  ResponseFitsBuffer
  CommandSentOnce
  ResponseKept
  InStep
  TrueReports
PROPERTIES
  OpenLine
  EveryCommandEnds
