CONSTANTS
  Families = {"library", "memory", "script", "notify", "monitor", "sampling",
              "listen", "glitch", "noise", "wdog", "serial", "calls"}
  Configurations <- MCConfigurations
  DmaBlocks = 2
  PAGES_PER_BLOCK = 2
  Areas = {1, 2, 3, 4, 5}
  Memories = {11, 12}
  MemoryFds = {0, 1}
  MaxTrys = 2
  ScriptIds = {0}
  Waits = {"gpio", "event"}
  NotifySlots = {0}
  NotifyFds = {3, 4}
  Sockets = {1}
  MaxReports = 2
  MaxOpenings = 2
  PULSE_PER_CYCLE = 2
  bufferCycles = 3
  CBS_PER_IPAGE = 9
  LVS_PER_IPAGE = 4
  TCK_PER_IPAGE = 2
  DMAI_PAGES = 3
  MAX_SAMPLE = 4
  MaxLaps = 3
  AlertGpios = {1, 2}
  MAX_REPORT = 1
  Burst = 2
  steadyUs = 2
  activeUs = 2
  timeoutUs = 3
  dataBits = 2
  rxTimeout = 2
  bufSize = 3
  MaxCharacters = 3
  Clients = {"a", "b"}
  Functions <- MCFunctions
  ReplySizes = {1, 3}
  RecvBuf = 2
  Shielded = TRUE
SPECIFICATION ThreadsSpec
INVARIANTS LibraryLetsGo MemoryKept NotificationsKept SamplesKept AlertsKept  LinkKept
PROPERTY RequestsEnd
CHECK_DEADLOCK FALSE
