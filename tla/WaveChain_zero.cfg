CONSTANTS
  PI_MAX_I2C_DEVICE_COUNT = 2
  Cuts = {0, 1, 4}
  AddressesGiven = {2}
  Families = {"chain"}
  Gpios = {4, 17, 18, 19}
  PWMDef <- MCPWMDef
  clkDef <- MCclkDef
  Cycles <- MCCycles
  PULSE_PER_CYCLE = 2
  SUPERCYCLE = 2
  servoIdx = 2
  DutyRanges = {2, 3}
  ServoSlots = {0, 1, 2}
  HwDuties = {1}
  Alt <- MCAlt
  WatchedPins = {18}
  PIN_PWM0 = 18
  PIN_SC_RST = 17
  DUTY_CYCLE_50_PERCENT = 1
  NUM_WAVE_CBS = 5
  NUM_WAVE_OOL = 5
  MaxCount = 3
  Shapes <- MCShapes
  PadSizes <- MCPads
  Programs <- MCPrograms
  WaveIds = {1, 2}
  blklen = 2
  blocks = 3
  WCB_COUNTERS = 2
  MaxNesting = 2
  ChainCBs = 9
  PI_WAVE_MAX_PULSES = 5
  Pulses <- MCPulses
  MaxLen = 2
  Callers = {1, 2}
  Kinds = {"i2c", "file"}
  SlotsPerKind = 2
  Descriptors = {0, 1, 2}
  ScriptIds = {0, 1}
  Waits = {"gpio"}
  Users = {1, 2}
  SpiSlots = 2
  Resvds = {FALSE}
  Processes = {"p1", "p2", "p3"}
  Pis = {0}
  Keys <- MCKeys
  CallbackGpios = {0, 1}
  CallbackEvents = {1}
  Bauds = {50, 115200, 700000, 1000000}
  DataBits = {1, 3, 16}
  HalfStops = {2, 3, 8}
  Texts <- MCTexts
  Transfers <- MCTransfers
  FifoDepth <- MCFifos
  MaxWords = 6
  Base = 8
  LastReg = 1
  MaxBlock = 2
  MaxMsgs = 2
  Values = {5, 9, 64}
  Blocks <- MCBlocks
  Lists <- MCLists
  OutLens = {0, 3, 5}
  ByteBits = 3
  DataBytes = {2, 3, 5}
  Address = 2
  MaxData = 3
  BusGpios = {1, 2, 3, 4, 5, 6, 7, 8, 9}
  BusOpens <- MCOpens
  SpiBits = 2
  SpiBytes = {1, 2}
  MaxXfer = 2
  MaxUnread = 2
  UserEvents = {1}
  PI_EVENT_BSC = 31
  BscFifo = 2
  BSC_FIFO_SIZE = 2
  MaxBytes = 3
  MaxTxCnt = 2
  PI_MAX_SCRIPT_VARS = 1
  PI_MAX_SCRIPT_PARAMS = 1
  PI_MAX_SCRIPT_TAGS = 2
  PI_SCRIPT_STACK_SIZE = 2
  Half = 2
  Outcomes = {0, 1}
SPECIFICATION CallsSpec
INVARIANT ZeroLoopsSkipped
CHECK_DEADLOCK FALSE
