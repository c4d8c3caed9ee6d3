------------------------------ MODULE Commands ------------------------------
(***************************************************************************)
(* The commands of pigpio as the daemon and its clients see them: what     *)
(* myDoCommand runs for each (pigpio.c), which have an extension in their  *)
(* reply (pthSocketThreadHandler), how they are written (cmdInfo and       *)
(* cmdParse of command.c) and what pigs expects back (pigs.c).             *)
(*                                                                         *)
(* A command takes nothing, a word, five words, three words and bytes, or  *)
(* bytes behind its two parameters, and gives a value, or bytes of which   *)
(* the value is the number.  What follows the commands is what every       *)
(* function of the client libraries does on the socket: pigpiod_if2.c, and *)
(* pigpiod_if.c, which has fewer of the same functions.                    *)
(***************************************************************************)
EXTENDS Integers, TLC

Does(f, takes, gives) == [runs |-> f, takes |-> takes, gives |-> gives]
Plain(f) == Does(f, "none", "value")
Word(f) == Does(f, "word", "value")
Bytes(f) == Does(f, "bytes", "value")
Fetch(f) == Does(f, "none", "bytes")
Exchange(f) == Does(f, "bytes", "bytes")

-----------------------------------------------------------------------------
(* myDoCommand *)

BitBangCommands == [
  BC1 |-> Plain("gpioWrite_Bits_0_31_Clear"), BC2 |-> Plain("gpioWrite_Bits_32_53_Clear"),
  BI2CC |-> Plain("bbI2CClose"), BI2CO |-> Word("bbI2COpen"), BI2CZ |-> Exchange("bbI2CZip"),
  BSCX |-> Exchange("bscXfer"), BSPIO |-> Does("bbSPIOpen", "fiveWords", "value"),
  BSPIC |-> Plain("bbSPIClose"), BSPIX |-> Exchange("bbSPIXfer"),
  BR1 |-> Plain("gpioRead_Bits_0_31"), BR2 |-> Plain("gpioRead_Bits_32_53"),
  BS1 |-> Plain("gpioWrite_Bits_0_31_Set"), BS2 |-> Plain("gpioWrite_Bits_32_53_Set"),
  CF1 |-> Bytes("gpioCustom1"), CF2 |-> Exchange("gpioCustom2")]

FileCommands == [
  CGI |-> Plain("gpioCfgGetInternals"), CSI |-> Plain("gpioCfgSetInternals"),
  EVM |-> Plain("eventMonitor"), EVT |-> Plain("eventTrigger"),
  FC |-> Plain("fileClose"), FG |-> Plain("gpioGlitchFilter"), FL |-> Exchange("fileList"),
  FN |-> Word("gpioNoiseFilter"), FO |-> Bytes("fileOpen"), FR |-> Fetch("fileRead"),
  FS |-> Word("fileSeek"), FW |-> Bytes("fileWrite"),
  GDC |-> Plain("gpioGetPWMdutycycle"), GPW |-> Plain("gpioGetServoPulsewidth"),
  HC |-> Plain("gpioHardwareClock"), HELP |-> Plain("nothing"),
  HP |-> Word("gpioHardwarePWM"), HWVER |-> Plain("gpioHardwareRevision")]

I2CCommands == [
  I2CC |-> Plain("i2cClose"), I2CO |-> Word("i2cOpen"), I2CPC |-> Word("i2cProcessCall"),
  I2CPK |-> Exchange("i2cBlockProcessCall"), I2CRB |-> Plain("i2cReadByteData"),
  I2CRD |-> Fetch("i2cReadDevice"), I2CRI |-> Does("i2cReadI2CBlockData", "word", "bytes"),
  I2CRK |-> Fetch("i2cReadBlockData"), I2CRS |-> Plain("i2cReadByte"),
  I2CRW |-> Plain("i2cReadWordData"), I2CWB |-> Word("i2cWriteByteData"),
  I2CWD |-> Bytes("i2cWriteDevice"), I2CWI |-> Bytes("i2cWriteI2CBlockData"),
  I2CWK |-> Bytes("i2cWriteBlockData"), I2CWQ |-> Plain("i2cWriteQuick"),
  I2CWS |-> Plain("i2cWriteByte"), I2CWW |-> Word("i2cWriteWordData"),
  I2CZ |-> Exchange("i2cZip")]

NotifyCommands == [
  MICS |-> Plain("myGpioDelay"), MILS |-> Plain("myGpioDelay"),
  MODEG |-> Plain("gpioGetMode"), MODES |-> Plain("gpioSetMode"),
  NB |-> Plain("gpioNotifyBegin"), NC |-> Plain("gpioNotifyClose"),
  NO |-> Plain("gpioNotifyOpen"), NP |-> Plain("gpioNotifyPause"),
  PADG |-> Plain("gpioGetPad"), PADS |-> Plain("gpioSetPad"),
  PFG |-> Plain("gpioGetPWMfrequency"), PFS |-> Plain("gpioSetPWMfrequency"),
  PIGPV |-> Plain("gpioVersion"), PRG |-> Plain("gpioGetPWMrange"),
  PROC |-> Bytes("gpioStoreScript"), PROCD |-> Plain("gpioDeleteScript"),
  PROCP |-> Fetch("gpioScriptStatus"), PROCR |-> Bytes("gpioRunScript"),
  PROCS |-> Plain("gpioStopScript"), PROCU |-> Bytes("gpioUpdateScript"),
  PRRG |-> Plain("gpioGetPWMrealRange"), PRS |-> Plain("gpioSetPWMrange"),
  PUD |-> Plain("gpioSetPullUpDown"), PWM |-> Plain("gpioPWM"),
  READ |-> Plain("gpioRead"), SERVO |-> Plain("gpioServo")]

SerialCommands == [
  SERRB |-> Plain("serReadByte"), SERWB |-> Plain("serWriteByte"), SERC |-> Plain("serClose"),
  SERDA |-> Plain("serDataAvailable"), SERO |-> Bytes("serOpen"), SERR |-> Fetch("serRead"),
  SERW |-> Bytes("serWrite"), SHELL |-> Bytes("shell"),
  SLR |-> Fetch("gpioSerialRead"), SLRC |-> Plain("gpioSerialReadClose"),
  SLRO |-> Word("gpioSerialReadOpen"), SLRI |-> Plain("gpioSerialReadInvert"),
  SPIC |-> Plain("spiClose"), SPIO |-> Word("spiOpen"), SPIR |-> Fetch("spiRead"),
  SPIW |-> Bytes("spiWrite"), SPIX |-> Exchange("spiXfer"), TICK |-> Plain("gpioTick"),
  TRIG |-> Word("gpioTrigger"), WDOG |-> Plain("gpioSetWatchdog"), WRITE |-> Plain("gpioWrite")]

WaveCommands == [
  WVAG |-> Bytes("gpioWaveAddGeneric"), WVAS |-> Does("gpioWaveAddSerial", "threeWords", "value"),
  WVBSY |-> Plain("gpioWaveTxBusy"), WVCHA |-> Bytes("gpioWaveChain"),
  WVCLR |-> Plain("gpioWaveClear"), WVCRE |-> Plain("gpioWaveCreate"),
  WVCAP |-> Plain("gpioWaveCreatePad"), WVDEL |-> Plain("gpioWaveDelete"),
  WVGO |-> Plain("gpioWaveTxStart"), WVGOR |-> Plain("gpioWaveTxStart"),
  WVHLT |-> Plain("gpioWaveTxStop"), WVNEW |-> Plain("gpioWaveAddNew"),
  WVSC |-> Plain("gpioWaveGetCbs"), WVSM |-> Plain("gpioWaveGetMicros"),
  WVSP |-> Plain("gpioWaveGetPulses"), WVTAT |-> Plain("gpioWaveTxAt"),
  WVTX |-> Plain("gpioWaveTxSend"), WVTXM |-> Plain("gpioWaveTxSend"),
  WVTXR |-> Plain("gpioWaveTxSend")]

\* The handler opens a notification in the band of its own socket.
InBandCommand == [NOIB |-> Plain("gpioNotifyOpenInBand")]

myDoCommand == BitBangCommands @@ FileCommands @@ I2CCommands @@ NotifyCommands
               @@ SerialCommands @@ WaveCommands @@ InBandCommand

\* The handler sends an extension after these replies, if the result is positive.
Extended == {"BI2CZ", "BSCX", "CF2", "FL", "FR", "I2CPK", "I2CRD", "I2CRI", "I2CRK", "I2CZ",
             "PROCP", "SERR", "SLR", "SPIX", "SPIR", "BSPIX"}

\* What a command may be sent with: what it takes, or more than it looks at.
Suits(sends, takes) == takes \in {sends, "none", "bytes"}

-----------------------------------------------------------------------------
(* Commands as they are written: which arguments cmdParse reads and how the *)
(* result is printed                                                        *)

Info(vt, rv) == [vt |-> vt, rv |-> rv]

PinText == [
  BC1 |-> Info(111, 1), BC2 |-> Info(111, 1), BI2CC |-> Info(112, 0), BI2CO |-> Info(131, 0),
  BI2CZ |-> Info(193, 6), BR1 |-> Info(101, 3), BR2 |-> Info(101, 3), BS1 |-> Info(111, 1),
  BS2 |-> Info(111, 1), BSCX |-> Info(193, 8), BSPIC |-> Info(112, 0), BSPIO |-> Info(134, 0),
  BSPIX |-> Info(193, 6), CF1 |-> Info(195, 2), CF2 |-> Info(195, 6), CGI |-> Info(101, 4),
  CSI |-> Info(111, 1), EVM |-> Info(122, 1), EVT |-> Info(112, 0), FC |-> Info(112, 0),
  FG |-> Info(121, 0), FL |-> Info(127, 6), FN |-> Info(131, 0), FO |-> Info(127, 2),
  FR |-> Info(121, 6), FS |-> Info(133, 2), FW |-> Info(193, 0), GDC |-> Info(112, 2),
  GPW |-> Info(112, 2), HC |-> Info(121, 0), HP |-> Info(131, 0), HWVER |-> Info(101, 4),
  I2CC |-> Info(112, 0), I2CO |-> Info(131, 2), I2CPC |-> Info(131, 2), I2CPK |-> Info(194, 6),
  I2CRB |-> Info(121, 2), I2CRD |-> Info(121, 6), I2CRI |-> Info(131, 6), I2CRK |-> Info(121, 6),
  I2CRS |-> Info(112, 2), I2CRW |-> Info(121, 2), I2CWB |-> Info(131, 0), I2CWD |-> Info(193, 0),
  I2CWI |-> Info(194, 0), I2CWK |-> Info(194, 0), I2CWQ |-> Info(121, 0), I2CWS |-> Info(121, 0),
  I2CWW |-> Info(131, 0), I2CZ |-> Info(193, 6), MICS |-> Info(112, 0), MILS |-> Info(112, 0)]

WaveText == [
  MODEG |-> Info(112, 2), MODES |-> Info(125, 0), NB |-> Info(122, 0), NC |-> Info(112, 0),
  NO |-> Info(101, 2), NP |-> Info(112, 0), PADG |-> Info(112, 2), PADS |-> Info(121, 0),
  PFG |-> Info(112, 2), PFS |-> Info(121, 2), PIGPV |-> Info(101, 4), PRG |-> Info(112, 2),
  PROC |-> Info(115, 2), PROCD |-> Info(112, 0), PROCP |-> Info(112, 7), PROCR |-> Info(191, 0),
  PROCS |-> Info(112, 0), PROCU |-> Info(191, 0), PRRG |-> Info(112, 2), PRS |-> Info(121, 2),
  PUD |-> Info(126, 0), PWM |-> Info(121, 0), READ |-> Info(112, 2), SERC |-> Info(112, 0),
  SERDA |-> Info(112, 2), SERO |-> Info(132, 2), SERR |-> Info(121, 6), SERRB |-> Info(112, 2),
  SERW |-> Info(193, 0), SERWB |-> Info(121, 0), SERVO |-> Info(121, 0), SHELL |-> Info(128, 2),
  SLR |-> Info(121, 6), SLRC |-> Info(112, 0), SLRO |-> Info(131, 0), SLRI |-> Info(121, 0),
  SPIC |-> Info(112, 0), SPIO |-> Info(131, 2), SPIR |-> Info(121, 6), SPIW |-> Info(193, 0),
  SPIX |-> Info(193, 6), TICK |-> Info(101, 4), TRIG |-> Info(131, 0), WDOG |-> Info(121, 0),
  WRITE |-> Info(121, 0), WVAG |-> Info(192, 2), WVAS |-> Info(196, 2), WVBSY |-> Info(101, 2),
  WVCHA |-> Info(197, 0), WVCLR |-> Info(101, 0), WVCRE |-> Info(101, 2), WVCAP |-> Info(112, 2),
  WVDEL |-> Info(112, 0), WVGO |-> Info(101, 2), WVGOR |-> Info(101, 2), WVHLT |-> Info(101, 0),
  WVNEW |-> Info(101, 0), WVSC |-> Info(112, 2), WVSM |-> Info(112, 2), WVSP |-> Info(112, 2),
  WVTAT |-> Info(101, 2), WVTX |-> Info(112, 2), WVTXM |-> Info(121, 2), WVTXR |-> Info(112, 2)]

cmdInfo == PinText @@ WaveText

\* What cmdParse puts behind the two parameters of a command: nothing, one or
\* more words, a text, a list of numbers or of bytes.
SimpleArguments == {101, 111, 112, 121, 122, 125, 126}
TextArguments == {115, 127, 128, 132}
WordArguments == {131, 133}
ListArguments == {191, 192, 193, 194}
TailArguments == {195, 197}
Parsed(vt) ==
  CASE vt \in SimpleArguments -> "none"
    [] vt \in WordArguments -> "word"
    [] vt = 134 -> "fiveWords"
    [] vt = 196 -> "threeWords"
    [] vt \in TextArguments \cup ListArguments \cup TailArguments -> "bytes"

\* The commands whose extension pigs reads, and those whose result it prints
\* from the extension.
get_extensions == {"BI2CZ", "BSCX", "BSPIX", "CF2", "FL", "FR", "I2CPK", "I2CRD", "I2CRI",
                   "I2CRK", "I2CZ", "PROCP", "SERR", "SLR", "SPIX", "SPIR"}
print_result(rv) == rv \in {6, 7, 8}

-----------------------------------------------------------------------------
(* The client libraries: a function sends a command, with or without an extension, *)
(* and reads a value or bytes back.  `means` is the function of pigpio that the    *)
(* header of the library says it stands for.                                       *)
ClientCall(cmd, sends, reads, means) ==
  [cmd |-> cmd, sends |-> sends, reads |-> reads, means |-> means]
Asks(cmd, means) == ClientCall(cmd, "none", "value", means)
Words(cmd, means) == ClientCall(cmd, "word", "value", means)
Sends(cmd, means) == ClientCall(cmd, "bytes", "value", means)
Fetches(cmd, means) == ClientCall(cmd, "none", "bytes", means)
Exchanges(cmd, means) == ClientCall(cmd, "bytes", "bytes", means)

-----------------------------------------------------------------------------
(* pigpiod_if2.c *)

OutputCalls == [
  set_mode |-> Asks("MODES", "gpioSetMode"), get_mode |-> Asks("MODEG", "gpioGetMode"),
  set_pull_up_down |-> Asks("PUD", "gpioSetPullUpDown"), gpio_read |-> Asks("READ", "gpioRead"),
  gpio_write |-> Asks("WRITE", "gpioWrite"), set_PWM_dutycycle |-> Asks("PWM", "gpioPWM"),
  get_PWM_dutycycle |-> Asks("GDC", "gpioGetPWMdutycycle"),
  set_PWM_range |-> Asks("PRS", "gpioSetPWMrange"),
  get_PWM_range |-> Asks("PRG", "gpioGetPWMrange"),
  get_PWM_real_range |-> Asks("PRRG", "gpioGetPWMrealRange"),
  set_PWM_frequency |-> Asks("PFS", "gpioSetPWMfrequency"),
  get_PWM_frequency |-> Asks("PFG", "gpioGetPWMfrequency"),
  set_servo_pulsewidth |-> Asks("SERVO", "gpioServo"),
  get_servo_pulsewidth |-> Asks("GPW", "gpioGetServoPulsewidth"),
  notify_open |-> Asks("NO", "gpioNotifyOpen"), notify_begin |-> Asks("NB", "gpioNotifyBegin"),
  notify_pause |-> Asks("NB", "gpioNotifyPause"), notify_close |-> Asks("NC", "gpioNotifyClose"),
  set_watchdog |-> Asks("WDOG", "gpioSetWatchdog"),
  read_bank_1 |-> Asks("BR1", "gpioRead_Bits_0_31"),
  read_bank_2 |-> Asks("BR2", "gpioRead_Bits_32_53"),
  clear_bank_1 |-> Asks("BC1", "gpioWrite_Bits_0_31_Clear"),
  clear_bank_2 |-> Asks("BC2", "gpioWrite_Bits_32_53_Clear"),
  set_bank_1 |-> Asks("BS1", "gpioWrite_Bits_0_31_Set"),
  set_bank_2 |-> Asks("BS2", "gpioWrite_Bits_32_53_Set"),
  hardware_clock |-> Asks("HC", "gpioHardwareClock"),
  hardware_PWM |-> Words("HP", "gpioHardwarePWM"), get_current_tick |-> Asks("TICK", "gpioTick"),
  get_hardware_revision |-> Asks("HWVER", "gpioHardwareRevision"),
  get_pigpio_version |-> Asks("PIGPV", "gpioVersion"),
  wave_clear |-> Asks("WVCLR", "gpioWaveClear")]

WaveCalls == [
  wave_add_new |-> Asks("WVNEW", "gpioWaveAddNew"),
  wave_add_generic |-> Sends("WVAG", "gpioWaveAddGeneric"),
  wave_add_serial |-> ClientCall("WVAS", "threeWords", "value", "gpioWaveAddSerial"),
  wave_create |-> Asks("WVCRE", "gpioWaveCreate"),
  wave_create_and_pad |-> Asks("WVCAP", "gpioWaveCreatePad"),
  wave_delete |-> Asks("WVDEL", "gpioWaveDelete"),
  wave_tx_start |-> Asks("WVGO", "gpioWaveTxStart"),
  wave_tx_repeat |-> Asks("WVGOR", "gpioWaveTxStart"),
  wave_send_once |-> Asks("WVTX", "gpioWaveTxSend"),
  wave_send_repeat |-> Asks("WVTXR", "gpioWaveTxSend"),
  wave_send_using_mode |-> Asks("WVTXM", "gpioWaveTxSend"),
  wave_chain |-> Sends("WVCHA", "gpioWaveChain"), wave_tx_at |-> Asks("WVTAT", "gpioWaveTxAt"),
  wave_tx_busy |-> Asks("WVBSY", "gpioWaveTxBusy"),
  wave_tx_stop |-> Asks("WVHLT", "gpioWaveTxStop"),
  wave_get_micros |-> Asks("WVSM", "gpioWaveGetMicros"),
  wave_get_high_micros |-> Asks("WVSM", "gpioWaveGetMicros"),
  wave_get_max_micros |-> Asks("WVSM", "gpioWaveGetMicros"),
  wave_get_pulses |-> Asks("WVSP", "gpioWaveGetPulses"),
  wave_get_high_pulses |-> Asks("WVSP", "gpioWaveGetPulses"),
  wave_get_max_pulses |-> Asks("WVSP", "gpioWaveGetPulses"),
  wave_get_cbs |-> Asks("WVSC", "gpioWaveGetCbs"),
  wave_get_high_cbs |-> Asks("WVSC", "gpioWaveGetCbs"),
  wave_get_max_cbs |-> Asks("WVSC", "gpioWaveGetCbs"),
  gpio_trigger |-> Words("TRIG", "gpioTrigger"),
  set_glitch_filter |-> Asks("FG", "gpioGlitchFilter"),
  set_noise_filter |-> Words("FN", "gpioNoiseFilter")]

ScriptCalls == [
  store_script |-> Sends("PROC", "gpioStoreScript"),
  run_script |-> Sends("PROCR", "gpioRunScript"),
  update_script |-> Sends("PROCU", "gpioUpdateScript"),
  script_status |-> Fetches("PROCP", "gpioScriptStatus"),
  stop_script |-> Asks("PROCS", "gpioStopScript"),
  delete_script |-> Asks("PROCD", "gpioDeleteScript"),
  bb_serial_read_open |-> Words("SLRO", "gpioSerialReadOpen"),
  bb_serial_read |-> Fetches("SLR", "gpioSerialRead"),
  bb_serial_read_close |-> Asks("SLRC", "gpioSerialReadClose"),
  bb_serial_invert |-> Asks("SLRI", "gpioSerialReadInvert")]

I2CCalls == [
  i2c_open |-> Words("I2CO", "i2cOpen"), i2c_close |-> Asks("I2CC", "i2cClose"),
  i2c_write_quick |-> Asks("I2CWQ", "i2cWriteQuick"),
  i2c_write_byte |-> Asks("I2CWS", "i2cWriteByte"),
  i2c_read_byte |-> Asks("I2CRS", "i2cReadByte"),
  i2c_write_byte_data |-> Words("I2CWB", "i2cWriteByteData"),
  i2c_write_word_data |-> Words("I2CWW", "i2cWriteWordData"),
  i2c_read_byte_data |-> Asks("I2CRB", "i2cReadByteData"),
  i2c_read_word_data |-> Asks("I2CRW", "i2cReadWordData"),
  i2c_process_call |-> Words("I2CPK", "i2cProcessCall"),
  i2c_write_block_data |-> Sends("I2CWK", "i2cWriteBlockData"),
  i2c_read_block_data |-> Fetches("I2CRK", "i2cReadBlockData"),
  i2c_block_process_call |-> Exchanges("I2CPK", "i2cBlockProcessCall")]

BlockCalls == [
  i2c_read_i2c_block_data |-> ClientCall("I2CRI", "word", "bytes", "i2cReadI2CBlockData"),
  i2c_write_i2c_block_data |-> Sends("I2CWI", "i2cWriteI2CBlockData"),
  i2c_read_device |-> Fetches("I2CRD", "i2cReadDevice"),
  i2c_write_device |-> Sends("I2CWD", "i2cWriteDevice"), i2c_zip |-> Exchanges("I2CZ", "i2cZip")]

BusCalls == [
  bb_i2c_open |-> Words("BI2CO", "bbI2COpen"), bb_i2c_close |-> Asks("BI2CC", "bbI2CClose"),
  bb_i2c_zip |-> Exchanges("BI2CZ", "bbI2CZip"),
  bb_spi_open |-> ClientCall("BSPIO", "fiveWords", "value", "bbSPIOpen"),
  bb_spi_close |-> Asks("BSPIC", "bbSPIClose"), bb_spi_xfer |-> Exchanges("BSPIX", "bbSPIXfer"),
  spi_open |-> Words("SPIO", "spiOpen")]

SpiSerialCalls == [
  spi_close |-> Asks("SPIC", "spiClose"), spi_read |-> Fetches("SPIR", "spiRead"),
  spi_write |-> Sends("SPIW", "spiWrite"), spi_xfer |-> Exchanges("SPIX", "spiXfer"),
  serial_open |-> Sends("SERO", "serOpen"), serial_close |-> Asks("SERC", "serClose"),
  serial_write_byte |-> Asks("SERWB", "serWriteByte"),
  serial_read_byte |-> Asks("SERRB", "serReadByte"), serial_write |-> Sends("SERW", "serWrite"),
  serial_read |-> Fetches("SERR", "serRead"),
  serial_data_available |-> Asks("SERDA", "serDataAvailable")]

FileCalls == [
  custom_1 |-> Sends("CF1", "gpioCustom1"), custom_2 |-> Exchanges("CF2", "gpioCustom2"),
  get_pad_strength |-> Asks("PADG", "gpioGetPad"),
  set_pad_strength |-> Asks("PADS", "gpioSetPad"), shell_ |-> Sends("SHELL", "shell"),
  file_open |-> Sends("FO", "fileOpen"), file_close |-> Asks("FC", "fileClose"),
  file_write |-> Sends("FW", "fileWrite"), file_read |-> Fetches("FR", "fileRead"),
  file_seek |-> Words("FS", "fileSeek"), file_list |-> Exchanges("FL", "fileList")]

EventCalls == [
  bsc_xfer |-> Exchanges("BSCX", "bscXfer"), event_trigger |-> Asks("EVM", "eventTrigger")]

if2Calls == OutputCalls @@ WaveCalls @@ ScriptCalls @@ I2CCalls @@ BlockCalls @@ BusCalls
            @@ SpiSerialCalls @@ FileCalls @@ EventCalls

-----------------------------------------------------------------------------
(* pigpiod_if.c *)

Lacks(table, functions) == [f \in DOMAIN table \ functions |-> table[f]]

ifOutputCalls == OutputCalls
ifWaveCalls == Lacks(WaveCalls, {"wave_create_and_pad", "wave_send_using_mode", "wave_tx_at"})
ifScriptCalls == Lacks(ScriptCalls, {"update_script"})
ifI2CCalls == I2CCalls
ifBlockCalls == BlockCalls
ifBusCalls == Lacks(BusCalls, {"bb_spi_open", "bb_spi_close", "bb_spi_xfer"})
ifSpiSerialCalls == SpiSerialCalls
ifCustomCalls == [f \in {"custom_1", "custom_2"} |-> FileCalls[f]]

ifCalls == ifOutputCalls @@ ifWaveCalls @@ ifScriptCalls @@ ifI2CCalls @@ ifBlockCalls
           @@ ifBusCalls @@ ifSpiSerialCalls @@ ifCustomCalls

-----------------------------------------------------------------------------
(* pigs.c, which sends what cmdParse read *)

pigsCalls ==
  [c \in DOMAIN cmdInfo |->
     ClientCall(c, Parsed(cmdInfo[c].vt), IF c \in get_extensions THEN "bytes" ELSE "value",
          myDoCommand[c].runs)]
=============================================================================
