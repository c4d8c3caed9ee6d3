--------------------------- MODULE MCPigpioCalls ---------------------------
(* The parts of pigpio that calls of the API work on, side by side for TLC:
   outputs (alone, and as the driver uses them), waveforms, wave chains, the pulses
   of characters and their merging, handles, buses and what goes over them, two
   scripts that wait for GPIO, what a script computes, events, the lock file, and
   the callbacks of a client.  They share no state, so a behaviour runs one of them,
   which `family` names, and leaves the others as they begin.                  *)
EXTENDS Hardware, Waves, WaveChain, Handles, SpiBus, I2cDevice, BitBang, Scripts,
        ScriptLanguage, Events, LockFile, ClientCallbacks

CONSTANT Families
VARIABLE family

MCPWMDef == [g \in {18, 19} |-> g - 18]
MCclkDef == [g \in {4} |-> 0]
MCAlt == [g \in {4, 18, 19} |-> "alt"]
MCCycles == [i \in 1..2 |-> i]

Need(c, b, t) == [cb |-> c, bool |-> b, tool |-> t]
MCShapes == {Need(2, 1, 0), Need(3, 1, 1)}
MCPads == {Need(3, 2, 2), Need(3, 3, 2)}

W(id) == <<[cmd |-> "wave", id |-> id]>>
B == <<[cmd |-> "begin"]>>
E(n) == <<[cmd |-> "end", n |-> n]>>
D(n) == <<[cmd |-> "delay", n |-> n]>>
F == <<[cmd |-> "forever"]>>
\* Loops whose counts need one, two and three digits, nested loops with and
\* without delays, also of no CB and of more than one, loops that begin with a
\* delay, and every way a chain is refused.
MCPrograms ==
  {B \o W(1) \o E(n) \o W(2) : n \in 0..8}
  \union {B \o W(1) \o B \o W(2) \o D(1) \o E(n) \o E(m) : n, m \in 0..4}
  \union {B \o B \o W(1) \o E(n) \o E(m) \o W(1) : n, m \in 0..3}
  \union {B \o D(d) \o W(1) \o E(n) \o W(2) : n \in 0..2, d \in 0..2}
  \union {B \o D(1) \o B \o D(d) \o W(1) \o E(n) \o E(m) : n, m \in {0, 2}, d \in 0..2}
  \union {B \o B \o D(1) \o W(1) \o E(n) \o E(m) : n, m \in {0, 2}}
  \union {W(1) \o B \o W(2) \o B \o W(1) \o E(2) \o F, B \o D(1) \o W(1) \o F,
          D(1) \o B \o W(2) \o W(2) \o E(3), B \o W(1), W(3), E(2), B \o E(2), F \o W(1),
          B \o W(1) \o F \o W(1), B \o B \o B \o W(1), B \o W(1) \o E(2) \o E(3),
          B \o D(0) \o E(2), D(4) \o D(4), D(4) \o D(3), B \o D(2) \o E(0) \o F,
          B \o W(1) \o E(2) \o B \o W(1) \o E(3) \o B \o W(1) \o E(2),
          W(1) \o W(1) \o W(1) \o W(1) \o W(1) \o W(1) \o W(1) \o W(1) \o W(1)}

Pulse(d, t) == [does |-> d, usDelay |-> t]
MCPulses == {Pulse({"a1"}, 1), Pulse({"a0"}, 2), Pulse({"b1", "read"}, 0)}

Key(kind, n, edge, waits) ==
  [pi |-> 0, kind |-> kind, n |-> n, edge |-> edge, waits |-> waits]
MCKeys == {Key("gpio", 1, 2, FALSE), Key("gpio", 0, 1, FALSE), Key("gpio", 1, 0, TRUE),
           Key("event", 1, 2, FALSE)}

MCTexts == {<<c>> : c \in 0..7} \union {<<c, d>> : c \in {0, 2, 5, 7}, d \in {1, 2, 7}}
           \union {<<3, 6, 1>>}
MCTransfers ==
  {t \in [clk_pol : 0..1, clk_pha : 0..1, ss_pol : 0..1, clk_us : {2}, ss_us : {1, 3},
          offset : {0, 5}, bits : 1..3, first : 1..3, last : {2, 3},
          sent : {<<0>>, <<1>>, <<1, 0>>, <<0, 1>>, <<1, 1, 0>>, <<0, 1, 1>>, <<1, 0, 1>>}] :
     t.first <= t.last /\ t.last <= t.bits}

MCFifos == [main |-> 2, aux |-> 4]
MCBlocks == {<<>>, <<1, 5>>, <<1, 5, 6>>}
ZipOp(op, n, esc, data) == [op |-> op, n |-> n, esc |-> esc, data |-> data]
MCLists ==
  [1..3 -> {ZipOp(COMBINED_ON, 0, FALSE, <<>>), ZipOp(COMBINED_OFF, 0, FALSE, <<>>),
            ZipOp(ADDR, 2, FALSE, <<>>), ZipOp(ADDR, 3, TRUE, <<>>),
            ZipOp(FLAGS, 9, FALSE, <<>>), ZipOp(READ, 0, FALSE, <<>>),
            ZipOp(READ, 2, FALSE, <<>>), ZipOp(READ, 1, TRUE, <<>>),
            ZipOp(WRITE, 2, FALSE, <<6, 0>>), ZipOp(WRITE, 1, TRUE, <<1>>)}]

\* Chip selects with every mode on one bus, one that names two buses, and other users.
FlagsOf(a, b, c, d, e) == [CPHA |-> a, CPOL |-> b, CSPOL |-> c, TX_LSB |-> d, RX_LSB |-> e]
OpenSpi(cs, miso, mosi, sclk, f) ==
  [kind |-> "spi", cs |-> cs, miso |-> miso, mosi |-> mosi, sclk |-> sclk, flags |-> f]
MCOpens ==
  {OpenSpi(1, 3, 4, 5, FlagsOf(a, b, b, a = 1, a = 0)) : a \in 0..1, b \in 0..1}
  \union {OpenSpi(2, 3, 4, 5, FlagsOf(0, 1, 0, FALSE, FALSE)),
          OpenSpi(9, 6, 7, 8, FlagsOf(1, 0, 0, FALSE, FALSE)),
          OpenSpi(9, 3, 4, 8, FlagsOf(1, 0, 0, FALSE, FALSE)),
          [kind |-> "i2c", sda |-> 3, scl |-> 2], [kind |-> "i2c", sda |-> 6, scl |-> 8],
          [kind |-> "serial", gpio |-> 7]}

callsVars == <<family, hardwareVars, wavesVars, chainVars, mergeVars, built, handleVars,
               spiVars, fifoVars, i2cDeviceVars, i2cVars, busVars, scriptVars, languageVars,
               eventVars, lockVars, callbackVars>>

MCFuncs == {Abilities, Abilities \ {"PROC_CALL", "QUICK", "WRITE_WORD_DATA"}}

CallsInit ==
  /\ family \in Families
  /\ HardwareInit /\ WavesInit /\ MergeInit /\ BitsInit /\ HandlesInit /\ SpiInit
  /\ FifosInit /\ I2cInit /\ BusesInit /\ ScriptsInit /\ EventsInit
  /\ LanguageInit /\ (family = "language" \/ buf = 0)
  /\ (family = "scripts" \/ caller = <<"idle", 0>>)
  /\ LockInit
  /\ I2cDeviceInit /\ funcs \in IF family = "smbus" THEN MCFuncs ELSE {Abilities}
  /\ CallbacksInit /\ level = {}
  /\ family = "callbacks" => library = "if2"
  /\ family \notin {"callbacks", "events"} => library = "if"
  /\ ChainInit /\ (family = "chain" \/ program = W(3))

\* The pulses of the watched GPIO, with every range and frequency, while the others
\* and the waveforms rest; and all of the outputs, at one range and frequency.
PulsesOnly == ~waveBusy' /\ \A g \in Gpios \ WatchedPins : gpio'[g] = gpio[g]
RatesKept ==
  \A g \in Gpios : gpio'[g].range = gpio[g].range /\ gpio'[g].freqIdx = gpio[g].freqIdx

\* Callbacks for the edges of two GPIO, on a connection that is not lost, with two
\* reports at most that are not done with, read whole; and, in both libraries, waits for
\* the edges and the watchdog of one, and an event, with three reports, read in parts.
GpioCallbacks == /\ \A p \in callbacks' \union linked' : p.kind = "gpio" /\ ~p.waits
                 /\ \A pi \in Pis : /\ connection'[pi].up = connection'[pi].inUse
                                    /\ Len(buffer'[pi]) % 2 = 0
                                    /\ Own(pi)' + Len(stream'[pi]) <= 4
                                    /\ \A k \in DOMAIN stream'[pi] :
                                         stream'[pi][k].report.kind = "levels"
EventCallbacks == /\ \A p \in callbacks' \union linked' : p.kind = "event" \/ p.waits
                  /\ level' \ {1} = level \ {1}

\* The transfer without a start, after which nothing is looked at, is one of a kind.
OneStray == stray' => job'.data = <<>> /\ job'.room

\* The opens and closes of the bit-banged buses, and the exchanges on one of them.
OpensOnly == xfer' = NoXfer
OneBus == \A g \in 6..9 : use'[g] = "none"

\* Programs: every three instructions of a set that jumps, calls and uses the stack;
\* the same as what a tag is called for; and two instructions that compute, in a loop.
Num(n) == [kind |-> "num", n |-> n]
Var(n) == [kind |-> "var", n |-> n]
Par(n) == [kind |-> "par", n |-> n]
Op0(op) == [op |-> op, x |-> [kind |-> "-", n |-> 0], y |-> [kind |-> "-", n |-> 0]]
Op1(op, x) == [Op0(op) EXCEPT !.x = x]
Op2(op, x, y) == [Op1(op, x) EXCEPT !.y = y]
Control == {Op1("TAG", Num(1)), Op1("TAG", Num(2)), Op1("JMP", Num(1)), Op1("JNZ", Num(2)),
            Op1("CALL", Num(2)), Op0("RET"), Op0("PUSHA"), Op0("POPA"), Op0("INRA"),
            Op0("HALT"), Op1("READ", Num(1))}
Data ==
  {Op1(op, Var(0)) : op \in {"ADD", "SUB", "AND", "OR", "XOR", "MLT"}}
  \union {Op1(op, Num(0)) : op \in {"INR", "DCR", "POP", "PUSH", "STA", "XA"}}
  \union {Op1(op, Par(0)) : op \in {"MOD", "DIV", "RLA", "RRA", "CMP", "LDA", "LDAB", "STAB"}}
  \union {Op2("LD", Par(0), Var(0)), Op2("RL", Var(0), Num(1)), Op2("RR", Par(0), Num(1)),
          Op2("X", Par(0), Var(0)), Op0("DCRA"), Op0("NOP"), Op2("WRITE", Num(0), Var(0)),
          Op1("STA", Var(1)), Op1("ADD", Par(2)), Op1("WAIT", Num(1))}
Tag1 == Op1("TAG", Num(1))
ProgramTexts ==
  [1..3 -> Control]
  \union {<<Tag1, b>> \o t : t \in [1..3 -> Control], b \in {Tag1, Op1("CALL", Num(2))}}
  \union {<<Tag1, a, b, Op1(j, Num(1))>> : a, b \in Data, j \in {"JM", "JP", "JZ"}}
GivenParams == {<<>>, [r \in {<<"par", 0>>} |-> 1]}

\* A program is stored and run, while what it does is determined.
ProgramNext ==
  \/ source = <<>> /\ \E text \in ProgramTexts : StoreText(text)
  \/ cpu.run_state = "INITING" /\ \E p \in GivenParams : RunProgram(p)
  \/ ~wild /\ Instruction

\* The events of users alone, and those of the BSC.
UsersTrigger == bsc'.tx = <<>> /\ bscCall'.tx = 0 /\ moved'.sent <= 1
BscOnly == due' = {} /\ looking' = looking

\* The waveforms stop once one on the air is deleted, the SPI calls once a close
\* overlaps another call, the bit-banged I2C once the device held the clock for too
\* long, was left while it gives a byte or was spoken to without a start, the scripts
\* once two compute the monitored bits, the events once one is lost, the callbacks once
\* threads go by each other's count of bytes or one was registered before its
\* connection: what follows is beyond what their properties say.
CallsNext ==
  /\ UNCHANGED family
  /\ \/ family = "pulses" /\ OutputsNext /\ PulsesOnly /\ UNCHANGED calls
     \/ family = "outputs" /\ OutputsNext /\ RatesKept /\ UNCHANGED calls
     \/ family = "driver" /\ HardwareNext
     \/ family \notin {"pulses", "outputs", "driver"} /\ UNCHANGED hardwareVars
  /\ IF family = "waves" THEN ~waveGone /\ WavesNext ELSE UNCHANGED wavesVars
  /\ IF family = "chain" THEN ChainNext ELSE UNCHANGED chainVars
  /\ IF family = "merge" THEN MergeNext ELSE UNCHANGED mergeVars
  /\ IF family = "pulses of bits" THEN built = [call |-> "none"] /\ BitsNext
     ELSE UNCHANGED built
  /\ IF family = "handles" THEN HandlesNext ELSE UNCHANGED handleVars
  /\ IF family = "spi" THEN ~crossed /\ SpiNext ELSE UNCHANGED spiVars
  /\ IF family = "fifos" THEN FifosNext ELSE UNCHANGED fifoVars
  /\ \/ family = "smbus" /\ DeviceNext
     \/ family = "segments" /\ zip.status \in {"none", "goes on", "ends"} /\ ZipNext
     \/ family \notin {"smbus", "segments"} /\ UNCHANGED i2cDeviceVars
  /\ IF family = "bit-bang" THEN ~overdue /\ ~abandoned /\ ~stray /\ I2cNext /\ OneStray
     ELSE UNCHANGED i2cVars
  /\ \/ family = "buses" /\ BusesNext /\ OpensOnly
     \/ family = "exchange" /\ BusesNext /\ OneBus
     \/ family \notin {"buses", "exchange"} /\ UNCHANGED busVars
  /\ IF family = "scripts" THEN ~collided /\ ScriptsNext ELSE UNCHANGED scriptVars
  /\ IF family = "language" THEN ProgramNext ELSE UNCHANGED languageVars
  /\ \/ family = "triggers" /\ ~missed /\ EventsNext /\ UsersTrigger
     \/ family = "bsc" /\ ~missed /\ EventsNext /\ BscOnly
     \/ family \notin {"triggers", "bsc"} /\ UNCHANGED eventVars
  /\ IF family = "lock" THEN LockNext ELSE UNCHANGED lockVars
  /\ \/ family = "callbacks" /\ ~torn /\ ~leftOver /\ CallbacksNext /\ GpioCallbacks
     \/ family = "events" /\ ~torn /\ ~leftOver /\ CallbacksNext /\ EventCallbacks
     \/ family \notin {"callbacks", "events"} /\ UNCHANGED callbackVars

CallsSpec == CallsInit /\ [][CallsNext]_callsVars

\* The driver's calls of pigpio do to the pins of the slot only what module
\* CardPins allows, whatever the transport does next and wherever it stops.
PinsKept ==
  /\ Pins!CardPinsInit
  /\ [][family = "driver" => [Pins!CardPinsNext]_Pins!cardPinsVars]_callsVars

\* What the modules state, each in the families that run it.
Runs(families, P) == family \in families => P
ProgramsKept == Runs({"language"}, LanguageKept)

\* What happened is told to those who asked for it, and nothing else is: the events
\* of users and of the BSC peripheral, and the edges and events of a client.
ReportsReachUsers ==
  /\ Runs({"triggers", "bsc"}, EventsKept)
  /\ Runs({"callbacks", "events"}, CallbacksKept)

\* Slots, descriptors and pins: every handle has its own, the pins of a bus are
\* switched over exactly while there are handles for it, and a GPIO is on one bus.
DevicesKept ==
  /\ Runs({"handles"}, HandlesKept) /\ Runs({"spi"}, SpiModesKept)
  /\ Runs({"buses", "exchange"}, OneBusEach /\ ModesGivenBack)

\* What goes over a bus or a wire arrives as it was sent, and in its order, both ways:
\* on a bit-banged I2C bus and a bit-banged SPI bus, through the FIFOs of the SPI
\* devices, by the calls of an I2C handle, and as the pulses of a waveform.
TransfersArrive ==
  /\ Runs({"bit-bang"}, BusKept) /\ Runs({"exchange"}, BytesExchanged)
  /\ Runs({"fifos"}, WordsExchanged) /\ Runs({"smbus", "segments"}, TransfersKept)
  /\ Runs({"pulses of bits"}, WireCarriesBits)
=============================================================================
