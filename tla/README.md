# Verification of rtuartscreader in TLA+

rtuartscreader is an IFD handler for pcscd that drives a smart card over a UART
of a Raspberry Pi: the I/O contact of the card is on the serial port (so that
every byte written is read back as an echo), its RST and CLK contacts are on two
GPIO driven through pigpio, which is part of the repository. This directory holds
TLA+ models of both, TLC configurations that check them on small instances, and
proofs that TLAPS checks for all instances.

Paths are relative to `src/rtuartscreader/` or `src/pigpio/`; `pigpio.c:N` is
line N of `src/pigpio/pigpio.c`.

1. Inventory · 2. Modules · 3. Runs · 4. Proofs · 5. What the code does that it
should not · 6. Not modelled · 7. Plan

## 1. Inventory

### The driver

| Part | State | Operations | Talks to |
|---|---|---|---|
| IFD handler, `ifdhandler.c` | none of its own | `IFDHCreateChannelByName`, `IFDHCloseChannel`, `IFDHPowerICC`, `IFDHTransmitToICC`, `IFDHICCPresence`, `IFDHGetCapabilities`, and calls that are not supported | pcscd above; table and reader below |
| Reader table, `reader_list.c` | `gReaderList`, 32 entries of (initialized, Lun, reader) | allocate, look up, free | one `Reader` per entry |
| Reader, `reader.c` | power, presence, cached ATR and its length, transport | open, close, reset, power off, transmit, test of presence | transport, reset, T=0 |
| Opening the transport, `transport/initialize.c` | handle and parameters; termios of the port | open, set up, reinitialise, close | serial port, hardware |
| Reset, `transport/reset.c` | local | RST down, port and clock to defaults, RST up, ATR, protocol, F and D, PPS, port and clock to what was agreed; once more for a card that asks for it | hardware, ATR, PPS, tables |
| ATR, `iso7816_3/atr.c` | bytes, offset of every interface byte by kind and level | read, parse | byte transport |
| PPS, `iso7816_3/pps.c` | request and response | exchange, verdict | byte transport |
| Tables, `iso7816_3/utils.c`, `f_d_index.c`, `transport/transmit_params.c` | constants | F, D, highest clock, waiting time | reset |
| Bytes, `transport/sendrecv.c` | receive queue of the port | send a byte and drop its echo, receive a byte within VTIME | serial port, card |
| T=0, `iso7816_3/apdu_t0.c`, `utils/buffer_view.c` | two buffer views | one command: header, what the procedure bytes ask for, SW1 SW2 | byte transport |
| Hardware, `hardware/configuration/pigpio/hardware.c` | RST pin, clock pin | initialise, RST, start and stop the clock | pigpio |

### pigpio

| Part | State | Operations | Talks to |
|---|---|---|---|
| Outputs | `gpioInfo`, the plan of the DMA cycle, mode, latch, hardware clock and PWM | mode, write, PWM, servo, `gpioHardwareClock`, `gpioHardwarePWM` | DMA engine, PWM and clock peripherals |
| Waveforms and chains | `wf`, `waveInfo`, blocks of control blocks and levels, counters of a chain | add pulses, characters and SPI words; create, delete, clear, send, chain | DMA engine |
| Device handles | slots of `i2cInfo`, `serInfo`, `fileInfo`, `spiInfo`; pins of the SPI devices; an I2C handle's flags | open, use, close; SMBus calls, `i2cZip`, SPI transfer | kernel, devices, SPI FIFOs |
| Bit-banged buses | `wfRx` of each GPIO | open and close I2C, SPI and serial; `bbI2CZip`, `bbSPIXfer`; the serial decoder and its ring | devices, alert thread |
| Life of the library | `libInitialised`, `runState`, threads, timers, interrupts, the lock file; register blocks and the memory of the DMA engine | `gpioInitialise`, `gpioTerminate` | other processes; kernel and firmware, for memory |
| Samples | the ring of control blocks, levels and ticks; the alert thread's place in it | the engine's blocks; `dmaNowAtICB`, the first loop of `pthAlertThread` | DMA engine |
| Notifications and alerts | `gpioNotify` slots, pipes and sockets, filters, watchdogs, samples | open, begin, pause, close; the alert thread's passes | scripts, callbacks, clients |
| Events and the BSC slave | `eventAlert`, `fired`, `ignore`, the BSC FIFOs | trigger, tell, `bscXfer` | alert thread, an I2C master |
| Scripts | `gpioScript` slots, their program, variables, stack, waits | store, run, stop, delete; a thread each | alert thread |
| Commands | none | parse, dispatch, reply | socket, pipe |
| Client libraries and `pigs` | a socket, a mutex, lists of callbacks, last levels | every function of the API as a command; callbacks and waits | daemon |

### What is hard about it

- **The card is not seen.** There is no detect contact. Presence is tested by a
  reset, which a reader that is powered and present is spared; so power,
  presence and the ATR are three beliefs set by different calls.
- **A reset takes seconds and may give up anywhere**, and what it has done by
  then (to the port, the clock, the card, the cached ATR) stays.
- **The echo.** Nothing marks a byte as an echo. One byte too many or too few on
  the line and every byte after it is taken for something else.
- **The card leads.** In T=0 the card says, byte by byte, whether to send,
  receive, wait or stop, and the driver keeps three counters over any sequence of
  these; in the ATR every byte says what follows.
- **Arithmetic at limits.** A length of zero is 256, F / D is not exact, a
  waiting time is eight bits of tenths of a second; a ring, a plan of levels and
  a chain's counters have their ends.
- **pigpio is threads without a plan for them.** The slots of most tables are
  reserved under a mutex and everything after runs unlocked; the alert thread,
  the socket handlers, the scripts and the API's callers share records of which
  some fields are guarded and some are not; `gpioTerminate` cancels threads that
  cannot be cancelled everywhere.
- **The DMA engine reads memory that calls rewrite**, and plays on; it stores
  samples whether or not anybody has taken the old ones, and its memory is pages
  that are mapped twice, or the firmware's, that no exit of the process frees.
- **Descriptors and slots are reused**, so what was closed too early is soon
  somebody else's.
- **One connection for all threads of a client**, and nothing in a reply says
  whose it is.

Threads are no difficulty of the driver itself: it answers 0 to
`TAG_IFD_THREAD_SAFE` and `TAG_IFD_SLOT_THREAD_SAFE`, so pcscd makes one call at a
time. Calls are steps; cards come and go between them. Nothing is persisted.

What makes each part correct is stated by the properties of section 3, and the
hazards that they are for are listed in `PROJECT.json`, each at its line.

## 2. Modules

```
driver
  CardReset          what one reset may leave behind (the contract)
    ReaderSession    every IFD call, the table, readers, hardware, slot
    ResetProcedure   the reset line by line, with the card: implements the contract
  SpeedSelection     F, D, clock and time-out from TA1 and TC2
  T0Exchange         one T=0 command after another on an open line
    T0Link           the same with a card, and a caller, at the ends: a refinement
  AtrReader          the answer to reset, byte by byte
    PpsExchange      the PPS exchange after it
  Hardware           the hardware layer's calls of pigpio, on Outputs
    CardPins         what it promises of the two pins (refined by Hardware)
pigpio, calls                         pigpio, threads
  Outputs    modes, PWM, servo, clock   Library        start and stop of the library
  Waves      pulses, blocks, sending    DmaMemory      memory of the DMA engine
  WaveChain  chains and their counters  LockFile       between processes
  Handles    slots and descriptors      Scripts        a script's thread and waits
  SpiBus     SPI slots, pins and FIFOs  ScriptLanguage parser and instructions
  I2cDevice  SMBus calls and i2cZip     Notifications  slots, pipes, connections
  BitBang    bit-banged buses           SamplingRing   levels and ticks from the engine
                                        Alerts         filters, watchdogs, reports
                                        Events         events and the BSC slave
                                        SerialRead     the serial decoder and ring
clients
  Commands                what each command and function is
  SocketLink              the shared connection
  ClientCallbacks         reports, edges, waits
MC*                  instances for TLC
*_proofs             theorems
```

**CardReset, ReaderSession, ResetProcedure.** `ReaderSession` has an action per
IFD call, each disjunct a way through it, and takes a whole reset as one step
whose outcome is in `transport_reset(line, dev, cache)` of `CardReset`, a set
with one group per point at which the code gives up. `ResetProcedure` has an
action per step of `do_transport_reset` and starts from every line, reader and
card; `ResetKept` says that it ends in that set. The two are composed by that
contract and not by running one inside the other. A set of transmission
parameters is one value (`Params`), be it in the reader, the port, the clock or
the card: that these agree is the question, not what they are. `mode` is the
rate a card is set to, `None` for one that has not been reset. Only
`WiredDevice` has the card on it. A card that is removed during a reset is not a
case of its own: a reset that then fails ends as one with the card removed right
after it, and one that goes through ends as if it was removed after the call.

**SpeedSelection** is `choose_best_f_d_indices`, iteration by iteration, and
`transmit_params_init`, over the tables of the code. The code computes clock
and frequency in double; for every entry of the tables the result is exactly
the integer `etu * baudrate`, and no frequency falls on a limit, so the model
uses integers. Waiting times are in units of 100 Hz to stay within TLC's
integers.

**T0Exchange, T0Link.** Between them every byte is an item in the queue of the
port. A byte is one of five classes, which is all that the loop over procedure
bytes looks at; data bytes may be of any class. It also carries what its sender
meant by it and the command it belongs to, which the code does not see and the
properties use. `T0Exchange` leaves the other end of the line open: any byte, any
time. `T0Link` puts a card of ISO/IEC 7816-3 there, which may be late, leave, or
lose what is written while it sends; reads and writes may fail; and the caller
either resets the reader after a command that failed or does not, which the code
leaves to pcscd. `OpenLine` says that `T0Link` implements `T0Exchange`.

**AtrReader, PpsExchange.** The card lays an answer out as the standard has it;
a byte carries its kind and level, which the code does not see, and the bits
the code looks at. `ReadInterfaceByte` is one `if (level_mask...)` of the loop,
`wanted` the bits not yet followed. The stores behind the arrays of offsets,
see `handshake_levels`, end the model. `PpsExchange` starts where an answer was
accepted, with what it left on the line in front of the echo of the request.

**Outputs, Hardware, CardPins.** `Outputs` has the registers that the DMA engine
replays each cycle (what is set at its start, what is cleared where) next to what
the calls answer about a GPIO; `Hardware` composes it with the order in which the
driver calls it, stopping at any call that fails; `CardPins` is the abstract
machine of the slot's two pins, and `PinsKept` the refinement.

**Waves, WaveChain.** `Waves` gives out control blocks from
one end and levels from both, as `waveOutBotCB`, `waveOutBotOOL` and
`waveOutTopOOL` do, reuses what was deleted, and lets the DMA engine load block
after block; `Ahead` is what it can still reach. A chain is compiled into control
blocks and counters, and `ChainPlaysProgram` runs them against the program they
stand for: an engine that loads one control block after the other, and does what each
says before it goes where that says. In `Waves` too, pulses are merged by time
(`Superposes`), and characters and SPI words become pulses that a receiver reads back
(`WireCarriesBits`).

**Handles, SpiBus, I2cDevice, BitBang.** A caller's open and close
are cut where the code lets others in: the slot is reserved, the descriptor
opened, configured, recorded, published; `Descriptors` are given lowest first, as
the kernel does. `SpiBus` asks whether the pins are in SPI mode exactly while
there are handles, from `spiAnyOpen` read outside the mutex, and how words move
through FIFOs of 2 and 4; `I2cDevice` has the registers behind the SMBus calls and
the lists of `i2cZip`, cut short anywhere and with segments that fail, run when the list
says so and after its last command; `BitBang` keeps the pins of the buses and goes pin by pin through the lists of
`bbI2CZip` with a device that stretches the clock and answers to its own address.

**Library, DmaMemory, LockFile.** One action per stage of `initInitialise` and of
`initReleaseResources`, threads that spin until the start is over, and the system
calls on the lock file, with death of the process at each. The write of the pid may
fail, which the code does not look at, and the pid of a dead process may become that
of any other (`ReusePid`), which `kill(pid, 0)` cannot tell from it. `Library` takes the
memory of the engine as one thing that is there or not; `DmaMemory` is what that
is: `space` says what each page of the process maps, a page of anonymous memory
or of the firmware's is a name that `dmaBus` and `dmaVirt` must agree on, and
each step of the start may fail. Other threads of the process map and open what
they like, and the engine may stop and be started again by the alert thread.

**Scripts, ScriptLanguage.** The thread of a script, its callers and the alert
thread that wakes it, over every field they share; what the script computes is
left open there, and is the subject of the second module: parser, registers,
flags, stack and jumps, instruction by instruction.

**SamplingRing.** The engine executes the blocks that `dmaInitCbs` lays out, at the
addresses it lays them out at, one after the other; what it stores is named by the
lap, the cycle and the pulse it is of. The alert thread takes samples as the first
loop of `pthAlertThread` does; `due` is what it should take next. The correction of
samples whose cycle came late, by the difference of two ticks, is left out, and so
is the thread's place after a restart of the engine, which the code itself says is
never executed.

**Notifications, Alerts, Events, SerialRead.** `Notifications` is the life of a
slot between the API, a connection and the alert thread, with pipes whose
descriptors are reused; `Alerts` takes one pass over some samples as a step and
holds filters, watchdogs, compaction and reports; `Events` has `fired` and
`ignore`, which nothing guards, and the BSC FIFOs; `SerialRead` the decoder, fed
with edges that are seen up to a quarter of a bit late.

**Commands, SocketLink, ClientCallbacks.** Three tables say what each
command of the daemon takes and gives (`pigpio.c`), what each function of the two
libraries and of `pigs` sends and reads, and what the header says it is for.
`SocketLink` runs such calls from several threads over one connection, and
`ClientCallbacks` the threads that tell reports to callbacks. There a thread goes
through the list callback by callback (`dispatch_notification`, `WalkOn`, `WalkEnds`)
while the client links callbacks in, fills them in and frees them, as no lock is in
the way; a callback that is freed under the thread, or that it comes to before it is
filled in, leads it to any callback further on (`GoAstray`).

**MC modules.** `MCT0`, `MCHandshake`, `MCReaderSession`,
`MCPigpioCalls` and `MCPigpioThreads` give constants their values and narrow what
is enumerated. Several of them hold parts that share no state; a behaviour then
runs one part, which the variable `family` names, and leaves the others as they
begin, so that the product of independent parts is not explored. A property of one
part says nothing in the families of another.

## 3. Runs

`tlc -config X.cfg M` for the module and the configuration that `PROJECT.json`
names. Five runs pass:

| Run | Families and bounds | Properties |
|---|---|---|
| `session` | 2 Luns on 2 devices, 2 entries, a card that negotiates and one that asks for a second reset and speaks no T=0, 3 parameter sets | `SessionKept` (the types and `OneReaderOwnsTheHardware`), `FreshChannel`, `PowerUpSynchronises`, `AgreementKept`, `OpenLeavesOthersAlone`; with fairness `CardChangesNoticed` |
| `link` | *open*: commands of 3 to 9 bytes, length bytes of 3 values, buffers of 2, 3 and 5, 2 unread bytes. *link*: the four cases of an APDU, up to 2 bytes of data and 3 of response, no fault or all | `ResponseFitsBuffer`, `CommandSentOnce`, `ResponseKept` (the types and `ResponseShape`), `InStep`, `TrueReports`, the refinement `OpenLine`, and `EveryCommandEnds` |
| `handshake` | *bytes*: up to 3 groups, a buffer of 9 bytes, 0 or 2 historical bytes, every fault of a check byte, replies wrong in at most one place. *speed*: all 256 values of TA1, five waiting times. *reset*: 3 cards, 3 parameter sets, every state of pins and clock, three of the port | `AtrFitsBuffer`, `OffsetsNameTheirBytes`, `SoundAnswersAccepted`, `AgreesWithCard`, `SpeedSuitsCard`, `ResetKept`, `ResetEnds` |
| `pigpio_calls` | 22 families, below | `OutputsAgree`, `PinsKept`, `WavesKept`, `ChainPlaysProgram`, `Superposes`, `DevicesKept`, `TransfersArrive`, `ScriptsKept`, `ProgramsKept`, `ReportsReachUsers`, `EdgesToldOnce`, `LockKept` |
| `pigpio_threads` | 12 families, below | `LibraryLetsGo`, `MemoryKept`, `NotificationsKept`, `SamplesKept`, `AlertsKept`, `CharactersAsSent`, `LinkKept`, `RequestsEnd` |

`pigpio_calls`, by property:

| Property | Family | What it asks | Bounds |
|---|---|---|---|
| `OutputsAgree` | pulses, outputs | the plan of the DMA engine is that of the width, range and frequency a GPIO answers; hardware PWM plays where it is answered; a waveform is paced | 4 GPIO, 2 of them with PWM channels and 1 clock; ranges 2 and 3 |
| `PinsKept` | driver | the driver's calls, wherever they stop, do to the pins what `CardPins` allows | the same GPIO |
| `WavesKept` | waves | waveforms lie apart and whole; the DMA engine reaches only blocks that were not given back | 5 control blocks, 5 levels, 3 waveforms |
| `ChainPlaysProgram` | chain | the compiled chain plays its program, and ends or loops as it does; of a loop that counts to 0 and begins with a delay, the first block of the delay (`chain_zero`) | 92 programs, loops that count to 0 and loops that begin with delays, of 0 too, among them; loops of one, two and three digits |
| `Superposes` | merge | merging adds the new pulses to the old at their times, or refuses and changes nothing | 5 pulses, 2 at a time |
| `DevicesKept` | handles, spi, buses, exchange | every handle has its own descriptor and none is lost; the pins of a bus are switched over exactly while it has handles, a GPIO is on one bus | 2 callers, 2 kinds of 2 slots, 3 descriptors; 2 SPI slots; 9 GPIO |
| `TransfersArrive` | bit-bang, exchange, fifos, smbus, segments, "pulses of bits" | what goes over a bus arrives as it was sent, both ways, with its refusals told | bytes of 2 and 3 bits, 6 words, blocks of 2, lists of 3 commands |
| `ScriptsKept` | scripts | a script's parameters outlive its thread; one that waits is monitored | 2 scripts, one thing to wait for |
| `ProgramsKept` | language | what the parser made of a text does what the text says, and stays within its variables, stack and program | every program of 3 control instructions, pairs of the others in a loop |
| `ReportsReachUsers`, `EdgesToldOnce` | triggers, bsc, callbacks, events | an event or edge is told to those who asked for it, once | 1 event and the BSC; 2 GPIO, one of them GPIO 0, 3 callbacks for them, one of a wait, and one for an event; 2 reports read whole, or 3 read in parts; 2 users |
| `LockKept` | lock | one process at a time uses the library, and one is refused only if it met another or a reused pid | 3 processes |

`pigpio_threads`, by property:

| Property | Family | What it asks | Bounds |
|---|---|---|---|
| `LibraryLetsGo` | library | joined threads never run without their memory; a library that is down holds nothing | 3 configurations |
| `MemoryKept` | memory | each page of the engine has one address and one bus address of the same held page while it runs; a library that is down has given everything back, whichever step failed; nothing of other threads is unmapped, mapped over or closed | 2 blocks of 2 pages, 5 areas, 2 handles of the firmware, 2 descriptors, 2 tries; other threads with 1 area and 1 descriptor |
| `NotificationsKept` | notify, monitor | reports reach the reader of their slot, gaps tell of loss, running slots are sampled, open pipes have an owner | 1 slot, 2 descriptors, 1 connection, 2 reports |
| `SamplesKept` | sampling | samples are taken in order, none twice and none left out, around the end of the ring, each with the tick of its own cycle | 3 cycles of 2 pulses on 3 pages, passes of 4 samples, 3 laps after the first |
| `AlertsKept` | listen, glitch, noise, wdog | who listens knows the level, what is shorter than the filter is not told, no watchdog fires early, a script that waits is woken by a change | 2 GPIO, passes of 2 samples |
| `CharactersAsSent` | serial | characters are put together as sent, and the ring gives each once | 2 bits, a ring of 3, 3 characters |
| `LinkKept` | calls | each thread reads its own reply to the last byte, and no thread that ends takes the mutex with it | 2 threads, replies of 1 and 3 bytes |
| `RequestsEnd` | library, script, notify, monitor, calls | what was begun ends, and a script that is told to stop halts | as above |

### Why the bounds are enough

- *session*: no behaviour of the code depends on more than one other Lun or one
  other card, and the third parameter set tells "fell back" from "never set".
  The second entry is what a table needs for reuse. The state space is finite
  without a bound on the number of calls.
- *link*: `MaxNe = 3` has the values the code treats apart: zero, the limit and
  one between. Two unread bytes are the most that matter: the driver takes one at
  a time, and never writes before it has read the echo, so that a stray byte and
  an echo are all that can stand before the next. Two numbers for commands tell a
  command from the one before.
- *handshake*: three groups give a first, a middle and a last level; nine bytes
  are room for some of these answers and not for others. `AtrReader_levels.cfg`, for
  `handshake_levels`, has the 33 bytes of the code. The tables of F and D are taken whole.
- *pigpio*: tables of two slots and three descriptors have a slot in use, one free
  and a descriptor that is reused; rings, plans and counters have the least sizes
  with an inside and both ends; programs are short, and every pair or triple of
  instructions is in one. Theorems (section 4) lift most of the tables, rings and
  threads to any size.

Some families end where a property has nothing more to say, because something has
happened that nothing in the code prevents and after which anything may follow.
The variable that ends them is a history variable of the module, and what happens
there is told in section 5: `waveGone` (a waveform on the air was deleted),
`crossed` (an SPI close overlapped another call), `overdue` and `abandoned` (the
bit-banged device held the clock for too long, or was left while it drives SDA),
`stray` (a list moved bytes without a START, or past a second one in a row),
`collided` (two scripts computed the monitored bits at once), `wild` (a data word
was popped as a return address), `missed` (an event was triggered between look and
clear), `torn` and `leftOver` (threads of a client went by each other's count of
bytes, after which they are not followed; a callback from before its connection),
`unseen` (a process started beside another that was starting, or that ran with a lock
file without its pid), `mingled` (two threads met on a
notification slot), `quiet` (no longer: another thread mapped memory or opened a
file while the library starts or stops), `overrun` (the engine has come round to
the cycle that is taken), `tickEarly` (a tick was read in the two blocks before it
is stored), `garbled` (an empty pass read what it may not) and `lapped` (a
character came while `gpioSerialRead` was between two statements). Two more only say
what a property excepts: `met` and `deceived` are the processes that a start met and
those that took a reused pid for a live owner. Three exceptions are places and not
histories: `EdgesToldOnce` claims nothing of a thread while it is astray in the list
of callbacks, of an edge from a level that the library was not told of, and, in
`pigpiod_if`, of GPIO 0, for whose watchdog any report that keeps the connection
alive is taken (`ForKeepAlive`). `callbacks_edges` is the run that shows the second.

`CHECK_DEADLOCK FALSE` stands where a procedure ends: a reset, a choice of speed, a
handshake, a family that has ended. `session` and `link` must not stop, and do not.

### Fairness

- *session*: pcscd polls every open reader (`WF(IFDHICCPresence)`), some client
  keeps asking for power (`WF(AnyPowerUp)`), and a poll that tests a working
  card does not fail every time (`SF(PollFinds)`). The first two are what pcscd's
  event loop and any application do; neither is a promise of the driver. How
  much the second matters is `session_removal`: without it a removal is never
  noticed. An insertion needs the third, as a reset may fail for reasons outside
  the driver.
- *link*, open: a read returns by VTIME with a byte or without one, a write
  returns. The time-out is renewed by every byte, so a card that sends NULL for
  ever holds the driver for ever: that is the premise of `CommandsEnd`. With a
  card: the same, and a card that goes on with a command sooner or later, however
  many NULL bytes it sends first (`SF(CardAnswers)`, strong because a full queue
  disables it again and again).
- *handshake*: `WF(ResetNext)`. Each read in a reset returns by VTIME.
- *pigpio_threads* (`ThreadsFairness`): every thread is scheduled, a call under way
  goes on, the alert thread makes its passes, and the daemon serves. Strong
  fairness only for the mutex of a client (`SF(pml(t))`), which its other threads
  take again and again; pthread mutexes promise no order, but the code has no
  loop that would starve one thread. The callers of the API are not fair: nobody
  has to call anything.

### Runs that end in a violation

The property is what a comment, a header or the interface says, the trace what the
code does.

| Run | What the code does |
|---|---|
| `session_removal` | `reader_power_off` keeps a reader powered when its reset fails, and `reader_is_present` believes a reader that is powered and present. A card removed while powered stays present until a power-up fails. |
| `session_atrcache` | The ATR bytes are copied early in a reset, their length is stored at its end. After a power-down that failed with another card in the slot, the two are of different cards. |
| `link_late` | After a command that timed out nothing empties the port; if no reset follows, the late answer is dropped as the echo of the next command, and the echo is read as an answer. |
| `speed_symbol` | `etu_periods` is the truncated F / D. For F = 372 and D = 32 or 64 the clock is 5.4 % or 14 % off, and these pairs are preferred. |
| `handshake_levels` | `read_atr` limits the bytes to 33 and not the levels, of which the arrays hold 30; an answer of T0 and 31 TDs has 31. |
| `callbacks_edges` | A client compares a report with levels it has not been told of lately: the first change of a GPIO after its callback was registered may not be told. |
| `chain_zero` | A loop that counts to 0 is skipped by redirecting the control block it begins with, which has done its own work by then: a delay at the beginning of the loop is played, "Skip the complete loop block" notwithstanding. |

## 4. Proofs

`tlapm M.tla` for the eight modules named here. Each theorem is about the
specification itself, for every value of the constants that satisfies the named
assumptions, which TLC evaluates in the runs.

| Theorem | Property | By |
|---|---|---|
| `ReaderSession_proofs!SessionKeptAlways` | `SessionKept` | `IInv` |
| `ReaderSession_proofs!ChannelsAreFresh`, `PowerUpsSynchronise` | `FreshChannel`, `PowerUpSynchronises` | `IInv` |
| `ReaderSession_proofs!AgreementLasts`, `OpeningHarmsNobody` | `AgreementKept`, `OpenLeavesOthersAlone` | `IInv`, `Configured` |
| `T0Link_proofs!BufferSafe`, `SentOnce`, `ResponseKeptAlways` | the three invariants of `T0Exchange` | `IInv`, `Accounts` |
| `T0Link_proofs!LinkImplementsExchange`, `LinkBufferSafe` | `OpenLine`, `ResponseFitsBuffer` | step by step |
| `T0Link_proofs!EndsInStep`, `ReportsAreTrue`, `EchoesAreOwn` | `InStep`, `TrueReports`, `EchoIsSynchronous` | `LInv` |
| `Handshake_proofs!AtrBufferSafe`, `NegotiationSafe` | `AtrFitsBuffer` | `AInv` |
| `Handshake_proofs!ResetKeepsContract` | `ResetKept` | `RInv` |
| `Outputs_proofs!OutputsAgreeAlways` | `OutputsAgree` | `OutputsInv` |
| `Outputs_proofs!DriverKeepsOutputs`, `DriverKeepsPins` | `OutputsAgree` of the driver's calls, and that these implement `CardPins` | `DriverInv` |
| `Calls_proofs!WavesKeptAlways` | `WavesKept` | `IInv` |
| `Calls_proofs!HandlesKeptAlways` | `HandlesKept`, a part of `DevicesKept` | `HandlesInv` |
| `Calls_proofs!SpiModesKeptAlways` | `SpiModesKept`, a part of `DevicesKept` | `SpiInv` |
| `Calls_proofs!WordsExchangedAlways` | `WordsExchanged`, a part of `TransfersArrive` | `FifosInv` |
| `Calls_proofs!BusesKeptApart` | `OneBusEach` and `ModesGivenBack`, parts of `DevicesKept` | `BusInv` |
| `Calls_proofs!EventsKeptAlways` | `EventsKept`, a part of `ReportsReachUsers` | `EventsInv` |
| `Library_proofs!LibraryLetsGoAlways` | `LibraryLetsGo` | `LibraryInv` |
| `Library_proofs!LockKeepsApart` | `LockKept` | `LockInv` |
| `Library_proofs!MemoryKeptAlways` | `MemoryKept` | `MemoryInv` |
| `Threads_proofs!ScriptsKeptAlways` | `ScriptsKept` | `ScriptsInv` |
| `Threads_proofs!NotificationsKeptUntilMet` | `NotificationsKept` | `NotificationsInv` |
| `Threads_proofs!CharactersAsSentAlways` | `CharactersAsSent` | `SerialInv` |
| `Threads_proofs!SamplesKeptAlways` | `SamplesKept` | `RingInv` |
| `Threads_proofs!GlitchesAlwaysIgnored` | `GlitchesAreIgnored`, a part of `AlertsKept` | `GlitchInv` |
| `SocketLink_proofs!LinkKeepsCallsApart` | `LinkKept` | `IInv` |
| `SocketLink_proofs!CallbacksKeptAlways` | `CallbacksKept`, the other part of `ReportsReachUsers` | `CallbacksInv` |
| `SocketLink_proofs!EdgesToldOnceAlways` | `EdgesToldOnce` | `CallbacksInv` |

How the arguments go, and why each invariant is what it is:

- **ReaderSession.** `IInv` is `TypeOK /\ OneReaderOwnsTheHardware`; neither is
  inductive alone. A reset writes the port of the reader's handle and reads it
  back into the outcome, which is typed only if an open reader has a device; and
  that a reset leaves RST driven needs `lib` of its line to be true, that is, that
  pigpio is initialised while a reader is open. `ResetTyped` and `SlotOutcome` say
  that every outcome of a reset is typed and leaves RST driven. `StepCases` says
  what a step can be (one that changes nothing but what it returns, a card that
  comes or goes, an opening that fails or succeeds, a closing, a call with a reset
  in it), and each action property is shown case by case. The last two need
  `Configured`, that an open reader is one of `Channels`, and
  `ChannelAssumption`, that two channels with one device have one Lun: without it
  they are false.
- **T0Exchange.** The safety invariants need each other and `Accounts`, which ties
  the counters to the place in the loop: only a burst has bytes reserved and not
  read; nothing has been received while command data is left; "ok" is set on the
  way out. That there always is room for SW1 and SW2, so that the two error
  returns of that branch are dead code, follows from it.
- **T0Link.** Each step is a step of `T0Exchange` or leaves its variables alone: a
  byte the card sends is an arrival, a reset is a `Flush`, or a stutter if the
  queue is empty. For `InStep` the invariant `LInv` says, for every pair of a place
  in the driver's loop and a phase of the card, what the queue holds and how the
  counters of the two are related (`Joins`); it holds while the line is clean. The
  hypotheses are `ISOCommands`, that a command with data has a length byte above
  zero, as the standard has it, and, for `ReportsAreTrue` and `EchoesAreOwn`,
  that the caller resets the card after an error (`ResetsAfterError`); `link_late`
  shows what happens otherwise.
- **AtrReader.** `AInv` adds the types of line, buffer and offsets, and how many
  bytes have been stored at each place. It holds up to the store that
  `handshake_levels` is about, where the model ends.
- **ResetProcedure.** `RInv` has one conjunct per step that says which group of
  outcomes of `CardReset` giving up there belongs to, and carries the original
  line and cache to compare with. That the procedure speaks at the card's rate
  until the end comes with it.
- **Outputs.** `OutputsInv` relates the plan to the width, range and frequency of
  each GPIO. Its hypothesis `OwnChannels` is that no two GPIO share a PWM channel,
  and boards have GPIO that do (12 and 18, 13 and 19): there one GPIO's call
  changes what another answers, see section 5. The driver uses one GPIO, so
  `DriverKeepsOutputs` and `DriverKeepsPins`, by `DriverInv`, need no such
  hypothesis.
- **Waves.** The invariant places waveforms in the order in which they were given
  out (`Before`) and each within what has been given out (`Within`); it says that
  the blocks of each are linked (`AllLinked`), that what the DMA engine can reach
  from its next block ends with live waveforms (`EndsLive`, `AheadLive`), until
  `waveGone`. `Ahead` is a least fixed point, so the proof shows closed sets and
  not a recursion. That the first fit a search chooses exists is by the least
  member of a set of naturals.
- **Handles.** `HandlesInv` says, for each place of a call, in whose hands a
  descriptor is: the call's, the slot's or nobody's. No two calls work on one slot
  (`CallsApart`), and no two descriptors are for one handle. Unlocked steps
  between the reservation and the publication are safe because of it.
- **SpiBus.** `SpiInv` says which slots a thread has to itself at each place of its
  call (`SlotsOwned`), and, until a close overlaps another call (`crossed`), that a
  close finds the slot as it left it (`ClosesAlone`), that whoever is between the
  modes and the slot, and every open slot, has the pins in SPI mode
  (`OpenInSpiMode`), and that calls on a device that came one at a time saved the
  modes from before the first (`OneAtATime`).
  `FifosInv` is about a transfer: the words are the numbers up to `go.tx`, one
  stretch of them in each place (`WordsThere`). The main device never finds its FIFO
  full because it stops (`MainWaits`); the auxiliary one does not stop, and four
  words of FIFO are enough only because `spiGoA` writes no word on top of three and
  reads one first if its look at the status, which is old by then, showed one
  (`AuxKeepsUp`). The hypothesis is that there are those four words.
- **BitBang.** `OneBusEach` compares cardinalities; `BusInv` says why they
  agree: SDA and SCL, and SCLK, MISO and MOSI, name each other one to one
  (`I2cPaired`, `SpiGrouped`), SCLK counts the chip selects that were opened for it,
  and the entry of SDA, of a chip select and of SCLK has the modes from before.
  That the count of an SCLK is one exactly when its last chip select closes is by
  cardinalities of finite sets.
- **Events.** `EventsInv`: a status of the BSC that the user does not know of is still
  before the alert thread (`StatusAhead`), also while `bscXfer` has taken the status
  and does not yet heed events again; an event that is due has not been looked at
  (`LookedIsTold`). Both hold until a trigger falls into the gap between the look and
  the clearing (`missed`), as the property does. The hypothesis is that the user does
  not trigger the event of the BSC, which `bscXfer` ignores while it works. That the
  FIFOs and the call together hold every byte once and in order is by sequences
  (`BytesInOrder`).
- **Library.** `LibraryInv` says what each stage has set by the time it is left,
  which threads are spinning, cancelled or joined, and that the memory is there
  as long as one of the joined threads is. `LockInv` follows the lock file through
  every system call, written or left empty, and through every reuse of a dead
  process's pid: the file is that of the process that uses the library or is about to,
  or of one that died (`FileOfUser`, `UserOfFile`), what a process has read of it still
  is so (`SeenIsCurrent`), and it removes no file but of one that died
  (`RemovesOfDead`). It holds until a process starts beside one
  that is starting too, or beside one that runs with a file without its pid
  (`unseen`): then both may run, see section 5.
- **DmaMemory.** `MemoryInv` says of each block what it has: nothing (`Blank`), its
  anonymous memory and a window that is partly mapped (`Zapping`), or every page in
  its place and held (`Done`). `Started` says which blocks are which at each step of a
  start, and that no two have the same memory; `Stopped` what is cleared at each step
  of a stop. That nothing is left behind wherever a start gave up needs no history of
  it: whatever is mapped, locked or open is named by a table or a descriptor
  (`SpaceKnown`, `FirmwareKnown`, `FilesKnown`), which is what the release goes by. That
  nothing is taken from the other threads is that no table names what is theirs
  (`AreasApart`, `FilesApart`); both need the others quiet during a start and a stop. That
  the mailbox's old number, unlike that of the pagemap, closes nobody's file is because
  the array of its blocks is mapped wherever it was opened (`FilesKnown`), so that the
  release opens it anew.
- **Scripts.** `ScriptsInv`: a script that stores its bits does so before it waits
  (`BitsAreSet`), one thread at a time computes the bits of all (`OneComputes`), and
  what it computed names every waiter (`ComputedNamesAll`), unless `collided`.
- **Notifications.** `NotificationsInv`: what each call holds at each place
  (`CallsHold`), that two builds are of two slots (`BuildsApart`), which slots are
  sampled (`SlotsReach`), what is left of a closing pipe, one slot per descriptor,
  and that the emitter's snapshot, gaps and counts fit the pipes. It holds up to
  the first overlap (`mingled`), exactly as the run uses the property. With the
  proof came a correction of the model that one slot had hidden:
  `closeOrphanedNotifications` compares with the descriptor of the caller's own
  slot (`pigpio.c:11959`), and `notify.fd` is set only when the slot is published
  (`12037`).
- **SamplingRing.** `RingInv`: what the engine has stored is of the lap in which it last
  was at that block (`LapOf`, `LevelsStored`, `TicksStored`), and different cycles and
  pulses have different places whatever fits on a page (`LevelsApart`, `TickPlaces`).
  The thread is less than a lap behind (`WithinLap`) and takes only from cycles which
  the engine has left (`Gone`), up to one that it has reached (`Reached`). It holds
  until the engine laps the thread (`overrun`) or a tick is read before it is stored
  (`tickEarly`), as the property does.
- **Alerts.** `GlitchInv` says that the clock of a glitch filter counts how long the
  level it reads has lasted, also while its GPIO is not monitored. Within a pass the
  filter is a recursive function of the samples: that it exists (`RunExists`), and that
  it keeps time at each of them (`ClockRuns`), is by the least number of samples for
  which it would not be so.
- **SerialRead.** While a character comes, `Heard` says that the bits before the
  current one have been put together and that the level has not changed since, and
  `ToCome` that the rest of it is on the line (`LevelOf` is the level of each bit);
  `BitFound` is the arithmetic: an edge up to a quarter of a bit late, seen from one that was,
  still falls to its own bit. `RingKept` says which places of the ring hold what
  was stored, and ends with `lapped`.
- **SocketLink.** `LinkInv` says that replies on the way belong to the call that
  holds the mutex, and how much of them is left. Hypotheses: `Shielded`, that a
  thread is not cancelled within a call, which `pigpiod_if2` ensures and
  `pigpiod_if` does not; and `FunctionsAgree`, that the functions used agree in
  what they send and read with what the daemon takes and gives. TLC evaluates the
  latter for the tables of both libraries and of `pigs`, as the assumption
  `FunctionsMatch`, without the three that are misdirected (section 5).
- **ClientCallbacks.** `CallbacksInv`: what the library believes it asked for is what
  there are callbacks for (`BitsKnown`), and the daemon has been told of it or is
  about to be (`DaemonTold`), until a connection starts with callbacks left over
  for it (`leftOver`). The halves of the reports of a connection, those in the buffer
  before those in the stream, take turns, are even in number and two by two of one
  report, and a slot that is not in use has none (`HalvesTakeTurns`); at most one
  callback belongs to a wait. `EdgesToldOnce` is an action property, proved step by
  step: what a callback is due is a function of the unread reports and of the levels
  seen before them (`DueIs`), preceded by the report that the thread walks the list
  with, as long as it has not left the callback behind. A dispatch moves the first
  unread report there (`DueAfterFirst`), a step of the walk takes it from the callback
  that the thread leaves, which it called, and from no other (`Moved`), and a report
  of the daemon adds one (`DueAppended`), which tells the callback what has happened
  to it (`Told`). It is for both libraries; that `pigpiod_if` has no callbacks for
  events, which it would take for watchdogs, is `NoEvents`.

Only model-checked, and why:

- every liveness property (`CardChangesNoticed`, `EveryCommandEnds`, `ResetEnds`,
  `RequestsEnd`): liveness under fairness and `ENABLED` are out of the provers'
  reach;
- what rests on a fold or a least number of steps over data:
  `OffsetsNameTheirBytes`, `SoundAnswersAccepted` and `AgreesWithCard` (the bytes of
  an answer are a fold over its groups), `ChainPlaysProgram`, `Superposes`,
  `TransfersArrive` and the parts of `AlertsKept` about what is told: the folds of
  the community modules take the operator they repeat as a parameter, which none of
  the installed provers can instantiate. `AtrAssumption` includes that `OnLine(a)`
  is a sequence of bytes for this reason; TLC evaluates it for the answers of the
  runs;
- `ProgramsKept`: the module uses `Bitwise`, which a proof may not reach;
- `SpeedSuitsCard`: the run is exhaustive in TA1, so that there is nothing to lift.

`ReportsReachUsers` and `DevicesKept` are proved part by part, each for the module
that states it.

## 5. What the code does that it should not

The runs that end in a violation show seven disagreements with a comment or a
header. Modelling met others. Most are where a family ends, an assumption that a
theorem names, or a stutter that a model allows; they are told here so that
nobody takes the properties to deny them.

**Driver.**

- `reader_transmit` leaves `*RxLength` as the caller passed it on early returns
  (`reader.c:85`), where `ifdhandler.h` asks for zero; a power-up that fails leaves
  `*AtrLength`.
- `TAG_IFD_SIMULTANEOUS_ACCESS` is answered with 32, and a second reader in the
  same process is refused by `gpioCfgInterfaces`.
- `reader_is_present` resets the card of a powered reader that no poll has seen yet,
  since power-up does not set presence (`reader.c:128`): against the comment at
  `reader.c:133`, a poll may break communication with the card.
- A power-down that failed leaves a powered reader with the default time-out.
- A second Lun configured with the same device would have its port set up before
  it is refused: `ChannelAssumption`.

**Outputs and waveforms.**

- GPIO 12 and 18, and 13 and 19, share a PWM channel: frequency 0 on one stops the
  other (`OwnChannels`). `gpioHardwareClock` leaves the PWM or servo plan and width
  of its GPIO behind.
- `gpioWaveCreate` and `gpioWaveCreatePad` never refuse for want of an id
  (`pigpio.c:9672`, `9791`), although `pigpio.h:1950-1951` and `1995-1996` say so;
  the sentinel of `pigpio.h:1992-1993` is not there; `gpioWaveTxSend` in a SYNC mode
  with the wave that plays loops it (`2070-2071`). `waveEndPtr` is stale after a
  delete, and a loop of count zero plays the delay it begins with (`chain_zero`). The idle pulse at the
  end of `gpioWaveAddSerial` is not passed on.

**Handles and buses.**

- `spiClose` reads the flags of its slot again after the slot may be another
  caller's (`crossed`).
- `bbI2COpen` and `bbSPIOpen` test and set `wfRx` without a lock, `bbSPIOpen` accepts
  the pins of different buses, `bbSPIClose` takes no lock, and `bbSPIXfer` writes the
  state of SCLK before it has the lock.
- `bbI2CZip`: a READ with no room, or of 0 bytes, after an address that was
  acknowledged leaves the device driving SDA (`abandoned`); WRITE goes on after a
  refusal and ignores the last one; a clock held for more than 100 ms is taken
  for free (`overdue`).
- `i2cZip`: a READ that exactly fills the buffer, and a WRITE at its very end, are
  refused; an error while segments are run at COMBINED still switches the flag;
  what was collected before an error is not run. `i2cBlockProcessCall` tests for
  the ability of a word process call.

**Life of the library.**

- `fdMbox` and `fdPmap` keep their numbers after they are closed (`pigpio.c:7690`,
  `7723`), and are closed again by number at the end (`8224-8234`): a file that
  another thread has opened since is closed (`reused`). The
  pages of the mailbox are unmapped twice (`8152-8155`, `2859`), and the window of a
  block is unmapped before its pages are mapped there with `MAP_FIXED` (`7554`,
  `7499`): what another thread maps in between is lost (`quiet`).
- `initZaps` and `mbDMAAlloc` do not look whether their mappings succeeded, the
  registers of the pads stay mapped, and memory of the firmware is lost if the mailbox cannot
  be opened at the end (`8177`, `lost`).
- The alert thread may start an engine that `gpioTerminate` has killed, between its
  look at `runState` and the start (`6340-6350`, `stalled`); its memory is freed then.
- Nothing tells the alert thread that the engine has overtaken it (`6367`,
  `overrun`): levels and ticks of different laps are mixed. A tick may be read
  before it is stored (`6390`, `tickEarly`), and is then that of the lap before. `dmaNowAtICB`
  looks at one page past the last (`5264`).

- `gpioSetTimerFunc` ignores that its thread did not start, and an interrupt
  thread that did not start is reported as a success. An interrupt that is
  removed in its own callback cancels itself.
- One `accept` that fails ends the socket interface (`pigpio.c:7214-7257`).
- Threads of connections, scripts and users survive `gpioTerminate`, against
  `pigpio.h:993-994`.
- Two processes may both get the lock if one starts beside another that is starting
  too, or beside one whose pid is not in its file (`unseen`): a pid that cannot be
  written is ignored (`pigpio.c:7315-7318`), the file stays empty, and the next start
  takes it for a stale one. A pid that was given to another process keeps a stale file
  in place (`deceived`): pigpio is refused though nobody uses it, where the
  FAQ says that a refusal means that the daemon runs.

**Scripts.**

- A script that deletes itself spins; the mutex of a deleted script stays
  locked; a slot is IN_USE before its thread id is stored (`pigpio.c:12626-12628`);
  FAILED is overwritten with HALTED; `scriptBits` is computed under different
  mutexes (`collided`). A run may be accepted and lost (`pigpio.c:12672-12674` and
  `6648-6649`, `AcceptedRunBegins`).
- NOP, CMDR and CMDW are in `cmdInfo` (`command.c:222-223`, `242`) and no case of
  the interpreter: a script that meets one spins. A plain number passes for a
  register, and `v-1` for a variable. The counter is tested after an instruction
  (`pigpio.c:6857`), so that an empty program executes a cleared entry. RET
  without a call goes to the first instruction, and an address that was data goes
  anywhere (`wild`).

**Notifications, alerts, events.**

- `gpioNotifyOpenWithSize` goes on at `pigpio.c:12045` with an index that may be
  another's by then; a failing `fcntl` keeps the descriptor; a slot may be left
  RUNNING without a reader; descriptors that are reused reach a slow opener's
  `closeOrphanedNotifications`; `intNotifyBits` and a sequence number may be
  overwritten late (`mingled`).
- `gpioSerialReadClose` frees its ring before it cancels the alert, and `readPos`
  is one past the end for a moment (`lapped`). An inverted reader does not know its
  time-out: 2 becomes 3 (`pigpio.c:3217`, `3223`).
- A level that is low in the first sample is untold, a filter that was paused goes
  on with its old state, a watchdog may be early in its first period, and a pass
  without samples reads the one before the first (`pigpio.c:6493`, `garbled`).
- An event that is triggered between look (`pigpio.c:5862`) and clear (`5879`) is
  lost (`missed`), and so is a change of the BSC status between `11068` and `11070`;
  `pigpio.h:951` and `4454-4455` know no such loss. `bscXfer` with control 0
  leaves `ignore` set.

**Clients.**

- Three functions send a command that is not theirs: `i2c_process_call`
  (`pigpiod_if2.c:1291`, `pigpiod_if2.h:2156-2157`), `event_trigger`
  (`pigpiod_if2.c:2125`, `pigpiod_if2.h:3753`) and `notify_pause`
  (`pigpiod_if2.c:835`, `pigpiod_if2.h:877`). They are the exceptions in
  `FunctionsAgree`.
- A function that reads bytes unlocks the mutex again after its command failed.
  `pigpiod_if` lets a thread be cancelled with the mutex held (`Shielded`). A start
  that fails keeps its slot in `pigpiod_if2`; `pigpiod_if` takes the report that
  keeps a pipe alive for a watchdog of GPIO 0 (`ForKeepAlive`). The daemon's FIFO prints nothing for BSCX
  (its switch on `cmdInfo[idx].rv` has no case 8).
- A callback that is cancelled under the thread that stands on it is freed memory for
  that thread, and the first of an empty list is linked in before it is filled in
  (`pigpiod_if2.c:436`): the thread may go anywhere (`GoAstray`), and an edge may
  not reach a callback further on that nobody cancelled.

## 6. Not modelled

- The stand-ins `hardware/configuration/dummy` and `pimpl`, logging, texts of
  errors, PCSC's headers, tests and examples, the daemon's `main`: they keep no
  state that anything above depends on.
- In the reset: the mode of the clock pin apart from its clock, the delay of 400
  clock cycles, `compute_extra_gt`, whose result nothing applies.
- In T=0: the length byte 0 in `T0Link` (it is in `T0Exchange`); historical bytes
  come in one step in `AtrReader`.
- In pigpio: pull-ups, pads, the rates of the clocks; the lexing of script text
  and of commands, and what the library commands that a script calls do; the
  values of arguments of commands; name look-up, time and error texts of clients;
  the options of `pigs`.
- The lock file is opened, read and removed without other errors, and by processes
  that run as root, as pigpio has to: `kill(pid, 0)` then fails only if there is no such
  process. Reading the file is one step with opening it.
- In a client: one thread registers, waits and cancels, as the lists have no lock
  against a second one. Of the thread that went astray, only that it comes back to
  the list further on; that it ends the process is no state that a property is about.
- The real range of hardware PWM, which follows from the clock of the peripheral
  (`hw_pwm_real_range`); no property compares it.
- Hazards in `PROJECT.json` with a note are covered in part: the note says what is
  only recorded by a history variable, or not modelled.
- Memory order: shared variables are read and written in steps of their own where
  the code does so without a lock, in one order for all threads.

## 7. Plan

Every module of the map is written. Of the safety properties that no theorem
states, those with a recursion over numbers could be proved as `GlitchesAreIgnored`
is, once their folds are written as recursive functions: the emission of `Alerts`,
which its other parts are about, is the nearest.

Until then what rests on a fold of the community modules stays with TLC.
