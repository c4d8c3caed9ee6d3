------------------------------ MODULE BitBang ------------------------------
(* The bit-banged buses of pigpio (src/pigpio/pigpio.c): first the I2C master, pin
   by pin, then wfRx[], which says what each GPIO is in use for, the functions that
   open and close I2C, SPI and serial buses, and the SPI transfer, pin by pin.

   The I2C master is on a bus with one device.  Both sides pull SDA and SCL low or
   let them float, and a line is high while nobody pulls it.  The master is what
   bbI2CZip makes of its commands; the device follows the rules of the bus: a change
   of SDA while SCL is high is a start or a stop, it takes a bit when SCL rises, sets
   SDA when SCL falls, and may then hold SCL low for a while.  A call runs commands
   until one of them fails, or at END or the end of the string.  `started` is kept
   from one call to the next, the address is not.                                *)
EXTENDS Integers, Sequences, FiniteSets, SequencesExt

CONSTANTS
  ByteBits,      \* the bits of a byte, the last of which is sent last
  DataBytes,     \* the bytes written and given
  Address,       \* the address of the device
  AddressesGiven, \* the addresses callers give
  MaxData        \* bytes of a command

ASSUME BitBangAssumption ==
  /\ ByteBits \in Nat \ {0, 1} /\ MaxData \in Nat \ {0}
  /\ DataBytes \subseteq 0..(2 ^ ByteBits - 1)
  /\ AddressesGiven \union {Address} \subseteq 0..(2 ^ (ByteBits - 1) - 1)

VARIABLES
  pulls,       \* the lines the master pulls low: "sda", "scl"
  started,     \* wfRx[SDA].I.started
  zipCall,     \* whether a call of bbI2CZip runs, and its addr
  todo,        \* what the function that executes has yet to do to the pins
  bits,        \* the bits it has read
  job,         \* the command that executes, and where it is
  status,      \* the status of the call, or what the last call returned
  told,        \* how the transfer after the last start ended
  put, taken,  \* the bytes the master has put, and taken, since the last start
  device,      \* what the device pulls, and where it is in a transfer
  heard, gave, \* the bytes it has heard, and given, since it saw a start
  overdue,     \* it held SCL for longer than the master waits
  abandoned,   \* the master left it where it gives a byte
  stray        \* a transfer went out that did not follow a start

i2cVars == <<pulls, started, zipCall, todo, bits, job, status, told, put, taken, device,
             heard, gave, overdue, abandoned, stray>>

NoJob == [do |-> "none", data |-> <<>>, count |-> 0, room |-> TRUE, n |-> 0]
NoZipCall == [running |-> FALSE, addr |-> 0]

I2cInit ==
  /\ pulls = {} /\ started = FALSE /\ todo = <<>> /\ bits = <<>>
  /\ zipCall = NoZipCall /\ job = NoJob /\ status = "ok" /\ told = "ok"
  /\ put = <<>> /\ taken = <<>>
  /\ device = [pulls |-> {}, mode |-> "idle", first |-> FALSE, n |-> 0, byte |-> 0]
  /\ heard = <<>> /\ gave = <<>> /\ overdue = FALSE /\ abandoned = FALSE /\ stray = FALSE

Pulled(m, d) == m \union d
SDA == "sda" \notin Pulled(pulls, device.pulls)
SCL == "scl" \notin Pulled(pulls, device.pulls)

----------------------------------------------------------------------------
(* The functions, as what they do to the pins; between two of these things there
   is time for the device.  "stretch" lets SCL float, "await" waits for it.    *)

set_SDA == <<"set_SDA">>
clear_SDA == <<"clear_SDA">>
clear_SCL == <<"clear_SCL">>
I2C_clock_stretch == <<"stretch", "await">>
read_SDA == <<"read_SDA">>

\* (mutant: a repeated start does not let SDA go first)
StartAtOnce(again) == clear_SDA \o clear_SCL
I2CStart(again) ==
  (IF again THEN set_SDA \o I2C_clock_stretch ELSE <<>>) \o clear_SDA \o clear_SCL
I2CStop == clear_SDA \o I2C_clock_stretch \o set_SDA
I2CPutBit(bit) == (IF bit = 1 THEN set_SDA ELSE clear_SDA) \o I2C_clock_stretch \o clear_SCL
I2CGetBit == set_SDA \o I2C_clock_stretch \o read_SDA \o clear_SCL

Bit(byte, n) == (byte \div 2 ^ (ByteBits - 1 - n)) % 2
Value(bs) == FoldLeft(LAMBDA v, b : 2 * v + b, 0, bs)
BitByBit(F(_)) == FlattenSeq([n \in 1..ByteBits |-> F(n - 1)])
I2CPutByte(byte) == BitByBit(LAMBDA n : I2CPutBit(Bit(byte, n))) \o I2CGetBit
I2CGetByte(nack) == BitByBit(LAMBDA n : I2CGetBit) \o I2CPutBit(nack)

----------------------------------------------------------------------------
(* The device *)

SeesStart == [device EXCEPT !.mode = "hear", !.first = TRUE, !.n = 0, !.byte = 0,
                            !.pulls = {}]
SeesStop == [device EXCEPT !.mode = "idle", !.pulls = {}]

\* SCL rises: a bit is there, or the answer to the byte that was given.
Rises(d, sda) ==
  LET bit == IF sda THEN 1 ELSE 0 IN
  IF d.mode \notin {"hear", "give"} THEN d
  ELSE IF d.mode = "give" /\ d.n = ByteBits /\ sda THEN [d EXCEPT !.mode = "off"]
  ELSE [d EXCEPT !.n = @ + 1,
                 !.byte = IF d.mode = "hear" /\ d.n < ByteBits THEN 2 * @ + bit ELSE @]

PullsSda(d, low) == [d EXCEPT !.pulls = IF low THEN {"sda"} ELSE {}]
GivesBit(d) == PullsSda(d, d.n < ByteBits /\ Bit(d.byte, d.n) = 0)
Begins(mode, byte) == [device EXCEPT !.mode = mode, !.first = FALSE, !.n = 0, !.byte = byte]

\* SCL falls: the device accepts the byte it has heard or not, and never another's
\* address; it gives the next bit, or goes on to the next byte, which it gives if it
\* was addressed for reading.
Falls ==
  LET d == device
      hears == d.mode = "hear" /\ d.n = ByteBits
      mine == d.first => d.byte \div 2 = Address
      begins == d.mode \in {"hear", "give"} /\ d.n = ByteBits + 1
      gives == d.mode = "give" \/ (d.first /\ d.byte % 2 = 1)
  IN /\ heard' = IF hears THEN Append(heard, d.byte) ELSE heard
     /\ IF begins /\ gives
        THEN \E byte \in DataBytes : /\ device' = GivesBit(Begins("give", byte))
                                     /\ gave' = Append(gave, byte)
        ELSE /\ UNCHANGED gave
             /\ \/ hears /\ mine /\ device' = PullsSda(d, TRUE)
                \/ hears /\ device' = [PullsSda(d, FALSE) EXCEPT !.mode = "off"]
                \/ begins /\ device' = PullsSda(Begins("hear", 0), FALSE)
                \/ ~hears /\ ~begins /\ device' = IF d.mode = "give" THEN GivesBit(d)
                                                  ELSE PullsSda(d, FALSE)

\* The master pulls `m`: what the device makes of it.
Notices(m) ==
  LET sda == "sda" \notin Pulled(m, device.pulls)
      scl == "scl" \notin Pulled(m, device.pulls)
      same == UNCHANGED <<heard, gave>>
  IN CASE SCL /\ scl /\ SDA /\ ~sda -> device' = SeesStart /\ heard' = <<>> /\ gave' = <<>>
       [] SCL /\ scl /\ ~SDA /\ sda -> device' = SeesStop /\ same
       [] ~SCL /\ scl -> device' = Rises(device, sda) /\ same
       [] SCL /\ ~scl -> Falls
       [] OTHER -> UNCHANGED device /\ same

\* It holds SCL, and lets it go.
DeviceHolds ==
  /\ ~SCL /\ device.mode \in {"hear", "give"} /\ device.n \in {0, ByteBits}
  /\ "scl" \notin device.pulls
  /\ device' = [device EXCEPT !.pulls = @ \union {"scl"}]
  /\ UNCHANGED <<pulls, started, zipCall, todo, bits, job, status, told, put, taken, heard,
                 gave, overdue, abandoned, stray>>
DeviceReleases ==
  /\ "scl" \in device.pulls
  /\ LET d == [device EXCEPT !.pulls = @ \ {"scl"}]
     IN device' = IF "scl" \in pulls THEN d ELSE Rises(d, "sda" \notin Pulled(pulls, d.pulls))
  /\ UNCHANGED <<pulls, started, zipCall, todo, bits, job, status, told, put, taken, heard,
                 gave, overdue, abandoned, stray>>

----------------------------------------------------------------------------
(* The master *)

PullsAfter(op) ==
  CASE op = "clear_SDA" -> pulls \union {"sda"}
    [] op \in {"set_SDA", "read_SDA"} -> pulls \ {"sda"}
    [] op = "clear_SCL" -> pulls \union {"scl"}
    [] op = "stretch" -> pulls \ {"scl"}
    [] OTHER -> pulls

\* One thing is done to the pins; for the clock one waits, up to 100 ms.
PinStep ==
  /\ todo # <<>> /\ (Head(todo) = "await" => SCL)
  /\ LET op == Head(todo) IN
     /\ pulls' = PullsAfter(op)
     /\ Notices(PullsAfter(op))
     /\ bits' = IF op = "read_SDA" THEN Append(bits, IF SDA THEN 1 ELSE 0) ELSE bits
  /\ todo' = Tail(todo)
  /\ UNCHANGED <<started, zipCall, job, status, told, put, taken, overdue, abandoned,
                 stray>>

StretchTooLong ==
  /\ todo # <<>> /\ Head(todo) = "await" /\ ~SCL
  /\ overdue' = TRUE /\ todo' = Tail(todo)
  /\ UNCHANGED <<pulls, started, zipCall, bits, job, status, told, put, taken, device, heard,
                 gave, abandoned, stray>>

Idle == todo = <<>> /\ job = NoJob
OnTheBus == <<pulls, device, heard, gave, overdue>>

\* A call is refused, or begins with no address.
CallZip ==
  /\ Idle /\ ~zipCall.running
  /\ \/ status' \in {"PI_BAD_USER_GPIO", "PI_NOT_I2C_GPIO", "PI_BAD_POINTER"}
        /\ UNCHANGED zipCall
     \/ status' = "ok" /\ zipCall' = [running |-> TRUE, addr |-> 0]
  /\ UNCHANGED <<OnTheBus, started, todo, bits, job, told, put, taken, abandoned, stray>>

\* A command that leaves the bus alone: an address; END, or the end of the string; one
\* that is unknown, or has no number.  (ESC and FLAGS only say how numbers are written.)
Quietly(call, s) ==
  /\ Idle /\ zipCall.running /\ zipCall' = call /\ status' = s
  /\ UNCHANGED <<OnTheBus, started, todo, bits, job, told, put, taken, abandoned, stray>>
SetAddress == \E addr \in AddressesGiven : Quietly([zipCall EXCEPT !.addr = addr], status)
EndCommand == Quietly(NoZipCall, status)
BadCommand == Quietly(NoZipCall, "PI_BAD_I2C_CMD")

BeginJob(j, ops) ==
  /\ Idle /\ zipCall.running /\ job' = j /\ todo' = ops /\ bits' = <<>>
  /\ UNCHANGED <<OnTheBus, zipCall, status, abandoned>>
Start == BeginJob([NoJob EXCEPT !.do = "start"], I2CStart(started)) /\ started' = TRUE
         /\ put' = <<>> /\ taken' = <<>> /\ told' = "ok" /\ UNCHANGED stray
Stop == BeginJob([NoJob EXCEPT !.do = "stop"], I2CStop) /\ started' = FALSE
        /\ UNCHANGED <<put, taken, told, stray>>

\* PI_I2C_READ and _WRITE: the address byte goes out before the bytes are counted.
\* `room` tells whether outBuf takes, or inBuf has, that many.
Address8(r) == 2 * zipCall.addr + r
Transfer(do, byte, data, count, room) ==
  /\ BeginJob([do |-> do, data |-> data, count |-> count, room |-> room, n |-> 0],
              I2CPutByte(byte))
  /\ put' = Append(put, byte) /\ stray' = (stray \/ ~started \/ put # <<>>)
  /\ UNCHANGED <<started, taken, told>>
Read == \E count \in 0..MaxData, room \in BOOLEAN :
          Transfer("read", Address8(1), <<>>, count, room)
Write == \E count \in 0..MaxData, room \in BOOLEAN : \E data \in [1..count -> DataBytes] :
           Transfer("write", Address8(0), data, count, room)

\* What a command makes of the answer to the address.
AddressStatus ==
  CASE job.count = 0 -> "PI_BAD_I2C_CMD"
    [] job.count > 0 /\ bits[1] = 1 -> IF job.do = "read" THEN "PI_I2C_READ_FAILED"
                                       ELSE "PI_I2C_WRITE_FAILED"
    [] job.count > 0 /\ bits[1] = 0 /\ ~job.room ->
         IF job.do = "read" THEN "PI_BAD_I2C_RLEN" ELSE "PI_BAD_I2C_WLEN"
    [] OTHER -> "ok"

\* The command is done, and with it the call, unless all is well.
Ends(s) == /\ job' = NoJob /\ status' = s /\ told' = s /\ todo' = <<>> /\ bits' = <<>>
           /\ zipCall' = IF s = "ok" THEN zipCall ELSE NoZipCall
           /\ UNCHANGED <<put, taken>>
GoesOn(ops) == /\ todo' = ops /\ bits' = <<>> /\ job' = [job EXCEPT !.n = @ + 1]
               /\ UNCHANGED <<zipCall, told>>
Addressed == job.do \in {"read", "write"} /\ job.n = 0

\* The function has returned to the command, which goes on or ends.  After a byte
\* that was refused the command goes on to write; the answer to the last is not
\* looked at.  The last byte read is answered with a nack.
StartStopReturns ==
  /\ job.do \in {"start", "stop"} /\ job' = NoJob /\ bits' = <<>>
  /\ UNCHANGED <<zipCall, todo, status, told, put, taken, abandoned>>
AddressFails ==
  /\ Addressed /\ AddressStatus # "ok" /\ Ends(AddressStatus)
  /\ abandoned' = (job.do = "read" /\ bits[1] = 0)
WriteReturns ==
  /\ job.do = "write" /\ (Addressed => AddressStatus = "ok")
  /\ UNCHANGED abandoned
  /\ LET failed == status # "ok" \/ (job.n \in 1..(job.count - 1) /\ bits[1] = 1)
         s == IF failed THEN "PI_I2C_WRITE_FAILED" ELSE "ok"
     IN IF job.n < job.count
        THEN /\ put' = Append(put, job.data[job.n + 1]) /\ status' = s
             /\ GoesOn(I2CPutByte(job.data[job.n + 1])) /\ UNCHANGED taken
        ELSE Ends(s)
ReadReturns ==
  /\ job.do = "read" /\ (Addressed => AddressStatus = "ok")
  /\ UNCHANGED <<put, status, abandoned>>
  /\ taken' = IF Addressed THEN taken ELSE Append(taken, Value(bits))
  /\ IF job.n < job.count
     THEN GoesOn(I2CGetByte(IF job.n = job.count - 1 THEN 1 ELSE 0))
     ELSE job' = NoJob /\ bits' = <<>> /\ told' = "ok" /\ UNCHANGED <<zipCall, todo>>
Returns ==
  /\ todo = <<>> /\ job # NoJob
  /\ StartStopReturns \/ AddressFails \/ WriteReturns \/ ReadReturns
  /\ UNCHANGED <<OnTheBus, started, stray>>

I2cNext == \/ CallZip \/ SetAddress \/ EndCommand \/ BadCommand
           \/ Start \/ Stop \/ Read \/ Write \/ Returns
           \/ PinStep \/ StretchTooLong \/ DeviceHolds \/ DeviceReleases
I2cSpec == I2cInit /\ [][I2cNext]_i2cVars
----------------------------------------------------------------------------
I2cTypeOK ==
  /\ pulls \subseteq {"sda", "scl"} /\ device.pulls \subseteq {"sda", "scl"}
  /\ Len(todo) <= 5 * (ByteBits + 1) /\ Len(bits) <= ByteBits
  /\ {started, zipCall.running, overdue, abandoned, stray} \subseteq BOOLEAN
  /\ {status, told} \subseteq {"ok", "PI_BAD_I2C_CMD", "PI_BAD_I2C_RLEN", "PI_BAD_I2C_WLEN",
       "PI_I2C_READ_FAILED", "PI_I2C_WRITE_FAILED", "PI_BAD_USER_GPIO", "PI_NOT_I2C_GPIO",
       "PI_BAD_POINTER"}
  /\ device.mode \in {"idle", "hear", "give", "off"} /\ device.n \in 0..(ByteBits + 1)

\* Between commands both sides agree: the bus is taken exactly since a start that
\* the device has seen, and otherwise free; the device leaves SDA alone, so that it
\* will see the next start or stop; it has heard the bytes that were put, up to
\* one it refused, which the status tells unless it was the last; and the master
\* has the bytes the device gave.  (Left out: a device that keeps the clock for
\* longer than the master waits, one that was told to read and then left, and a
\* caller who transfers without a start, or twice after one.)
BusKept ==
  /\ I2cTypeOK
  /\ Idle /\ ~overdue /\ ~abandoned /\ ~stray =>
       /\ started <=> device.mode # "idle"
       /\ ~started => SDA /\ SCL
       /\ "sda" \notin device.pulls
       /\ started => /\ IsPrefix(heard, put) /\ taken = gave
                     /\ told = "ok" => heard = put
                     /\ told \in {"PI_I2C_WRITE_FAILED", "PI_I2C_READ_FAILED"} =>
                          device.mode = "off"

-----------------------------------------------------------------------------
(* The buses, with a device behind each SPI chip select.  Nothing keeps two calls *)
(* apart that open or close, and bbSPIXfer writes the settings of its chip select *)
(* into the entry of SCLK before it takes the mutex of that entry: here one call  *)
(* ends before the next begins.                                                   *)

CONSTANTS
  BusGpios,      \* GPIO
  BusOpens,      \* the calls that open a bus: its kind, GPIO and flags
  SpiBits,       \* the bits of a byte
  SpiBytes,      \* the bytes sent and received
  MaxXfer        \* bytes of a transfer

\* A call names GPIO there are (PI_BAD_USER_GPIO otherwise).
ASSUME BusesAssumption ==
  /\ IsFiniteSet(BusGpios)
  /\ \A o \in BusOpens :
       \/ o.kind = "serial" /\ o.gpio \in BusGpios
       \/ o.kind = "i2c" /\ o.sda \in BusGpios /\ o.scl \in BusGpios
       \/ o.kind = "spi" /\ {o.cs, o.miso, o.mosi, o.sclk} \subseteq BusGpios
  /\ SpiBits \in Nat \ {0} /\ SpiBytes \subseteq 0..(2 ^ SpiBits - 1)

VARIABLES
  use,      \* wfRx[].mode
  entry,    \* the rest of wfRx[]
  pin,      \* the modes of the GPIO
  latch,    \* the levels of the latches
  xfer,     \* the transfer: the chip select, what goes out and in, what is left to do
  slave     \* for each GPIO that may be a chip select, the device behind it

busVars == <<use, entry, pin, latch, xfer, slave>>

ChipSelects == {o.cs : o \in {p \in BusOpens : p.kind = "spi"}}
Untouched == [hears |-> <<>>, shows |-> 0]
NoXfer == [cs |-> -1, tx |-> <<>>, reply |-> <<>>, rx |-> <<>>, todo |-> <<>>]
Original(g) == IF g % 2 = 0 THEN "in" ELSE "alt"

BusesInit ==
  /\ use = [g \in BusGpios |-> "none"] /\ entry = [g \in BusGpios |-> <<>>]
  /\ pin = [g \in BusGpios |-> Original(g)] /\ latch = [g \in BusGpios |-> 0]
  /\ xfer = NoXfer /\ slave = [c \in ChipSelects |-> Untouched]

----------------------------------------------------------------------------
(* Opening and closing *)

Calm == xfer.todo = <<>>
FreeGpios(gs) == \A g \in gs : use[g] = "none"

\* A read by bit-banged serial leaves the mode of its GPIO alone.
gpioSerialReadOpen(o) ==
  /\ use[o.gpio] = "none"
  /\ use' = [use EXCEPT ![o.gpio] = "serial"]
  /\ UNCHANGED <<entry, pin, latch>>

bbI2COpen(o) ==
  /\ o.sda # o.scl /\ FreeGpios({o.sda, o.scl})
  /\ use' = [use EXCEPT ![o.sda] = "I2C_SDA", ![o.scl] = "I2C_SCL"]
  /\ entry' = [entry EXCEPT ![o.sda] = [scl |-> o.scl, modes |-> <<pin[o.sda], pin[o.scl]>>]]
  /\ pin' = [pin EXCEPT ![o.sda] = "in", ![o.scl] = "in"]
  /\ UNCHANGED latch

CsOff(flags) == 1 - flags.CSPOL
Chosen(o) == /\ use[o.cs] = "none" /\ Cardinality({o.cs, o.miso, o.mosi, o.sclk}) = 4
OfCs(o) == [sclk |-> o.sclk, mode |-> pin[o.cs], flags |-> o.flags]

\* The chip select is off; the entry of SCLK keeps the bus.
FirstOfBus(o) ==
  /\ Chosen(o) /\ FreeGpios({o.miso, o.mosi, o.sclk})
  /\ use' = [use EXCEPT ![o.cs] = "SPI_CS", ![o.sclk] = "SPI_SCLK",
                         ![o.miso] = "SPI_MISO", ![o.mosi] = "SPI_MOSI"]
  /\ entry' = [entry EXCEPT ![o.cs] = OfCs(o),
                 ![o.sclk] = [miso |-> o.miso, mosi |-> o.mosi, usage |-> 1, cs |-> o.cs,
                              flags |-> o.flags,
                              modes |-> <<pin[o.miso], pin[o.mosi], pin[o.sclk]>>]]
  /\ pin' = [pin EXCEPT ![o.cs] = "out", ![o.sclk] = "out", ![o.miso] = "in", ![o.mosi] = "out"]
  /\ latch' = [latch EXCEPT ![o.cs] = CsOff(o.flags), ![o.mosi] = 0]

\* Another chip select: the three others are in use for SPI, if only of some bus.
NextOfBus(o) ==
  /\ Chosen(o)
  /\ use[o.miso] = "SPI_MISO" /\ use[o.mosi] = "SPI_MOSI" /\ use[o.sclk] = "SPI_SCLK"
  /\ use' = [use EXCEPT ![o.cs] = "SPI_CS"]
  /\ entry' = [entry EXCEPT ![o.cs] = OfCs(o), ![o.sclk].usage = @ + 1]
  /\ pin' = [pin EXCEPT ![o.cs] = "out"] /\ latch' = [latch EXCEPT ![o.cs] = CsOff(o.flags)]

bbSPIOpen(o) == FirstOfBus(o) \/ NextOfBus(o)

OpenBus == /\ Calm
           /\ \E o \in BusOpens :
                \/ o.kind = "serial" /\ gpioSerialReadOpen(o)
                \/ o.kind = "i2c" /\ bbI2COpen(o)
                \/ o.kind = "spi" /\ bbSPIOpen(o)
           /\ xfer' = NoXfer /\ slave' = [c \in ChipSelects |-> Untouched]

gpioSerialReadClose(g) ==
  /\ use[g] = "serial" /\ use' = [use EXCEPT ![g] = "none"]
  /\ UNCHANGED <<entry, pin, latch>>

bbI2CClose(g) ==
  /\ use[g] = "I2C_SDA"
  /\ LET e == entry[g] IN
     /\ use' = [use EXCEPT ![g] = "none", ![e.scl] = "none"]
     /\ pin' = [pin EXCEPT ![g] = e.modes[1], ![e.scl] = e.modes[2]]
  /\ UNCHANGED <<entry, latch>>

\* The last chip select gives the bus back.
bbSPIClose(g) ==
  /\ use[g] = "SPI_CS"
  /\ LET k == entry[g].sclk
         b == entry[k]
     IN /\ entry' = [entry EXCEPT ![k].usage = @ - 1]
        /\ IF b.usage > 1
           THEN /\ use' = [use EXCEPT ![g] = "none"] /\ pin' = [pin EXCEPT ![g] = entry[g].mode]
           ELSE /\ use' = [use EXCEPT ![g] = "none", ![b.miso] = "none", ![b.mosi] = "none",
                                      ![k] = "none"]
                /\ pin' = [pin EXCEPT ![g] = entry[g].mode, ![b.miso] = b.modes[1],
                                      ![b.mosi] = b.modes[2], ![k] = b.modes[3]]
  /\ UNCHANGED latch

CloseBus == /\ Calm
            /\ \E g \in BusGpios : gpioSerialReadClose(g) \/ bbI2CClose(g) \/ bbSPIClose(g)
            /\ xfer' = NoXfer /\ slave' = [c \in ChipSelects |-> Untouched]

----------------------------------------------------------------------------
(* A transfer, as what is done to the pins *)

To(g, v) == <<[gpio |-> g, to |-> v]>>
Sample == <<[gpio |-> -1, to |-> 0]>>

set_CS(w) == To(w.cs, w.flags.CSPOL)
clear_CS(w) == To(w.cs, 1 - w.flags.CSPOL)
set_SCLK(w) == To(w.sclk, 1 - w.flags.CPOL)
clear_SCLK(w) == To(w.sclk, w.flags.CPOL)

\* (mutant: SCLK goes to rest under the eyes of the device)
SelectFirst(w) == set_CS(w) \o clear_SCLK(w)
bbSPIStart(w) == clear_SCLK(w) \o set_CS(w)
bbSPIStop(w) == clear_CS(w) \o clear_SCLK(w)

\* The bits of a byte in the order they go over the wire, and back.
OnWire(byte, lsb) ==
  [i \in 1..SpiBits |-> (byte \div 2 ^ (IF lsb THEN i - 1 ELSE SpiBits - i)) % 2]
FromWire(bs, lsb) ==
  FoldLeft(LAMBDA v, b : IF lsb THEN v \div 2 + b * 2 ^ (SpiBits - 1) ELSE 2 * v + b, 0, bs)

bbSPIXferByte(w, byte) ==
  LET out(i) == To(w.mosi, OnWire(byte, w.flags.TX_LSB)[i])
  IN FlattenSeq([i \in 1..SpiBits |->
       IF w.flags.CPHA = 1 THEN set_SCLK(w) \o out(i) \o clear_SCLK(w) \o Sample
       ELSE out(i) \o set_SCLK(w) \o Sample \o clear_SCLK(w)])

bbSPIXfer(c) ==
  /\ Calm /\ use[c] = "SPI_CS"
  /\ \E count \in 1..MaxXfer : \E tx, reply \in [1..count -> SpiBytes] :
       LET k == entry[c].sclk
           w == [entry[k] EXCEPT !.cs = c, !.flags = entry[c].flags] @@ ("sclk" :> k)
       IN /\ entry' = [entry EXCEPT ![k] = [@ EXCEPT !.cs = c, !.flags = entry[c].flags]]
          /\ xfer' = [cs |-> c, tx |-> tx, reply |-> reply, rx |-> <<>>,
                      todo |-> bbSPIStart(w)
                               \o FlattenSeq([i \in 1..count |-> bbSPIXferByte(w, tx[i])])
                               \o bbSPIStop(w)]
  /\ slave' = [d \in ChipSelects |-> Untouched]
  /\ UNCHANGED <<use, pin, latch>>

----------------------------------------------------------------------------
(* The devices *)

Open(d) == use[d] = "SPI_CS"
Selected(d) == Open(d) /\ latch[d] = entry[d].flags.CSPOL
ReplyBits == FlattenSeq([i \in DOMAIN xfer.reply |->
                          OnWire(xfer.reply[i], entry[xfer.cs].flags.RX_LSB)])

\* What the device behind d makes of a new level of a GPIO: chosen, one of phase 0
\* shows its first bit; an edge away from the rest of SCLK or back to it is for the
\* one to take a bit at and for the other to show the next.
Sees(d, g, v) ==
  LET f == entry[d].flags
      takes == (v # f.CPOL) = (f.CPHA = 0)
  IN IF ~Open(d) THEN slave[d]
     ELSE IF g = d /\ v = f.CSPOL /\ ~Selected(d)
     THEN [slave[d] EXCEPT !.shows = IF f.CPHA = 0 THEN 1 ELSE 0]
     ELSE IF g = entry[d].sclk /\ v # latch[g] /\ Selected(d)
     THEN IF takes THEN [slave[d] EXCEPT !.hears = Append(@, latch[entry[g].mosi])]
          ELSE [slave[d] EXCEPT !.shows = @ + 1]
     ELSE slave[d]

\* MISO is what the one that is selected shows.
Miso ==
  LET d == CHOOSE c \in ChipSelects : Selected(c)
  IN IF (\E c \in ChipSelects : Selected(c)) /\ slave[d].shows \in DOMAIN ReplyBits
     THEN ReplyBits[slave[d].shows] ELSE 0

SpiPinStep ==
  /\ xfer.todo # <<>>
  /\ LET op == Head(xfer.todo) IN
     IF op = Head(Sample)
     THEN /\ xfer' = [xfer EXCEPT !.todo = Tail(@), !.rx = Append(@, Miso)]
          /\ UNCHANGED <<latch, slave>>
     ELSE /\ xfer' = [xfer EXCEPT !.todo = Tail(@)]
          /\ latch' = [latch EXCEPT ![op.gpio] = op.to]
          /\ slave' = [d \in ChipSelects |-> Sees(d, op.gpio, op.to)]
  /\ UNCHANGED <<use, entry, pin>>

BusesNext == OpenBus \/ CloseBus \/ SpiPinStep \/ \E c \in ChipSelects : bbSPIXfer(c)
BusesSpec == BusesInit /\ [][BusesNext]_busVars

----------------------------------------------------------------------------
Of(kind) == {g \in BusGpios : use[g] = kind}

\* A GPIO belongs to one bus and a bus has all of its GPIO: SCL has its SDA, a chip
\* select has the SCLK it was opened for, which counts its chip selects, and no two
\* SCLK have a MISO or a MOSI in common.
OneBusEach ==
  /\ \A g \in Of("I2C_SCL") : \E s \in Of("I2C_SDA") : entry[s].scl = g
  /\ \A s \in Of("I2C_SDA") : use[entry[s].scl] = "I2C_SCL"
  /\ Cardinality(Of("I2C_SDA")) = Cardinality(Of("I2C_SCL"))
  /\ \A c \in Of("SPI_CS") : use[entry[c].sclk] = "SPI_SCLK"
  /\ \A k \in Of("SPI_SCLK") :
       /\ entry[k].usage = Cardinality({c \in Of("SPI_CS") : entry[c].sclk = k})
       /\ entry[k].usage > 0
  /\ {entry[k].miso : k \in Of("SPI_SCLK")} = Of("SPI_MISO")
  /\ {entry[k].mosi : k \in Of("SPI_SCLK")} = Of("SPI_MOSI")
  /\ Cardinality(Of("SPI_SCLK")) = Cardinality(Of("SPI_MISO"))
  /\ Cardinality(Of("SPI_SCLK")) = Cardinality(Of("SPI_MOSI"))

\* A GPIO that no bus uses any more is in the mode it was in before.
ModesGivenBack == \A g \in BusGpios : use[g] \in {"none", "serial"} => pin[g] = Original(g)

\* After a transfer, in any of the modes and orders of bits, both sides have the
\* bytes of the other, the devices behind other chip selects have not noticed, and
\* none is selected.
BytesExchanged ==
  Calm /\ xfer.cs # -1 =>
    LET f == entry[xfer.cs].flags
        bytes(bs) == [i \in 1..(Len(bs) \div SpiBits) |->
                        SubSeq(bs, SpiBits * (i - 1) + 1, SpiBits * i)]
    IN /\ [i \in DOMAIN xfer.tx |-> OnWire(xfer.tx[i], f.TX_LSB)] = bytes(slave[xfer.cs].hears)
       /\ Len(slave[xfer.cs].hears) = SpiBits * Len(xfer.tx)
       /\ \A i \in DOMAIN xfer.reply : FromWire(bytes(xfer.rx)[i], f.RX_LSB) = xfer.reply[i]
       /\ \A d \in ChipSelects \ {xfer.cs} : slave[d] = Untouched
       /\ \A d \in ChipSelects : ~Selected(d)

BusesKept == OneBusEach /\ ModesGivenBack /\ BytesExchanged
=============================================================================
