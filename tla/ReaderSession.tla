--------------------------- MODULE ReaderSession ---------------------------
(***************************************************************************)
(* The driver as pcscd sees it: the IFD handler calls of ifdhandler.c, the *)
(* reader table of reader_list.c, the power and presence state machine of  *)
(* reader.c, opening and closing the transport (transport/initialize.c)    *)
(* and the hardware it drives through pigpio (RST and clock pins, one      *)
(* library instance per process).                                          *)
(*                                                                         *)
(* The driver answers 0 to TAG_IFD_THREAD_SAFE and TAG_IFD_SLOT_THREAD_SAFE*)
(* so pcscd serialises the calls: a call is one step.  A reset inside a    *)
(* call ends in one of the outcomes of CardReset.  Cards come and go       *)
(* between calls, and pcscd may make any call in any order.                *)
(***************************************************************************)
EXTENDS CardReset, FiniteSets

CONSTANTS
  Luns,             \* the Luns pcscd uses
  Channels,         \* the <<Lun, device>> pairs it may open
  gReaderListSize   \* entries of gReaderList (32 in reader_list.h)

ASSUME SessionAssumption ==
  /\ None \notin Luns
  /\ Channels \subseteq Luns \X Devices
  /\ gReaderListSize \in Nat \ {0}

(* every Lun is configured with a device of its own *)
ASSUME ChannelAssumption == \A c, d \in Channels : c[2] = d[2] => c[1] = d[1]

VARIABLES
  gReaderList,     \* the reader table
  libInitialised,  \* pigpio's flag of that name
  rst,             \* the RST pin: released, or driven low or high
  clock,           \* parameters whose frequency the clock pin has (None: stopped)
  port,            \* port[d]: parameters the termios settings of d are those of
  card,            \* the card in the slot
  mode,            \* the parameters that card is set to
  ret              \* what the last call returned

hardware == <<libInitialised, rst, clock>>
slot == <<card, mode>>
vars == <<gReaderList, hardware, port, slot, ret>>

Slots == 1..gReaderListSize

(***************************************************************************)
(* Values returned to pcscd.  "atr" is the cached bytes handed out, as the *)
(* card they came from and their number.                                   *)
(***************************************************************************)
Codes == {"IFD_SUCCESS", "IFD_COMMUNICATION_ERROR", "IFD_ERROR_INSUFFICIENT_BUFFER",
          "IFD_ERROR_NOT_SUPPORTED", "IFD_NOT_SUPPORTED", "IFD_ERROR_TAG", "IFD_ICC_NOT_PRESENT"}
Calls == {"none", "create", "close", "power_up", "power_down", "power_other",
          "transmit", "presence", "capabilities", "unsupported"}

Bytes == [of : Cards \cup {None}, length : 0..PCSC_MAX_ATR_SIZE]
Replies == [call : Calls, code : Codes, atr : Bytes]

NoBytes == [of |-> None, length |-> 0]

Ret(call, code) == [call |-> call, code |-> code, atr |-> NoBytes]

(* the last step was not a call *)
NoCall == Ret("none", "IFD_SUCCESS")

(* GetCapability: the caller's length pointer may be NULL, the buffer may  *)
(* be too small                                                            *)
Buffers == {"null", "short", "ample"}
GetCapability(call, bytes, buffer) ==
  CASE buffer = "null"  -> Ret(call, "IFD_COMMUNICATION_ERROR")
    [] buffer = "short" -> Ret(call, "IFD_ERROR_INSUFFICIENT_BUFFER")
    [] OTHER -> [Ret(call, "IFD_SUCCESS") EXCEPT !.atr = bytes]

ZeroAtr(call, buffer) ==
  IF buffer = "null" THEN Ret(call, "IFD_COMMUNICATION_ERROR")
                     ELSE Ret(call, "IFD_SUCCESS")

(***************************************************************************)
(* The reader table.                                                       *)
(***************************************************************************)
Readers == [power : {"POWERED_OFF", "POWERED_ON"},
            presence : {"PRESENT_FALSE", "PRESENT_TRUE"},
            cache : AtrCache, handle : Devices \cup {None}]

kEmptyReader == [power |-> "POWERED_OFF", presence |-> "PRESENT_FALSE",
                 cache |-> [atr |-> None, atrLength |-> 0, params |-> None],
                 handle |-> None]

ReaderEntries == [initialized : BOOLEAN, lun : Luns \cup {None}, reader : Readers]

kEmptyReaderEntry == [initialized |-> FALSE, lun |-> None, reader |-> kEmptyReader]

OpenSlots == {s \in Slots : gReaderList[s].initialized}

(* reader_list_get_reader, as the set of entries it may return *)
reader_list_get_reader(lun) == {s \in OpenSlots : gReaderList[s].lun = lun}

(* reader_list_alloc_reader: the first entry that is not initialized *)
reader_list_alloc_reader ==
  {s \in Slots \ OpenSlots : \A t \in Slots \ OpenSlots : s <= t}

(* mutant: the entry is only marked free *)
FreeWithoutWiping(list, s) == [list EXCEPT ![s].initialized = FALSE]

(* reader_list_free_reader wipes the whole entry, the reader included *)
reader_list_free_reader(list, s) == [list EXCEPT ![s] = kEmptyReaderEntry]

(***************************************************************************)
(* One reset of the reader in entry s, and the state it leaves.            *)
(***************************************************************************)
LineOf(s) == [lib |-> libInitialised, port |-> port[gReaderList[s].reader.handle],
              rst |-> rst, clock |-> clock, card |-> card, mode |-> mode]

reader_reset_impl(s) ==
  LET rd == gReaderList[s].reader IN transport_reset(LineOf(s), rd.handle, rd.cache)

(* reader_power_off resets the card; nothing happens if it is already off *)
reader_power_off(s) ==
  IF gReaderList[s].reader.power = "POWERED_OFF"
  THEN {Outcome(TRUE, gReaderList[s].reader.cache, LineOf(s).port, rst, clock, mode)}
  ELSE reader_reset_impl(s)

LineBecomes(s, o) ==
  /\ port' = [port EXCEPT ![gReaderList[s].reader.handle] = o.port]
  /\ rst' = o.rst /\ clock' = o.clock /\ mode' = o.mode
  /\ UNCHANGED <<libInitialised, card>>

ReaderBecomes(s, o, power, presence) ==
  /\ gReaderList' = [gReaderList EXCEPT ![s].reader =
                       [@ EXCEPT !.cache = o.cache, !.power = power, !.presence = presence]]
  /\ LineBecomes(s, o)

Returns(r) == ret' = r /\ UNCHANGED <<gReaderList, hardware, port, slot>>

(***************************************************************************)
(* IFDHCreateChannelByName                                                 *)
(***************************************************************************)
CanCreate(lun) == reader_list_get_reader(lun) = {} /\ reader_list_alloc_reader # {}

(* the Lun is in use or the table is full *)
CreateRefused(lun, dev) ==
  /\ ~CanCreate(lun)
  /\ Returns(Ret("create", "IFD_COMMUNICATION_ERROR"))

(* mutant: hw_initialize accepts a pigpio that is already initialised, as  *)
(* gpioInitialise alone would                                              *)
HwInitializeReentrant == TRUE

(* gpioCfgInterfaces refuses a process that has already initialised pigpio *)
hw_initialize_possible == ~libInitialised

(* open, the serial settings or hw_initialize fail; the entry is freed and *)
(* the device closed, its settings are not put back                        *)
CreateFailed(lun, dev) ==
  \E s \in reader_list_alloc_reader :
    /\ CanCreate(lun)
    /\ gReaderList' = reader_list_free_reader(gReaderList, s)
    /\ port' \in {port, [port EXCEPT ![dev] = DefaultParams]}
    /\ ret' = Ret("create", "IFD_COMMUNICATION_ERROR")
    /\ UNCHANGED <<hardware, slot>>

(* what opening a device writes in a reader: its params and handle, only *)
transport_initialize(rd, dev) ==
  [rd EXCEPT !.handle = dev, !.cache = [@ EXCEPT !.params = DefaultParams]]

(* hw_rst_initialize drives RST low and hw_start_clock starts the clock:   *)
(* neither fails once pigpio is initialised                                *)
Created(lun, dev) ==
  \E s \in reader_list_alloc_reader :
    /\ CanCreate(lun)
    /\ hw_initialize_possible
    /\ libInitialised' = TRUE /\ rst' = "low" /\ clock' = DefaultParams
    /\ port' = [port EXCEPT ![dev] = DefaultParams]
    /\ gReaderList' = [gReaderList EXCEPT
                         ![s] = [initialized |-> TRUE, lun |-> lun,
                                 reader |-> transport_initialize(@.reader, dev)]]
    /\ mode' = None
    /\ ret' = Ret("create", "IFD_SUCCESS")
    /\ UNCHANGED card

IFDHCreateChannelByName(lun, dev) ==
  CreateRefused(lun, dev) \/ CreateFailed(lun, dev) \/ Created(lun, dev)

(***************************************************************************)
(* IFDHCloseChannel.  The card is reset first; the entry is freed whatever *)
(* happens.  transport_deinitialize stops at the first pigpio call that    *)
(* fails, which is the first one, and only when pigpio is not initialised. *)
(***************************************************************************)
reader_close(o) ==
  IF libInitialised
  THEN libInitialised' = FALSE /\ rst' = "input" /\ clock' = None /\ mode' = None
  ELSE UNCHANGED libInitialised /\ rst' = o.rst /\ clock' = o.clock /\ mode' = o.mode

IFDHCloseChannel(lun) ==
  \E s \in reader_list_get_reader(lun) : \E o \in reader_power_off(s) :
    /\ port' = [port EXCEPT ![gReaderList[s].reader.handle] = o.port]
    /\ reader_close(o)
    /\ gReaderList' = reader_list_free_reader(gReaderList, s)
    /\ ret' = Ret("close", "IFD_SUCCESS")
    /\ UNCHANGED card

(***************************************************************************)
(* IFDHPowerICC                                                            *)
(***************************************************************************)

(* mutant: a reset that fails leaves the reader as it was *)
PowerUnlessFailed(s, ok) == IF ok THEN "POWERED_ON" ELSE gReaderList[s].reader.power

(* reader_reset: the power state follows the outcome *)
PowerAfterReset(s, ok) == IF ok THEN "POWERED_ON" ELSE "POWERED_OFF"

(* IFD_POWER_UP and IFD_RESET: reader_power_on is reader_reset *)
PowerUp(lun, buffer) ==
  \E s \in reader_list_get_reader(lun) : \E o \in reader_reset_impl(s) :
    /\ ReaderBecomes(s, o, PowerAfterReset(s, o.ok), gReaderList[s].reader.presence)
    /\ ret' = IF o.ok
              THEN GetCapability("power_up", [of |-> o.cache.atr, length |-> o.cache.atrLength],
                                 buffer)
              ELSE Ret("power_up", "IFD_COMMUNICATION_ERROR")

(* IFD_POWER_DOWN: a reset that fails leaves the reader powered *)
PowerDown(lun, buffer) ==
  \E s \in reader_list_get_reader(lun) : \E o \in reader_power_off(s) :
    /\ ReaderBecomes(s, o, IF o.ok THEN "POWERED_OFF" ELSE gReaderList[s].reader.power,
                     gReaderList[s].reader.presence)
    /\ ret' = IF o.ok THEN ZeroAtr("power_down", buffer)
                      ELSE Ret("power_down", "IFD_COMMUNICATION_ERROR")

PowerOther(lun) ==
  /\ reader_list_get_reader(lun) # {}
  /\ Returns(Ret("power_other", "IFD_ERROR_NOT_SUPPORTED"))

IFDHPowerICC(lun) ==
  (\E b \in Buffers : PowerUp(lun, b) \/ PowerDown(lun, b)) \/ PowerOther(lun)

(***************************************************************************)
(* IFDHTransmitToICC                                                       *)
(***************************************************************************)
Unpowered(s) == gReaderList[s].reader.power # "POWERED_ON"

(* the card can understand the reader and the reader the card *)
Linked(s) ==
  LET rd == gReaderList[s].reader IN
  /\ card # None /\ rd.handle = WiredDevice /\ rst = "high"
  /\ mode = port[rd.handle] /\ clock = mode

(* an unpowered reader, or arguments reader_transmit rejects: a NULL       *)
(* command of some length, a command longer than 65535 bytes, a NULL       *)
(* RxLength; RxLength is not touched                                       *)
TransmitRefused(lun, wrongArgs) ==
  \E s \in reader_list_get_reader(lun) :
    /\ Unpowered(s) \/ wrongArgs
    /\ Returns(Ret("transmit", "IFD_COMMUNICATION_ERROR"))

TransmitDone(lun) ==
  \E s \in reader_list_get_reader(lun) :
    /\ ~Unpowered(s)
    /\ \/ Linked(s) /\ Returns(Ret("transmit", "IFD_SUCCESS"))
       \/ Returns(Ret("transmit", "IFD_COMMUNICATION_ERROR"))

IFDHTransmitToICC(lun) ==
  (\E wrong \in BOOLEAN : TransmitRefused(lun, wrong)) \/ TransmitDone(lun)

(***************************************************************************)
(* IFDHICCPresence.  There is no card-detect contact: presence is tested   *)
(* by a reset, which a reader that is powered and present is spared.       *)
(***************************************************************************)

(* mutant: every poll tests *)
TestsAlways(s) == TRUE

TestsPresence(s) ==
  \/ gReaderList[s].reader.presence = "PRESENT_FALSE"
  \/ gReaderList[s].reader.power = "POWERED_OFF"

(* mutant: presence is withdrawn before the test and never given back *)
PresenceWithdrawn(ok) == "PRESENT_FALSE"

PresenceAfterTest(ok) == IF ok THEN "PRESENT_TRUE" ELSE "PRESENT_FALSE"

PollTests(lun) ==
  \E s \in reader_list_get_reader(lun) : \E o \in reader_reset_impl(s) :
    /\ TestsPresence(s)
    /\ ReaderBecomes(s, o, gReaderList[s].reader.power, PresenceAfterTest(o.ok))
    /\ ret' = Ret("presence", IF o.ok THEN "IFD_SUCCESS" ELSE "IFD_ICC_NOT_PRESENT")

PollSkips(lun) ==
  \E s \in reader_list_get_reader(lun) :
    /\ ~TestsPresence(s)
    /\ Returns(Ret("presence", "IFD_SUCCESS"))

IFDHICCPresence(lun) == PollTests(lun) \/ PollSkips(lun)

(***************************************************************************)
(* IFDHGetCapabilities and the calls that are not supported.               *)
(***************************************************************************)
GetAtr(lun, buffer) ==
  \E s \in reader_list_get_reader(lun) :
    LET cache == gReaderList[s].reader.cache IN
    Returns(IF Unpowered(s) THEN ZeroAtr("capabilities", buffer)
            ELSE GetCapability("capabilities",
                               [of |-> cache.atr, length |-> cache.atrLength], buffer))

(* TAG_IFD_SIMULTANEOUS_ACCESS, _THREAD_SAFE, _SLOTS_NUMBER: constants, and *)
(* no reader is looked up                                                  *)
GetConstant(buffer) == Returns(GetCapability("capabilities", NoBytes, buffer))

(* IFDHControl, IFDHSetCapabilities, IFDHSetProtocolParameters, the tags   *)
(* of a polling thread, and any other tag                                  *)
Unsupported ==
  \E code \in {"IFD_NOT_SUPPORTED", "IFD_ERROR_TAG"} : Returns(Ret("unsupported", code))

(* Every call that looks a reader up, for a Lun that has none *)
InvalidLun(lun) ==
  /\ reader_list_get_reader(lun) = {}
  /\ \E call \in {"close", "power_up", "power_down", "transmit", "presence", "capabilities"} :
       Returns(Ret(call, "IFD_COMMUNICATION_ERROR"))

(***************************************************************************)
(* The slot.  A card that is put in answers nothing until it is reset.     *)
(***************************************************************************)
InsertCard ==
  /\ card = None
  /\ card' \in Cards
  /\ mode' = None
  /\ ret' = NoCall
  /\ UNCHANGED <<gReaderList, hardware, port>>

RemoveCard ==
  /\ card # None
  /\ card' = None /\ mode' = None
  /\ ret' = NoCall
  /\ UNCHANGED <<gReaderList, hardware, port>>

-----------------------------------------------------------------------------
Init ==
  /\ gReaderList = [s \in Slots |-> kEmptyReaderEntry]
  /\ libInitialised = FALSE /\ rst = "input" /\ clock = None
  /\ port = [d \in Devices |-> None]
  /\ card \in Cards \cup {None} /\ mode = None
  /\ ret = NoCall

Call(lun) ==
  \/ IFDHCloseChannel(lun) \/ IFDHPowerICC(lun) \/ IFDHTransmitToICC(lun)
  \/ IFDHICCPresence(lun) \/ InvalidLun(lun) \/ (\E b \in Buffers : GetAtr(lun, b))

Next ==
  \/ \E ch \in Channels : IFDHCreateChannelByName(ch[1], ch[2])
  \/ \E lun \in Luns : Call(lun)
  \/ \E b \in Buffers : GetConstant(b)
  \/ Unsupported
  \/ InsertCard
  \/ RemoveCard

Spec == Init /\ [][Next]_vars

-----------------------------------------------------------------------------
(* Properties *)

Powered(s) == s \in OpenSlots /\ gReaderList[s].reader.power = "POWERED_ON"
Handle(s) == gReaderList[s].reader.handle
Cache(s) == gReaderList[s].reader.cache

(* Every variable has its type. *)
TypeOK ==
  /\ gReaderList \in [Slots -> ReaderEntries]
  /\ libInitialised \in BOOLEAN
  /\ rst \in RstLevels
  /\ clock \in Params \cup {None}
  /\ port \in [Devices -> Params \cup {None}]
  /\ card \in Cards \cup {None}
  /\ mode \in Params \cup {None}
  /\ ret \in Replies

(* The process has one RST pin, one clock pin and one pigpio, and the table *)
(* may hold many readers.  pigpio is initialised exactly while one reader   *)
(* is open, never two, so no reader drives the pins of another one; an      *)
(* open reader has a device; and when none is open the pins are released,   *)
(* the clock is stopped and no entry remembers anything of a past session.  *)
(* (ifdhandler.c's open and close paths, initialize.c's unwinding and       *)
(* pigpio's libInitialised together.)                                       *)
OneReaderOwnsTheHardware ==
  /\ libInitialised <=> OpenSlots # {}
  /\ \A s, t \in OpenSlots : s = t
  /\ \A s \in OpenSlots : Handle(s) \in Devices /\ rst # "input"
  /\ ~libInitialised => rst = "input" /\ clock = None
  /\ \A s \in Slots \ OpenSlots : gReaderList[s] = kEmptyReaderEntry

(* No call of pcscd, in any order, leaves the table, the pins or the ports *)
(* in a state the code has no name for, nor two readers on one hardware.   *)
SessionKept == TypeOK /\ OneReaderOwnsTheHardware

(* A channel that has just been opened has nothing of the session that had *)
(* the entry before: it is unpowered, its card is not known to be present, *)
(* and no ATR is cached, however the last session ended (free_reader wipes *)
(* the entry; alloc_reader relies on it).                                  *)
FreshChannel ==
  [][\A s \in Slots : s \notin OpenSlots /\ (s \in OpenSlots)' =>
       /\ ~Powered(s)'
       /\ gReaderList'[s].reader.presence = "PRESENT_FALSE"
       /\ Cache(s)'.atrLength = 0]_vars

(* Reader, port, pins and card agree: the port, the clock and the card are *)
(* at the parameters the reader has recorded, and the cached ATR is the    *)
(* whole ATR of the card in the slot.                                      *)
Synchronised(s) ==
  /\ Linked(s)
  /\ port[Handle(s)] = Cache(s).params
  /\ Cache(s).params \in CardParams[card]
  /\ Cache(s).atr = card /\ Cache(s).atrLength = AtrLen[card]

(* Whenever IFDHPowerICC hands out an ATR, reader, line and card agree.    *)
PowerUpSynchronises ==
  [][ret'.call = "power_up" /\ ret'.code = "IFD_SUCCESS" =>
       \E s \in OpenSlots : Powered(s)' /\ Synchronised(s)']_vars

(* No call parts a powered reader from its card while the card stays: not  *)
(* a presence poll, not a refused or failed command, not another channel's *)
(* opening.  The exceptions are the power actions, which reset the card:   *)
(* one that fails while the reader stays powered is a failed power-down;   *)
(* and the poll of a reader that was powered before it was ever seen.      *)
AgreementKept ==
  [][\A s \in Slots :
       (/\ Powered(s) /\ Synchronised(s) /\ Powered(s)' /\ card' = card
        /\ gReaderList[s].reader.presence = "PRESENT_TRUE"
        /\ ~(ret'.call = "power_down" /\ ret'.code # "IFD_SUCCESS"))
       => Synchronised(s)']_vars

(* Opening a channel, whether it succeeds or not, does nothing to the line *)
(* of a reader that is open already: its port, the pins and the card.      *)
OpenLeavesOthersAlone ==
  [][\A s \in OpenSlots : ret'.call = "create" =>
       /\ port'[Handle(s)] = port[Handle(s)]
       /\ UNCHANGED <<rst, clock, mode>>]_vars

-----------------------------------------------------------------------------
(* What the documentation of the interface and of the code says of the     *)
(* driver, and the code does not do (see the findings).                    *)

(* "The driver is responsible for caching this value": the ATR that        *)
(* IFDHGetCapabilities hands out is the whole ATR of one card.             *)
AtrHandedOutIsWhole ==
  ret.atr.of # None => ret.atr.length = AtrLen[ret.atr.of]

-----------------------------------------------------------------------------
(* Liveness *)

SeenPresent(lun) ==
  \E s \in reader_list_get_reader(lun) : gReaderList[s].reader.presence = "PRESENT_TRUE"

PollFinds(lun) == PollTests(lun) /\ ret'.code = "IFD_SUCCESS"

AnyPowerUp(lun) == \E b \in Buffers : PowerUp(lun, b)
AnyPowerDown(lun) == \E b \in Buffers : PowerDown(lun, b)

(* pcscd's event handler polls every open reader.  Some application, or    *)
(* pcscd for one that connects, keeps asking for the card to be powered    *)
(* up.  A poll of a working card does not fail forever.                    *)
PolledAndPoweredUp ==
  /\ Spec
  /\ \A lun \in Luns :
       /\ WF_vars(IFDHICCPresence(lun))
       /\ SF_vars(PollFinds(lun))
       /\ WF_vars(AnyPowerUp(lun))

(* The same without power-ups: pcscd polls, and powers an idle card down. *)
PolledAndPoweredDown ==
  /\ Spec
  /\ \A lun \in Luns :
       /\ WF_vars(IFDHICCPresence(lun))
       /\ WF_vars(AnyPowerDown(lun))

(* A card that is gone for good is eventually never reported present.      *)
RemovalNoticed ==
  \A lun \in Luns : <>[](card = None) => <>[]~SeenPresent(lun)

(* A card the driver can talk to, in the slot of an open reader for good,  *)
(* is reported present again and again.                                    *)
InsertionNoticed ==
  \A lun \in Luns :
    <>[](/\ card # None /\ CardParams[card] # {}
         /\ \E s \in reader_list_get_reader(lun) : Handle(s) = WiredDevice)
    => []<>SeenPresent(lun)

(* Both: what pcscd is told follows the cards that come and go. *)
CardChangesNoticed == RemovalNoticed /\ InsertionNoticed
=============================================================================
