----------------------------- MODULE CardReset -----------------------------
(***************************************************************************)
(* What transport_reset (src/rtuartscreader/transport/reset.c) may do to a *)
(* reader, to the serial port it has opened, to the pins it shares and to  *)
(* the card behind them.  One call takes seconds and passes many points at *)
(* which it may give up; this module lists the states it can leave behind, *)
(* one group per point of failure.  ReaderSession takes a whole reset as a *)
(* step with one of these outcomes, and ResetProcedure, which follows the  *)
(* code line by line, is checked to end in one of them.                    *)
(*                                                                         *)
(* A set of transmission parameters (clock frequency, baud rate, etu,      *)
(* waiting time) is a value of Params; so is the rate a card is set to.    *)
(***************************************************************************)
EXTENDS Integers

CONSTANTS
  Cards,          \* the cards that are ever put into the slot
  Params,         \* transmit_params_t values
  DefaultParams,  \* transmit_params_default()
  Devices,        \* serial devices (the DEVICENAME of a reader)
  WiredDevice,    \* the device whose line is the I/O contact of the slot
  AtrLen,         \* AtrLen[c]: number of bytes of the ATR of card c
  TwoModeCards,   \* cards whose first ATR enforces another protocol and that
                  \* ask for a second reset
  CardParams,     \* CardParams[c]: what transmit_params_init may compute for c
  None            \* no card, no ATR, no device, no rate, no clock

PCSC_MAX_ATR_SIZE == 33

ASSUME CardAssumption ==
  /\ DefaultParams \in Params
  /\ WiredDevice \in Devices
  /\ None \notin Cards \cup Params \cup Devices
  /\ AtrLen \in [Cards -> 2..PCSC_MAX_ATR_SIZE]
  /\ TwoModeCards \subseteq Cards
  /\ CardParams \in [Cards -> SUBSET Params]

(***************************************************************************)
(* The line a reset works on: termios settings of the port (None: not set  *)
(* by the driver), RST pin, clock pin, the card in the slot and the rate   *)
(* that card is set to (None: it has not been reset since it was put in or *)
(* is held in reset).  "lib" is pigpio's libInitialised.                   *)
(***************************************************************************)
RstLevels == {"input", "low", "high"}

Line == [lib : BOOLEAN, port : Params \cup {None}, rst : RstLevels,
         clock : Params \cup {None}, card : Cards \cup {None},
         mode : Params \cup {None}]

(***************************************************************************)
(* The part of Reader (reader_detail.h) that a reset writes: the cached    *)
(* ATR, named by the card it came from, its cached length, and             *)
(* transport.params.                                                       *)
(***************************************************************************)
AtrCache == [atr : Cards \cup {None}, atrLength : 0..PCSC_MAX_ATR_SIZE, params : Params \cup {None}]

Outcome(ok, cache, port, rst, clock, mode) ==
  [ok |-> ok, cache |-> cache, port |-> port, rst |-> rst, clock |-> clock, mode |-> mode]

Outcomes == [ok : BOOLEAN, cache : AtrCache, port : Params \cup {None},
             rst : RstLevels, clock : Params \cup {None}, mode : Params \cup {None}]

(* the rate of a card that has just answered a reset, if there is one *)
AfterReset(l) == IF l.card = None THEN None ELSE DefaultParams

(* the card answers on the line of device dev *)
Reachable(l, dev) == l.card # None /\ dev = WiredDevice

(* do_transport_reset copies the ATR bytes into reader->atr before it has  *)
(* checked anything; reader_reset_impl stores the length after success.    *)
Copied(cache, c) == [cache EXCEPT !.atr = c, !.params = DefaultParams]

(* The caches a reset that fails before it has copied an ATR leaves: the   *)
(* second iteration, for a card that asked for one, fails with the ATR of  *)
(* the first one in place.                                                 *)
NotCopied(l, dev, cache) ==
  {[cache EXCEPT !.params = DefaultParams]} \cup
  {Copied(cache, c) : c \in {d \in TwoModeCards : Reachable(l, dev) /\ d = l.card}}

(* pigpio refuses hw_rst_down: nothing has been touched *)
NoPins(l, cache) == {Outcome(FALSE, cache, l.port, l.rst, l.clock, l.mode)}

(* The first transport_reinitialize fails in its serial settings: RST      *)
(* stays low and the clock keeps its frequency.                            *)
NoSerial(l, dev, cache) ==
  {Outcome(FALSE, x[1], x[2], "low", x[3], None) :
     x \in NotCopied(l, dev, cache) \X {l.port, DefaultParams} \X {l.clock, DefaultParams}}

(* No usable answer to reset: no card, a mute one, a malformed ATR *)
NoAtr(l, dev, cache) ==
  {Outcome(FALSE, k, DefaultParams, "high", DefaultParams, AfterReset(l)) :
     k \in NotCopied(l, dev, cache)}

(* The ATR was read and copied, but the card's protocol or parameters are  *)
(* refused, or the PPS exchange fails, with the card switched or not.      *)
NoAgreement(l, cache) ==
  {Outcome(FALSE, Copied(cache, l.card), DefaultParams, "high", DefaultParams, m) :
     m \in Params}

(* The second transport_reinitialize fails in its serial settings *)
NoSwitch(l, cache) ==
  UNION {{Outcome(FALSE, [Copied(cache, l.card) EXCEPT !.params = q],
                  p, "high", DefaultParams, q) : p \in {q, DefaultParams}} :
           q \in CardParams[l.card]}

(* mutant: the second transport_reinitialize is left out *)
NegotiatedNotApplied(l) ==
  {Outcome(TRUE, [atr |-> l.card, atrLength |-> AtrLen[l.card], params |-> q],
           DefaultParams, "high", DefaultParams, q) : q \in CardParams[l.card]}

(* ATR, PPS and reinitialisation went through *)
Negotiated(l) ==
  {Outcome(TRUE, [atr |-> l.card, atrLength |-> AtrLen[l.card], params |-> q],
           q, "high", q, q) : q \in CardParams[l.card]}

transport_reset(l, dev, cache) ==
  IF ~l.lib THEN NoPins(l, cache)
  ELSE NoSerial(l, dev, cache) \cup NoAtr(l, dev, cache) \cup
       (IF Reachable(l, dev)
        THEN NoAgreement(l, cache) \cup NoSwitch(l, cache) \cup Negotiated(l)
        ELSE {})
=============================================================================
