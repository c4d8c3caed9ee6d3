--------------------------- MODULE ResetProcedure ---------------------------
(***************************************************************************)
(* transport_reset (transport/reset.c) step by step: the reset line, the   *)
(* serial port and the clock, reading the answer to reset, choosing the    *)
(* protocol and the parameters, the PPS exchange, and the second           *)
(* iteration for a card that asks for one; with the card's part in it.     *)
(*                                                                         *)
(* CardReset states what one call may leave behind, and ReaderSession is   *)
(* built on that; EndsAsPromised says that this procedure keeps to it.     *)
(***************************************************************************)
EXTENDS CardReset

CONSTANTS
  CardAnswers,   \* CardAnswers[c]: the answers to reset of card c
  Best,      \* Best[c]: the parameters for the F and D that
             \* choose_best_f_d_indices picks for c (None: not supported)
  Fallback   \* Fallback[c]: the parameters for the default F and D

(* What parse_atr makes of an ATR: the protocol TA2 enforces, and if it    *)
(* does, whether the card can change its mode; whether T=0 is among the    *)
(* protocols; and whether TA1 is present and has a usable F and D.         *)
AtrInfo == [ta2 : {"absent", "t0", "other", "other_changeable"},
            t0 : BOOLEAN,
            ta1 : {"absent", "usable", "unusable"}]

ASSUME ProcedureAssumption ==
  /\ CardAnswers \in [Cards -> SUBSET AtrInfo]
  /\ Best \in [Cards -> Params \cup {None}]
  /\ Fallback \in [Cards -> Params \cup {None}]
  /\ \A c \in Cards : CardParams[c] = {Best[c], Fallback[c]} \ {None}
  /\ TwoModeCards = {c \in Cards : \E a \in CardAnswers[c] : a.ta2 = "other_changeable"}

VARIABLES
  stage,      \* where transport_reset is
  iteration,  \* 1, or 2 after transport_status_need_reset
  slotLine,   \* port, pins and card
  dev,        \* the device the reader has opened
  cache,      \* what the reader has cached
  info,       \* the parsed ATR
  fd,         \* the F and D chosen: the best ones or the default ones
  ok,         \* transport_reset returned transport_status_ok
  start       \* line and cache at the call

resetVars == <<stage, iteration, slotLine, dev, cache, info, fd, ok, start>>

NoInfo == [ta2 |-> "absent", t0 |-> TRUE, ta1 |-> "absent"]

Steps == {"rst_down", "default_serial", "default_clock", "rst_up", "read_atr", "protocol",
          "choose", "pps", "switch_serial", "switch_clock", "done"}

Goes(next) == stage' = next /\ UNCHANGED <<iteration, dev, start, ok>>

GivesUp == stage' = "done" /\ ok' = FALSE /\ UNCHANGED <<iteration, dev, start>>

(* hw_rst_down fails if pigpio is not initialised, and only then *)
RstDown ==
  /\ stage = "rst_down"
  /\ IF slotLine.lib
     THEN slotLine' = [slotLine EXCEPT !.rst = "low", !.mode = None] /\ Goes("default_serial")
     ELSE UNCHANGED slotLine /\ GivesUp
  /\ UNCHANGED <<cache, info, fd>>

(***************************************************************************)
(* transport_reinitialize: the parameters are recorded, the port is set,   *)
(* the clock stopped and started.  Setting the port fails before tcsetattr *)
(* has had its effect, or after it, in tcflush.                            *)
(***************************************************************************)
SetsSerial(p, next) ==
  /\ cache' = [cache EXCEPT !.params = p]
  /\ \/ slotLine' = [slotLine EXCEPT !.port = p] /\ Goes(next)
     \/ slotLine' \in {slotLine, [slotLine EXCEPT !.port = p]} /\ GivesUp
  /\ UNCHANGED <<info, fd>>

(* mutant: the clock is left running as it was *)
ClockLeft(p) == slotLine

SetsClock(p) == [slotLine EXCEPT !.clock = p]

DefaultSerial == stage = "default_serial" /\ SetsSerial(DefaultParams, "default_clock")

DefaultClock ==
  /\ stage = "default_clock"
  /\ slotLine' = SetsClock(DefaultParams)
  /\ Goes("rst_up")
  /\ UNCHANGED <<cache, info, fd>>

(* 400 clock cycles later RST goes up, and a card comes to life *)
RstUp ==
  /\ stage = "rst_up"
  /\ slotLine' = [slotLine EXCEPT !.rst = "high", !.mode = AfterReset(slotLine)]
  /\ Goes("read_atr")
  /\ UNCHANGED <<cache, info, fd>>

(***************************************************************************)
(* read_atr and parse_atr, and the copy of the ATR to the reader.          *)
(***************************************************************************)
ReadAtr ==
  /\ stage = "read_atr"
  /\ Reachable(slotLine, dev)
  /\ info' \in CardAnswers[slotLine.card]
  /\ cache' = [cache EXCEPT !.atr = slotLine.card]
  /\ Goes("protocol")
  /\ UNCHANGED <<slotLine, fd>>

(* nothing comes, or nothing that is an ATR *)
NoAnswer == stage = "read_atr" /\ GivesUp /\ UNCHANGED <<slotLine, cache, info, fd>>

(* mutant: a card that insists is asked again and again *)
AnyIteration == TRUE

FirstIteration == iteration = 1

(* mutant: the second call is the first one again *)
SameIteration == iteration

NextIteration == iteration + 1

(* transport_status_need_reset makes transport_reset try again, once *)
NeedsReset == info.ta2 = "other_changeable"

TriesAgain ==
  /\ stage = "protocol" /\ NeedsReset
  /\ IF FirstIteration
     THEN iteration' = NextIteration /\ stage' = "rst_down" /\ UNCHANGED <<dev, start, ok>>
     ELSE GivesUp
  /\ UNCHANGED <<slotLine, cache, info, fd>>

SpeaksT0 == info.ta2 = "t0" \/ (info.ta2 = "absent" /\ info.t0)

ChoosesProtocol ==
  /\ stage = "protocol" /\ ~NeedsReset
  /\ IF SpeaksT0 THEN Goes("choose") ELSE GivesUp
  /\ UNCHANGED <<slotLine, cache, info, fd>>

(* choose_best_f_d_indices, if there is a TA1 *)
ChoosesFD ==
  /\ stage = "choose"
  /\ CASE info.ta1 = "absent"   -> fd' = "default" /\ Goes("pps")
       [] info.ta1 = "usable"   -> fd' = "best" /\ Goes("pps")
       [] info.ta1 = "unusable" -> UNCHANGED fd /\ GivesUp
  /\ UNCHANGED <<slotLine, cache, info>>

(***************************************************************************)
(* do_pps_exchange.  The card answers with PPS1 and goes over to the F and *)
(* D that were proposed, or without it and keeps the default ones.  Any    *)
(* other answer, or none, fails the exchange, with the card in either      *)
(* state.                                                                  *)
(***************************************************************************)
Proposed(c, choice) == IF choice = "best" THEN Best[c] ELSE Fallback[c]

(* mutant: an answer without PPS1 is taken for an agreement *)
KeepsProposal(agreed) == fd

(* iso7816_3_status_pps_exchange_use_default_f_d *)
ChoiceAfterPps(agreed) == IF agreed THEN fd ELSE "default"

(* the parameters a card goes over to: F and D that the driver can compute *)
(* none for leave it at some rate                                          *)
CardAt(p) == IF p = None THEN Params ELSE {p}

PpsAnswered ==
  /\ stage = "pps"
  /\ \E agreed \in BOOLEAN :
       /\ \E m \in CardAt(Proposed(slotLine.card, IF agreed THEN fd ELSE "default")) :
            slotLine' = [slotLine EXCEPT !.mode = m]
       /\ fd' = ChoiceAfterPps(agreed)
       (* transmit_params_init *)
       /\ IF Proposed(slotLine.card, fd') # None THEN Goes("switch_serial") ELSE GivesUp
  /\ UNCHANGED <<cache, info>>

PpsFails ==
  /\ stage = "pps"
  /\ \E m \in Params : slotLine' = [slotLine EXCEPT !.mode = m]
  /\ GivesUp
  /\ UNCHANGED <<cache, info, fd>>

SwitchSerial == stage = "switch_serial" /\ SetsSerial(Proposed(slotLine.card, fd), "switch_clock")

(* reader_reset_impl then stores the length of the ATR *)
SwitchClock ==
  /\ stage = "switch_clock"
  /\ slotLine' = SetsClock(cache.params)
  /\ cache' = [cache EXCEPT !.atrLength = AtrLen[slotLine.card]]
  /\ stage' = "done" /\ ok' = TRUE
  /\ UNCHANGED <<iteration, dev, start, info, fd>>

-----------------------------------------------------------------------------
(* The reset may be called with the reader, the port and the card in any   *)
(* state, within what the pins allow: no clock and no driven RST before    *)
(* pigpio is initialised, and no rate for a card that is held in reset.    *)
Feasible(l) ==
  /\ ~l.lib => l.rst = "input" /\ l.clock = None
  /\ l.card = None \/ l.rst # "high" => l.mode = None

ResetInit ==
  /\ stage = "rst_down" /\ iteration = 1 /\ ok = FALSE
  /\ info = NoInfo /\ fd = "default"
  /\ slotLine \in {l \in Line : Feasible(l)} /\ dev \in Devices /\ cache \in AtrCache
  /\ start = [line |-> slotLine, cache |-> cache]

ResetNext ==
  \/ RstDown \/ DefaultSerial \/ DefaultClock \/ RstUp
  \/ ReadAtr \/ NoAnswer \/ TriesAgain \/ ChoosesProtocol \/ ChoosesFD
  \/ PpsAnswered \/ PpsFails \/ SwitchSerial \/ SwitchClock

(* nothing in the procedure waits for ever: reads return by VTIME *)
ResetSpec == ResetInit /\ [][ResetNext]_resetVars /\ WF_resetVars(ResetNext)

-----------------------------------------------------------------------------
(* Properties *)

(* Every variable has its type. *)
ResetTypeOK ==
  /\ stage \in Steps /\ iteration \in 1..2
  /\ slotLine \in Line /\ dev \in Devices /\ cache \in AtrCache
  /\ info \in AtrInfo /\ fd \in {"best", "default"} /\ ok \in BOOLEAN
  /\ start \in [line : Line, cache : AtrCache]

Left == Outcome(ok, cache, slotLine.port, slotLine.rst, slotLine.clock, slotLine.mode)

(* Wherever the procedure ends, it leaves the reader, the port, the pins   *)
(* and the card in one of the states CardReset lists: in particular it     *)
(* succeeds only with port, clock and card at the parameters the reader    *)
(* has recorded, whichever way the PPS exchange went.                      *)
EndsAsPromised ==
  stage = "done" => Left \in transport_reset(start.line, dev, start.cache)

(* While the card is spoken to, the port and the clock are at the rate the *)
(* card is set to: the ATR and the PPS exchange run at the default one.    *)
SpeaksAtCardsRate ==
  stage \in {"read_atr", "protocol", "choose", "pps"} /\ slotLine.card # None =>
    slotLine.port = slotLine.mode /\ slotLine.clock = slotLine.mode

(* Both, of variables that have their types. *)
ResetKept == ResetTypeOK /\ EndsAsPromised /\ SpeaksAtCardsRate

(* Every reset ends, also of a card that asks for another one every time.  *)
Ends == <>(stage = "done")
=============================================================================
