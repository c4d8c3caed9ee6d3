--------------------------- MODULE SpeedSelection ---------------------------
(***************************************************************************)
(* How transport/reset.c turns TA1, TC2 and the answer to PPS into the     *)
(* parameters of the line: choose_best_f_d_indices, loop by loop, and      *)
(* transmit_params_init, with the tables of iso7816_3/utils.c.             *)
(*                                                                         *)
(* The code computes in double; for every entry of the tables its          *)
(* frequency is the integer etu * baudrate, and no frequency falls on a    *)
(* limit.                                                                  *)
(***************************************************************************)
EXTENDS Integers, FiniteSetsExt

CONSTANT WIs  \* the waiting time integers (TC2, or 10 without it)

ASSUME SelectionAssumption == WIs \subseteq 0..255

VARIABLES
  speedPc,  \* where do_transport_reset is
  ta1,      \* f_d_index_max: the indices of TA1, or those of the default
  wi,       \* the waiting time integer
  tested,   \* f_d_index_tested
  chosen,   \* f_d_index_result (NotFound: found_first is false)
  params    \* what transmit_params_init computed

speedVars == <<speedPc, ta1, wi, tested, chosen, params>>

RFU == 0
f_d_index_default == <<1, 1>>
NotFound == <<-1, -1>>

(* F and the highest frequency, by f_index; D, by d_index *)
f_table == <<372, 372, 558, 744, 1116, 1488, 1860, RFU, RFU, 512, 768, 1024, 1536, 2048, RFU, RFU>>
freq_max_table ==
  <<4000000, 5000000, 6000000, 8000000, 12000000, 16000000, 20000000, RFU, RFU,
    5000000, 7500000, 10000000, 15000000, 20000000, RFU, RFU>>
d_table == <<RFU, 1, 2, 4, 8, 16, 32, 64, 12, 20, RFU, RFU, RFU, RFU, RFU, RFU>>

F(fd) == f_table[fd[1] + 1]
FreqMax(fd) == freq_max_table[fd[1] + 1]
D(fd) == d_table[fd[2] + 1]

Baudrates == {75, 110, 134, 150, 300, 600, 1200, 1800, 2400, 4800, 9600, 19200, 38400, 57600,
              115200, 230400}
min_freq == 1000000

(* f / d in uint32_t *)
etu(fd) == F(fd) \div D(fd)

(* mutant: the clock may be as fast as the hardware can make it *)
AnyFastClock(fd) ==
  IF F(fd) = RFU \/ D(fd) = RFU THEN {} ELSE {b \in Baudrates : etu(fd) * b >= min_freq}

(* the baud rates at which the clock is in range; F and D must be known *)
Possible(fd) ==
  IF F(fd) = RFU \/ D(fd) = RFU THEN {}
  ELSE {b \in Baudrates : etu(fd) * b >= min_freq /\ etu(fd) * b < FreqMax(fd)}

Supported(fd) == Possible(fd) # {}

(* transmit_speed_from_f_d: the fastest of them *)
transmit_speed(fd) ==
  LET b == Max(Possible(fd)) IN [baudrate |-> b, freq |-> etu(fd) * b]

(* mutant: the higher clock is the better one *)
PrefersHighClock(left, right) ==
  \/ left.baudrate < right.baudrate
  \/ left.baudrate = right.baudrate /\ left.freq < right.freq

transmit_speed_is_worse_than(left, right) ==
  \/ left.baudrate < right.baudrate
  \/ left.baudrate = right.baudrate /\ left.freq > right.freq

(***************************************************************************)
(* choose_best_f_d_indices                                                 *)
(***************************************************************************)
Better(fd) ==
  chosen = NotFound \/ transmit_speed_is_worse_than(transmit_speed(chosen), transmit_speed(fd))

LastTested == tested = ta1

NextTested == IF tested[2] < ta1[2] THEN <<tested[1], tested[2] + 1>> ELSE <<tested[1] + 1, 0>>

Test ==
  /\ speedPc = "choose"
  /\ chosen' = IF Supported(tested) /\ Better(tested) THEN tested ELSE chosen
  /\ IF LastTested THEN speedPc' = "chosen" /\ UNCHANGED tested
                   ELSE tested' = NextTested /\ UNCHANGED speedPc
  /\ UNCHANGED <<ta1, wi, params>>

NotSupported ==
  /\ speedPc = "chosen" /\ chosen = NotFound
  /\ speedPc' = "refused"
  /\ UNCHANGED <<ta1, wi, tested, chosen, params>>

(***************************************************************************)
(* transmit_params_init, for what the PPS exchange agreed on: the chosen F *)
(* and D or the default ones.  WT is taken of the F of TA1, if there is    *)
(* one, in units of 100 Hz to stay in range.                               *)
(***************************************************************************)
Fi == F(ta1)

(* the waiting time in tenths of a second: 10 * wi * 960 * Fi / freq *)
WtNumerator == 96 * wi * Fi
WtDenominator(fd) == transmit_speed(fd).freq \div 100

(* mutant: the fraction of a tick is cut off *)
RoundedDown(n, m) == n \div m

(* ceil *)
Ticks(n, m) == (n + m - 1) \div m

wt_ds(fd) == Ticks(WtNumerator, WtDenominator(fd))

(* compute_extra_gt: a guard time that is counted in units of TA1, which   *)
(* are not known if it names none; its result is never used.               *)
GuardTimeUnknown == Fi = RFU \/ D(ta1) = RFU

(* VTIME has eight bits *)
TooLong(fd) == WtNumerator > 255 * WtDenominator(fd)

transmit_params_init(fd) ==
  /\ speedPc = "chosen" /\ chosen # NotFound
  /\ \E guardByTA1 \in BOOLEAN :
     IF (guardByTA1 /\ GuardTimeUnknown) \/ Fi = RFU \/ TooLong(fd)
     THEN speedPc' = "refused" /\ UNCHANGED params
     ELSE /\ speedPc' = "accepted"
          /\ params' = [fd |-> fd, speed |-> transmit_speed(fd), wt_ds |-> wt_ds(fd)]
  /\ UNCHANGED <<ta1, wi, tested, chosen>>

-----------------------------------------------------------------------------
Default == [fd |-> f_d_index_default, speed |-> [baudrate |-> 9600, freq |-> 3570058],
            wt_ds |-> 11]

(* without a TA1 nothing is tested *)
SpeedInit ==
  /\ wi \in WIs /\ params = Default
  /\ \/ speedPc = "choose" /\ ta1 \in (0..15) \X (0..15) /\ tested = <<0, 0>> /\ chosen = NotFound
     \/ /\ speedPc = "chosen" /\ ta1 = f_d_index_default
        /\ tested = <<0, 0>> /\ chosen = f_d_index_default

SpeedNext ==
  \/ Test
  \/ NotSupported
  \/ \E fd \in {chosen, f_d_index_default} : transmit_params_init(fd)

SpeedSpec == SpeedInit /\ [][SpeedNext]_speedVars

-----------------------------------------------------------------------------
(* Properties *)

UpTo(fd) == {x \in (0..fd[1]) \X (0..fd[2]) : Supported(x)}

AtLeastAsGood(s, t) ==
  s.baudrate >= t.baudrate /\ (s.baudrate = t.baudrate => s.freq <= t.freq)

(* When the loops end, the pair they have kept is a best one of all that   *)
(* are not above TA1: nothing gives a faster line, nor the same speed with *)
(* a slower clock; and there is none only if none is supported             *)
(* (choose_best_f_d_indices).                                              *)
BestIsChosen ==
  speedPc = "chosen" /\ tested = ta1 =>
    IF UpTo(ta1) = {} THEN chosen = NotFound
    ELSE /\ chosen \in UpTo(ta1)
         /\ \A x \in UpTo(ta1) : AtLeastAsGood(transmit_speed(chosen), transmit_speed(x))

(* The clock is not faster than the card's TA1 allows, although the pair   *)
(* it is computed from is another one.                                     *)
ClockWithinCardLimits ==
  speedPc = "accepted" => /\ params.speed.freq < FreqMax(ta1)
                     /\ params.speed.freq >= min_freq

(* A read waits at least as long as the card may take to answer.           *)
TimeoutCoversWaitingTime ==
  speedPc = "accepted" =>
    /\ params.wt_ds \in 0..255
    /\ params.wt_ds * (params.speed.freq \div 100) >= WtNumerator

(* The three together. *)
SpeedSuitsCard == BestIsChosen /\ ClockWithinCardLimits /\ TimeoutCoversWaitingTime

(* "f = 1 / T; T = symbol_time / etu_periods" (reset.c): at the frequency  *)
(* chosen, the card's symbol, F / D clock cycles, lasts as long as the     *)
(* UART's.  A receiver that samples the tenth bit of a character in its    *)
(* middle tolerates one part in twenty.                                    *)
Distance(x, y) == IF x > y THEN x - y ELSE y - x

SymbolTimesAgree ==
  speedPc = "accepted" =>
    LET cardRate == (params.speed.freq * D(params.fd)) \div F(params.fd)
    IN 20 * Distance(params.speed.baudrate, cardRate) <= params.speed.baudrate
=============================================================================
