------------------------------ MODULE Outputs ------------------------------
(* The outputs of pigpio (src/pigpio/pigpio.c): the mode and the latch of a
   GPIO, the software PWM and servo pulses, which the DMA engine plays from a
   cyclic plan of "on" and "off" slots, and the PWM and clock peripherals, which
   the hardware PWM shares with the waveforms.

   A GPIO is a record, and a C function that touches one GPIO is an operator
   from record to record; a call of the API is an action. A call is atomic:
   the functions take no lock, and the driver makes its calls under the lock of
   the PC/SC daemon.                                                           *)
EXTENDS Integers, FiniteSets

CONSTANTS
  Gpios,              \* the GPIOs of the instance, all of them user GPIOs
  PWMDef,             \* function from the PWM-capable GPIOs to their channel (0 or 1)
  clkDef,             \* function from the clock-capable GPIOs to their clock (0..2)
  Cycles,             \* pwmCycles[i]: the cycles between two pulses at frequency i
  PULSE_PER_CYCLE,    \* slots of a cycle, so pwmRealRange[i] = Cycles[i] * PULSE_PER_CYCLE
  SUPERCYCLE,         \* cycles in the plan
  servoIdx,           \* the frequency index of the servo pulses
  DutyRanges,         \* ranges gpioSetPWMrange accepts
  ServoSlots,         \* servo pulse widths accepted, in slots of the servo cycle
  HwDuties,           \* duty cycles gpioHardwarePWM is called with
  Alt,                \* function from the capable GPIOs to the mode that routes the peripheral
  WatchedPins         \* the GPIOs an instance lets the calls address

FreqIdx == DOMAIN Cycles
Channels == {0, 1}
RealRange(i) == Cycles[i] * PULSE_PER_CYCLE
SUPERLEVEL == SUPERCYCLE * PULSE_PER_CYCLE

ASSUME OutputsAssumption ==
  /\ IsFiniteSet(Gpios)
  /\ DOMAIN PWMDef \subseteq Gpios /\ \A g \in DOMAIN PWMDef : PWMDef[g] \in Channels
  /\ DOMAIN clkDef \subseteq Gpios /\ \A g \in DOMAIN clkDef : clkDef[g] \in 0..2
  /\ \A g \in DOMAIN PWMDef \union DOMAIN clkDef : Alt[g] \notin {"in", "out"}
  /\ PULSE_PER_CYCLE \in Nat \ {0} /\ SUPERCYCLE \in Nat \ {0}
  /\ servoIdx \in FreqIdx
  /\ \A i \in FreqIdx : Cycles[i] \in Nat \ {0} /\ SUPERCYCLE % Cycles[i] = 0
  /\ DutyRanges \subseteq Nat \ {0} /\ DutyRanges # {}
  /\ ServoSlots \subseteq 0..(RealRange(servoIdx) - 1) /\ 0 \in ServoSlots
  /\ WatchedPins \subseteq Gpios

VARIABLES
  gpio,            \* gpioInfo[], the function select and latch registers, the plan's bits
  pwmCtl,          \* PWM_CTL: for each channel "off", "ms" (mark-space) or "fifo" (waveforms)
  pwmClk,          \* what the clock of the PWM peripheral was last set up for
  hwDuty,          \* hw_pwm_duty[]
  hwClk,           \* the clocks GP0..GP2 that run
  waveClockInited, PWMClockInited,
  waveBusy,        \* a waveform is being transmitted
  libInitialised

outputsVars == <<gpio, pwmCtl, pwmClk, hwDuty, hwClk, waveClockInited, PWMClockInited,
                 waveBusy, libInitialised>>
peripherals == <<pwmCtl, pwmClk, hwDuty, hwClk, waveClockInited, PWMClockInited, waveBusy>>

----------------------------------------------------------------------------
(* The plan of one GPIO *)

\* The level slots at offset `o` of every period of `rng` slots.
Slots(o, rng) == {i + o : i \in {s \in 0..(SUPERLEVEL - 1) : s % rng = 0}}
\* The cycles in which a pulse of frequency `i` begins.
OnCycles(i) == {c \in 0..(SUPERCYCLE - 1) : c % Cycles[i] = 0}

\* (mutant: the old "off" is forgotten and not taken out of the plan)
ForgetDeferred(p) == [p EXCEPT !.deferOff = 0]
\* The deferred "off" of an earlier, longer pulse leaves the plan.
DropDeferred(p) ==
  IF p.deferOff = 0 THEN p
  ELSE [p EXCEPT !.off = @ \ Slots(p.deferOff, p.deferRng), !.deferOff = 0]

\* The part myGpioSetPwm and myGpioSetServo have in common: from the offset
\* oldOff to newOff in a period of the frequency i. A shorter pulse keeps the
\* old "off" until the next change, so that a pulse under way still ends.
Replan(p, i, oldOff, newOff) ==
  LET rng == RealRange(i)
      added == IF newOff \in {0, rng} THEN {} ELSE Slots(newOff, rng)
  IN CASE newOff = oldOff -> p
       [] newOff # oldOff /\ newOff > 0 /\ oldOff > newOff ->
            [p EXCEPT !.off = @ \union added, !.deferOff = oldOff, !.deferRng = rng]
       [] newOff > oldOff /\ oldOff > 0 ->
            [p EXCEPT !.off = (@ \union added) \ Slots(oldOff, rng)]
       [] newOff > oldOff /\ oldOff = 0 ->
            [p EXCEPT !.off = @ \union added, !.on = @ \union OnCycles(i)]
       [] newOff < oldOff /\ newOff = 0 ->
            [p EXCEPT !.off = @ \ Slots(oldOff, rng), !.on = @ \ OnCycles(i), !.latch = 0]

PwmOff(p, val) == (val * RealRange(p.freqIdx)) \div p.range
myGpioSetPwm(p, old, new) ==
  Replan(DropDeferred(p), p.freqIdx, PwmOff(p, old), PwmOff(p, new))
\* A servo pulse never fills its period. The call that stops it waits for the
\* pulse under way, whose "off" leaves the latch low.
myGpioSetServo(p, old, new) == Replan(DropDeferred(p), servoIdx, old, new)

switchFunctionOff(p) ==
  CASE p.is = "servo" -> [myGpioSetServo(p, p.width, 0) EXCEPT !.width = 0]
    [] p.is = "pwm" -> [myGpioSetPwm(p, p.width, 0) EXCEPT !.width = 0]
    [] p.is \in {"hw_clk", "hw_pwm"} -> [p EXCEPT !.width = 0]
    [] OTHER -> p

myGpioSetMode(p, m) == [p EXCEPT !.mode = m]
\* A GPIO leaves its function for the function f, as the calls do when
\* gpioInfo[gpio].is differs.
Become(p, f) == IF p.is = f THEN p ELSE [switchFunctionOff(p) EXCEPT !.is = f]

----------------------------------------------------------------------------
(* What a GPIO answers about its pulses *)

PI_HW_PWM_RANGE == 1000000

gpioGetPWMdutycycle(g) ==
  CASE gpio[g].is = "pwm" -> gpio[g].width
    [] gpio[g].is = "hw_pwm" -> hwDuty[PWMDef[g]]
    [] gpio[g].is = "hw_clk" -> PI_HW_PWM_RANGE \div 2
    [] OTHER -> 0
gpioGetPWMrange(g) ==
  IF gpio[g].is \in {"hw_pwm", "hw_clk"} THEN PI_HW_PWM_RANGE ELSE gpio[g].range
\* (That of hardware PWM follows from its frequency, which is left out.)
gpioGetPWMrealRange(g) ==
  IF gpio[g].is = "hw_clk" THEN PI_HW_PWM_RANGE ELSE RealRange(gpio[g].freqIdx)
gpioGetServoPulsewidth(g) == IF gpio[g].is = "servo" THEN gpio[g].width ELSE 0

----------------------------------------------------------------------------
OutputsInit ==
  /\ gpio = [g \in Gpios |->
       [is |-> "undefined", width |-> 0, range |-> CHOOSE r \in DutyRanges : TRUE,
        freqIdx |-> CHOOSE i \in FreqIdx : TRUE, deferOff |-> 0, deferRng |-> 1,
        mode |-> "in", latch |-> 0, on |-> {}, off |-> {}]]
  /\ pwmCtl = [c \in Channels |-> "off"]
  /\ pwmClk = "none"
  /\ hwDuty = [c \in Channels |-> 0]
  /\ hwClk = {}
  /\ waveClockInited = FALSE /\ PWMClockInited = FALSE /\ waveBusy = FALSE
  /\ libInitialised = FALSE

\* A call of the API that touches the GPIO g alone.
Touch(g, p) == /\ gpio' = [gpio EXCEPT ![g] = p]
               /\ UNCHANGED peripherals /\ UNCHANGED libInitialised

gpioSetMode(g, m) ==
  Touch(g, myGpioSetMode(IF m # gpio[g].mode
                         THEN [switchFunctionOff(gpio[g]) EXCEPT !.is = "undefined"]
                         ELSE gpio[g], m))

gpioWrite(g, level) ==
  Touch(g, [myGpioSetMode(Become(gpio[g], "write"), "out") EXCEPT !.latch = level])

gpioPWM(g, val) ==
  LET p == Become(gpio[g], "pwm")
      q == IF val = 0 /\ gpio[g].is # "pwm" THEN [p EXCEPT !.latch = 0] ELSE p
  IN /\ val <= gpio[g].range
     /\ Touch(g, [myGpioSetPwm(myGpioSetMode(q, "out"), q.width, val) EXCEPT !.width = val])

gpioSetPWMrange(g, range) ==
  LET p == gpio[g]
      new == (range * p.width) \div p.range
      stopped == [myGpioSetPwm(p, p.width, 0) EXCEPT !.range = range, !.width = new]
  IN Touch(g, IF p.width > 0 /\ p.is = "pwm" THEN myGpioSetPwm(stopped, 0, new)
              ELSE [p EXCEPT !.range = range])

\* The nearest of the available frequencies, chosen before this point, is `i`.
gpioSetPWMfrequency(g, i) ==
  LET p == gpio[g]
      stopped == [myGpioSetPwm(p, p.width, 0) EXCEPT !.freqIdx = i]
  IN Touch(g, IF p.width > 0 /\ p.is = "pwm" THEN myGpioSetPwm(stopped, 0, p.width)
              ELSE [p EXCEPT !.freqIdx = i])

gpioServo(g, val) ==
  LET p == Become(gpio[g], "servo")
      q == IF val = 0 /\ gpio[g].is # "servo" THEN [p EXCEPT !.latch = 0] ELSE p
  IN Touch(g, [myGpioSetServo(myGpioSetMode(q, "out"), q.width, val) EXCEPT !.width = val])

\* gpioWrite_Bits_0_31_Set and _Clear write the latches and nothing else.
gpioWrite_Bits(gs, level) ==
  /\ gpio' = [g \in Gpios |-> IF g \in gs THEN [gpio[g] EXCEPT !.latch = level] ELSE gpio[g]]
  /\ UNCHANGED peripherals /\ UNCHANGED libInitialised

\* A pulse ends at the level it did not have, whatever the GPIO was at before.
gpioTrigger(g, level) == Touch(g, [gpio[g] EXCEPT !.latch = 1 - level])

----------------------------------------------------------------------------
(* The shared peripherals *)

\* The GPIOs whose hardware PWM stopHardwarePWM ends, and their channels.
HwPwmGpios == {g \in Gpios : gpio[g].is = "hw_pwm"}
WithoutHwPwm == [g \in Gpios |-> IF g \in HwPwmGpios
                                 THEN [gpio[g] EXCEPT !.width = 0, !.is = "undefined"]
                                 ELSE gpio[g]]
stopHardwarePWM ==
  /\ gpio' = WithoutHwPwm
  /\ pwmCtl' = [c \in Channels |-> IF \E g \in HwPwmGpios : PWMDef[g] = c THEN "off"
                                   ELSE pwmCtl[c]]
  /\ UNCHANGED <<pwmClk, hwDuty, hwClk, waveClockInited, PWMClockInited, waveBusy,
                 libInitialised>>

\* gpioHardwareClock: the GPIO is routed to its clock; nothing is switched off
\* first. Frequency 0 kills the clock.
gpioHardwareClock(g, on) ==
  /\ hwClk' = IF on THEN hwClk \union {clkDef[g]} ELSE hwClk \ {clkDef[g]}
  /\ gpio' = [gpio EXCEPT ![g] =
       IF on THEN [myGpioSetMode(@, Alt[g]) EXCEPT !.is = "hw_clk"]
       ELSE IF @.is = "hw_clk" THEN [@ EXCEPT !.is = "undefined"] ELSE @]
  /\ UNCHANGED <<pwmCtl, pwmClk, hwDuty, waveClockInited, PWMClockInited, waveBusy,
                 libInitialised>>

\* gpioHardwarePWM with a frequency: it ends a waveform under way and takes the
\* clock of the peripheral; only enable and mark-space bits survive.
HardwarePWMOn(g, duty) ==
  LET c == PWMDef[g]
      kept == [d \in Channels |-> IF pwmCtl[d] = "fifo" THEN "plain" ELSE pwmCtl[d]]
  IN /\ hwDuty' = [hwDuty EXCEPT ![c] = duty]
     /\ waveBusy' = FALSE
     /\ waveClockInited' = FALSE
     /\ pwmClk' = IF PWMClockInited THEN pwmClk ELSE "plld"
     /\ PWMClockInited' = TRUE
     /\ pwmCtl' = [kept EXCEPT ![c] = "ms"]
     /\ gpio' = [gpio EXCEPT ![g] =
          IF @.is = "hw_pwm" THEN @
          ELSE [myGpioSetMode(switchFunctionOff(@), Alt[g]) EXCEPT !.is = "hw_pwm"]]
     /\ UNCHANGED <<hwClk, libInitialised>>

\* Frequency 0 stops the channel if the GPIO is playing hardware PWM.
HardwarePWMOff(g) ==
  /\ gpio[g].is = "hw_pwm"
  /\ pwmCtl' = [pwmCtl EXCEPT ![PWMDef[g]] = "off"]
  /\ gpio' = [gpio EXCEPT ![g].is = "undefined"]
  /\ UNCHANGED <<pwmClk, hwDuty, hwClk, waveClockInited, PWMClockInited, waveBusy,
                 libInitialised>>

\* gpioWaveTxSend as far as the peripherals see it: the first waveform after a
\* hardware PWM takes the PWM peripheral back for the pacing of the waveforms.
WaveSent ==
  /\ waveBusy' = TRUE
  /\ IF waveClockInited
       THEN UNCHANGED <<gpio, pwmCtl, pwmClk, waveClockInited, PWMClockInited>>
       ELSE /\ gpio' = WithoutHwPwm
            /\ pwmCtl' = [c \in Channels |-> IF c = 0 THEN "fifo" ELSE "off"]
            /\ pwmClk' = "wave"
            /\ waveClockInited' = TRUE /\ PWMClockInited' = FALSE
  /\ UNCHANGED <<hwDuty, hwClk, libInitialised>>

\* The last control block was played, or gpioWaveTxStop was called.
WaveEnded == /\ waveBusy /\ waveBusy' = FALSE
             /\ UNCHANGED <<gpio, pwmCtl, pwmClk, hwDuty, hwClk, waveClockInited,
                            PWMClockInited, libInitialised>>

\* gpioTerminate kills both DMA channels and frees the plan; the registers of
\* the peripherals and of the GPIOs stay as they are, in hardware.
OutputsTerminate ==
  /\ libInitialised /\ libInitialised' = FALSE
  /\ gpio' = [g \in Gpios |-> [gpio[g] EXCEPT !.on = {}, !.off = {}]]
  /\ waveBusy' = FALSE
  /\ UNCHANGED <<pwmCtl, pwmClk, hwDuty, hwClk, waveClockInited, PWMClockInited>>

\* initInitialise forgets the two clocks, initClearGlobals the functions of the
\* GPIOs; neither stops what the peripherals still do.
OutputsInitialise ==
  /\ ~libInitialised /\ libInitialised' = TRUE
  /\ waveClockInited' = FALSE /\ PWMClockInited' = FALSE
  /\ gpio' = [g \in Gpios |-> [gpio[g] EXCEPT !.is = "undefined", !.width = 0,
                 !.range = CHOOSE r \in DutyRanges : TRUE,
                 !.freqIdx = CHOOSE i \in FreqIdx : TRUE]]
  /\ UNCHANGED <<pwmCtl, pwmClk, hwDuty, hwClk, waveBusy>>

OutputsNext ==
  \/ /\ libInitialised
     /\ \/ \E g \in WatchedPins :
             \/ \E m \in {"in", "out"} : gpioSetMode(g, m)
             \/ \E level \in {0, 1} : gpioWrite(g, level) \/ gpioTrigger(g, level)
             \/ \E val \in 0..gpio[g].range : gpioPWM(g, val)
             \/ \E r \in DutyRanges : gpioSetPWMrange(g, r)
             \/ \E i \in FreqIdx : gpioSetPWMfrequency(g, i)
             \/ \E val \in ServoSlots : gpioServo(g, val)
        \/ \E g \in WatchedPins \intersect DOMAIN PWMDef : gpioSetMode(g, Alt[g])
        \/ \E g \in DOMAIN PWMDef, duty \in HwDuties : HardwarePWMOn(g, duty)
        \/ \E g \in DOMAIN PWMDef : HardwarePWMOff(g)
        \/ \E g \in DOMAIN clkDef, on \in BOOLEAN : gpioHardwareClock(g, on)
        \/ \E level \in {0, 1} : gpioWrite_Bits(WatchedPins, level)
        \/ stopHardwarePWM \/ WaveSent \/ WaveEnded
  \/ OutputsTerminate \/ OutputsInitialise
OutputsSpec == OutputsInit /\ [][OutputsNext]_outputsVars

----------------------------------------------------------------------------
(* What one may rely on *)

\* No "off" is ever set outside the plan, except for a clock-capable GPIO: a width
\* that gpioHardwareClock left behind may exceed a range set since.
OutputsTypeOK ==
  /\ \A g \in Gpios : LET p == gpio[g] IN
       /\ p.is \in {"undefined", "write", "pwm", "servo", "hw_clk", "hw_pwm"}
       /\ p.width \in Nat /\ p.range \in DutyRanges /\ p.freqIdx \in FreqIdx
       /\ p.latch \in {0, 1} /\ p.on \subseteq 0..(SUPERCYCLE - 1)
       /\ p.deferRng \in 1..SUPERLEVEL
       /\ g \notin DOMAIN clkDef => p.deferOff \in 0..SUPERLEVEL /\ p.off \subseteq 1..SUPERLEVEL
  /\ pwmCtl \in [Channels -> {"off", "plain", "ms", "fifo"}]
  /\ pwmClk \in {"none", "plld", "wave"}
  /\ hwDuty \in [Channels -> HwDuties \union {0}] /\ hwClk \subseteq 0..2
  /\ {waveClockInited, PWMClockInited, waveBusy, libInitialised} \subseteq BOOLEAN

\* The offset at which a pulse of g ends, by what g answers, and the frequency.
AnsweredOff(g) ==
  CASE gpio[g].is = "pwm" ->
         (gpioGetPWMdutycycle(g) * gpioGetPWMrealRange(g)) \div gpioGetPWMrange(g)
    [] OTHER -> gpioGetServoPulsewidth(g)
AnsweredIdx(g) == IF gpio[g].is = "servo" THEN servoIdx ELSE gpio[g].freqIdx

\* The plan the DMA engine plays is, after any sequence of calls, the one of the
\* function, width, range and frequency a GPIO answers, plus the one old "off"
\* that a change deferred: no pulse of an earlier function is left behind.
\* (A clock-capable GPIO is left out: gpioHardwareClock leaves pulses behind.)
PlanMatchesAnswers ==
  libInitialised => \A g \in Gpios \ DOMAIN clkDef :
    LET p == gpio[g]
        o == AnsweredOff(g)
        rng == RealRange(AnsweredIdx(g))
        deferred == IF p.deferOff \in 1..(p.deferRng - 1)
                    THEN Slots(p.deferOff, p.deferRng) ELSE {}
    IN /\ p.on = IF o = 0 THEN {} ELSE OnCycles(AnsweredIdx(g))
       /\ o \in 1..(rng - 1) => p.off = Slots(o, rng) \union deferred
       /\ o \in {0, rng} => p.off \subseteq deferred

\* A GPIO that plays hardware PWM has its channel running, and at the clock the
\* frequencies were computed for: neither a waveform nor another GPIO took it.
HardwarePWMPlays ==
  libInitialised => \A g \in HwPwmGpios :
    pwmCtl[PWMDef[g]] = "ms" /\ PWMClockInited /\ pwmClk = "plld" /\ gpio[g].mode = Alt[g]

\* A waveform under way is paced: the PWM peripheral serves the FIFO at the
\* clock of the waveforms as long as the second DMA channel is active.
WaveIsPaced == waveBusy => pwmClk = "wave" /\ pwmCtl[0] = "fifo" /\ waveClockInited

\* What the calls leave in the plan and in the peripherals is what they answer.
OutputsAgree == OutputsTypeOK /\ PlanMatchesAnswers /\ HardwarePWMPlays /\ WaveIsPaced
=============================================================================
