------------------------------ MODULE Hardware ------------------------------
(* The hardware layer of the driver on pigpio
   (src/rtuartscreader/hardware/configuration/pigpio/hardware.c), called the way
   the transport calls it (transport/initialize.c, transport/reset.c): every
   call of pigpio is a step, so that a reader stopped between two of them is
   seen, and a step is the action of module Outputs that models the call.     *)
EXTENDS Outputs, Sequences

CONSTANTS PIN_PWM0, PIN_SC_RST, DUTY_CYCLE_50_PERCENT

ASSUME HardwareAssumption ==
  /\ PIN_PWM0 \in DOMAIN PWMDef /\ PIN_SC_RST \in Gpios /\ PIN_PWM0 # PIN_SC_RST
  /\ DUTY_CYCLE_50_PERCENT \in HwDuties

VARIABLE calls    \* the calls of pigpio the transport's function still makes

hardwareVars == <<calls, outputsVars>>

hw_initialize == <<"gpioInitialise">>
hw_start_clock == <<"pwm_mode", "pwm_on">>
hw_stop_clock == <<"stopHardwarePWM">>
hw_rst_initialize == <<"rst_out", "rst_0">>
hw_rst_down_up == <<"rst_0", "gpioSleep", "rst_1">>
hw_rst_deinitialize == <<"rst_0", "rst_in">>
hw_deinitialize == <<"gpioTerminate">>

\* transport_initialize; gpioInitialise may fail, the other calls then fail only
\* on a library that is not initialised, which it is.
transport_initialize == hw_initialize \o hw_rst_initialize \o hw_start_clock
transport_reinitialize == hw_stop_clock \o hw_start_clock
do_transport_reset == <<"rst_0">> \o transport_reinitialize \o hw_rst_down_up
\* (mutant: the clock is left running when the slot is given back)
LeaveClockRunning == hw_rst_deinitialize \o hw_deinitialize
transport_deinitialize == hw_stop_clock \o hw_rst_deinitialize \o hw_deinitialize

TransportCalls ==
  /\ calls = <<>>
  /\ calls' \in IF libInitialised
                THEN {transport_reinitialize, do_transport_reset, transport_deinitialize}
                ELSE {transport_initialize}
  /\ UNCHANGED outputsVars

InitialiseFails == /\ calls # <<>> /\ Head(calls) = "gpioInitialise"
                   /\ calls' = <<>> /\ UNCHANGED outputsVars

\* The serial port refuses the default or the new settings: the transport
\* returns before it touches the clock.
SerialFails == /\ Len(calls) > 1 /\ Head(calls) = "stopHardwarePWM" /\ calls[2] = "pwm_mode"
               /\ calls' = <<>> /\ UNCHANGED outputsVars

\* One call of pigpio, as the library carries it out.
Carry(c) ==
  CASE c = "gpioInitialise" -> OutputsInitialise
    [] c = "gpioTerminate" -> OutputsTerminate
    [] c = "stopHardwarePWM" -> stopHardwarePWM
    [] c = "pwm_mode" -> gpioSetMode(PIN_PWM0, Alt[PIN_PWM0])
    [] c = "pwm_on" -> HardwarePWMOn(PIN_PWM0, DUTY_CYCLE_50_PERCENT)
    [] c = "rst_out" -> gpioSetMode(PIN_SC_RST, "out")
    [] c = "rst_in" -> gpioSetMode(PIN_SC_RST, "in")
    [] c = "rst_0" -> gpioWrite(PIN_SC_RST, 0)
    [] c = "rst_1" -> gpioWrite(PIN_SC_RST, 1)
    [] c = "gpioSleep" -> UNCHANGED outputsVars
Call == calls # <<>> /\ Carry(Head(calls)) /\ calls' = Tail(calls)

HardwareInit == OutputsInit /\ calls = <<>>
HardwareNext == TransportCalls \/ InitialiseFails \/ SerialFails \/ Call
HardwareSpec == HardwareInit /\ [][HardwareNext]_hardwareVars

----------------------------------------------------------------------------
(* The pins of the slot, as the registers make them *)
Pins == INSTANCE CardPins WITH
  open <- libInitialised,
  clock <- IF /\ pwmCtl[PWMDef[PIN_PWM0]] = "ms" /\ pwmClk = "plld"
              /\ gpio[PIN_PWM0].mode = Alt[PIN_PWM0]
           THEN "running" ELSE "stopped",
  rst <- CASE gpio[PIN_SC_RST].mode # "out" -> "released"
           [] gpio[PIN_SC_RST].mode = "out" /\ gpio[PIN_SC_RST].latch = 0 -> "low"
           [] gpio[PIN_SC_RST].mode = "out" /\ gpio[PIN_SC_RST].latch = 1 -> "high"
=============================================================================
