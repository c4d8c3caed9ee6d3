------------------------------ MODULE CardPins ------------------------------
(* What the hardware layer of the driver (src/rtuartscreader/hardware) promises
   about the two pins of the card slot, whatever library drives them: the clock
   and the reset line.                                                        *)

VARIABLES open, clock, rst

cardPinsVars == <<open, clock, rst>>

CardPinsInit == open = FALSE /\ clock = "stopped" /\ rst = "released"

\* The pins are taken one by one after the library was opened, and given back
\* before it is closed: a closed slot has no clock and its reset line is free.
Open == ~open /\ open' = TRUE /\ UNCHANGED <<clock, rst>>
Close == /\ open /\ clock = "stopped" /\ rst = "released"
         /\ open' = FALSE /\ UNCHANGED <<clock, rst>>
ClockStart == open /\ rst # "released" /\ clock' = "running" /\ UNCHANGED <<open, rst>>
ClockStop == open /\ clock' = "stopped" /\ UNCHANGED <<open, rst>>
\* The line is taken and pulled low; it rises only after it was low, under a
\* clock that runs; it is given back only low.
RstDown == open /\ rst' = "low" /\ UNCHANGED <<open, clock>>
RstUp == open /\ rst = "low" /\ clock = "running" /\ rst' = "high" /\ UNCHANGED <<open, clock>>
Release == open /\ rst = "low" /\ rst' = "released" /\ UNCHANGED <<open, clock>>

CardPinsNext == Open \/ Close \/ ClockStart \/ ClockStop \/ RstDown \/ RstUp \/ Release
CardPinsSpec == CardPinsInit /\ [][CardPinsNext]_cardPinsVars
=============================================================================
