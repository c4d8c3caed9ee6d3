---------------------------- MODULE SamplingRing ----------------------------
(***************************************************************************)
(* The ring of samples of pigpio.c.  The DMA engine goes round a ring of   *)
(* control blocks, which dmaInitCbs lays out: for each of bufferCycles     *)
(* cycles a block that sets GPIO and one that stores the tick, and for     *)
(* each pulse of it one that stores the levels, one that waits and one     *)
(* that clears GPIO.  Blocks, levels and ticks are spread over pages.      *)
(*                                                                         *)
(* The alert thread asks at which block the engine is, and takes the       *)
(* levels of the cycles before that one out of the ring; the tick of a     *)
(* cycle comes from its own place in the ring.  Nothing but the speed of   *)
(* both keeps the engine from coming round.                                *)
(***************************************************************************)
EXTENDS Integers

CONSTANTS
  PULSE_PER_CYCLE, bufferCycles,
  CBS_PER_IPAGE, LVS_PER_IPAGE, TCK_PER_IPAGE, DMAI_PAGES,
  MAX_SAMPLE,   \* samples that a pass of the alert thread takes
  MaxLaps       \* a bound on how often the engine goes round

CBS_PER_CYCLE == PULSE_PER_CYCLE * 3 + 2
NUM_CBS == CBS_PER_CYCLE * bufferCycles

ASSUME RingAssumption ==
  /\ PULSE_PER_CYCLE \in Nat \ {0} /\ bufferCycles \in Nat \ {0}
  /\ CBS_PER_IPAGE \in Nat \ {0} /\ LVS_PER_IPAGE \in Nat \ {0} /\ TCK_PER_IPAGE \in Nat \ {0}
  /\ DMAI_PAGES \in Nat
  /\ NUM_CBS <= CBS_PER_IPAGE * DMAI_PAGES
  /\ PULSE_PER_CYCLE * bufferCycles <= LVS_PER_IPAGE * DMAI_PAGES
  /\ bufferCycles <= TCK_PER_IPAGE * DMAI_PAGES
  /\ MAX_SAMPLE \in Nat \ {0} /\ MaxLaps \in Nat

(***************************************************************************)
(* Where things are: the page of a position, and the slot on it            *)
(***************************************************************************)
PageSlot(pos, perPage) == <<pos \div perPage, pos % perPage>>
myLvsPageSlot(pos) == PageSlot(pos, LVS_PER_IPAGE)
myTckPageSlot(pos) == PageSlot(pos, TCK_PER_IPAGE)
dmaCbAdr(pos) == PageSlot(pos, CBS_PER_IPAGE)

IPages == 0 .. DMAI_PAGES - 1
CbSlots == IPages \X (0 .. CBS_PER_IPAGE - 1)
LevelSlots == IPages \X (0 .. LVS_PER_IPAGE - 1)
TickSlots == IPages \X (0 .. TCK_PER_IPAGE - 1)

CycleNos == 0 .. bufferCycles - 1
PulseNos == 0 .. PULSE_PER_CYCLE - 1

\* The b-th block that dmaInitCbs writes, within its cycle, and what it stores.
CycleOf(b) == b \div CBS_PER_CYCLE
Within(b) == b % CBS_PER_CYCLE
StoresTick(w) == w = 1
StoresLevels(w) == w >= 2 /\ (w - 2) % 3 = 0
\* Levels are numbered from the first of the ring to the last.
LevelAt(cycle, w) == cycle * PULSE_PER_CYCLE + (w - 2) \div 3

VARIABLES
  conblk,    \* DMA_CONBLK_AD: the address of the engine's block
  lap,       \* how often the engine has gone round
  levels,    \* dmaIVirt[]->level: which cycle of which lap, and which pulse, each is of
  ticks,     \* dmaIVirt[]->tick: which cycle of which lap each is of
  sampler,   \* the alert thread: where it is, oldSlot, newSlot, cycle, pulse, the cycle
             \* whose tick is in sTick and how many samples it is behind, numSamples
  sample,    \* the sample taken last
  due,       \* the cycle, lap and pulse that is the next to be taken
  overrun,   \* the engine has come round to the cycle the thread takes
  tickEarly      \* the thread took a tick that the engine had not stored yet

ringVars == <<conblk, lap, levels, ticks, sampler, sample, due, overrun, tickEarly>>

Time(l, c) == [lap |-> l, cycle |-> c]
Never == Time(-1, 0)
NoSample == [time |-> Never, pulse |-> 0, tick |-> Never, plus |-> 0, due |-> Never, nth |-> 0,
             kept |-> FALSE]

Times == [lap : Int, cycle : Nat]
RingTypeOK ==
  /\ conblk \in CbSlots /\ lap \in Nat
  /\ levels \in [LevelSlots -> [time : Times, pulse : Nat]]
  /\ ticks \in [TickSlots -> Times]
  /\ sampler \in [at : {"starting", "looking", "taking"}, oldSlot : Nat, newSlot : Nat,
                  cycle : Nat, pulse : Nat, sTick : Times, plus : Nat, stickInited : BOOLEAN,
                  numSamples : Nat]
  /\ due \in [time : Times, pulse : Nat]
  /\ overrun \in BOOLEAN /\ tickEarly \in BOOLEAN

RingInit ==
  /\ conblk = dmaCbAdr(0) /\ lap = 0
  /\ levels = [s \in LevelSlots |-> [time |-> Never, pulse |-> 0]]
  /\ ticks = [s \in TickSlots |-> Never]
  /\ sampler = [at |-> "starting", oldSlot |-> 0, newSlot |-> 0, cycle |-> 0, pulse |-> 0,
                sTick |-> Never, plus |-> 0, stickInited |-> FALSE, numSamples |-> 0]
  /\ sample = NoSample
  /\ due = [time |-> Never, pulse |-> 0]
  /\ overrun = FALSE /\ tickEarly = FALSE

\* dmaNowAtICB finds the page with the engine's block, and so its number.
dmaNowAtICB == conblk[1] * CBS_PER_IPAGE + conblk[2]
Now == Time(lap, CycleOf(dmaNowAtICB))

(***************************************************************************)
(* The engine: a block does what it does, and the next is loaded; the last *)
(* one leads back to the first.                                            *)
(***************************************************************************)
\* What is due is still there, and there will be none of the engine's cycle before it:
\* the engine is less than a lap ahead.
Behind(d) == \/ d.lap = -1
             \/ Now'.lap = d.lap /\ d.cycle <= Now'.cycle
             \/ Now'.lap = d.lap + 1 /\ Now'.cycle < d.cycle

EngineStep ==
  LET b == dmaNowAtICB
      c == CycleOf(b)
      w == Within(b)
  IN /\ b < NUM_CBS - 1 \/ lap < MaxLaps
     /\ levels' = IF StoresLevels(w)
                  THEN [levels EXCEPT ![myLvsPageSlot(LevelAt(c, w))] =
                          [time |-> Now, pulse |-> (w - 2) \div 3]]
                  ELSE levels
     /\ ticks' = IF StoresTick(w) THEN [ticks EXCEPT ![myTckPageSlot(c)] = Now] ELSE ticks
     /\ conblk' = dmaCbAdr(IF b = NUM_CBS - 1 THEN 0 ELSE b + 1)
     /\ lap' = IF b = NUM_CBS - 1 THEN lap + 1 ELSE lap
     /\ overrun' = (overrun \/ ~Behind(due.time))
     /\ UNCHANGED <<sampler, sample, due, tickEarly>>

(***************************************************************************)
(* The alert thread                                                        *)
(***************************************************************************)
dmaCurrentSlot(pos) ==
  CycleOf(pos) * PULSE_PER_CYCLE + (IF Within(pos) > 2 THEN (Within(pos) - 2) \div 3 ELSE 0)
StartOfCycle(slot) == (slot \div PULSE_PER_CYCLE) * PULSE_PER_CYCLE

myGetLevel(pos) == levels[myLvsPageSlot(pos)]
myGetTick(pos) == ticks[myTckPageSlot(pos)]

\* It begins with the cycle the engine is in.
StartSampling ==
  /\ sampler.at = "starting"
  /\ LET old == StartOfCycle(dmaCurrentSlot(dmaNowAtICB))
     IN sampler' = [sampler EXCEPT !.at = "looking", !.oldSlot = old,
                                   !.cycle = old \div PULSE_PER_CYCLE]
  /\ due' = [time |-> Now, pulse |-> 0]
  /\ UNCHANGED <<conblk, lap, levels, ticks, sample, overrun, tickEarly>>

Look ==
  /\ sampler.at = "looking"
  /\ sampler' = [sampler EXCEPT !.at = "taking", !.numSamples = 0,
                                !.newSlot = StartOfCycle(dmaCurrentSlot(dmaNowAtICB))]
  /\ UNCHANGED <<conblk, lap, levels, ticks, sample, due, overrun, tickEarly>>

\* A sample; after the last of a cycle the thread goes on to the next cycle, around
\* the end of the ring, and reads its tick.  Only then are samples kept.
Taken == [time |-> myGetLevel(sampler.oldSlot).time,
          pulse |-> myGetLevel(sampler.oldSlot).pulse,
          tick |-> sampler.sTick, plus |-> sampler.plus, due |-> due.time, nth |-> due.pulse,
          kept |-> sampler.stickInited]
CycleEnds == sampler.pulse + 1 >= PULSE_PER_CYCLE
\* (mutant: the ring is taken for a cycle longer than it is)
NextCycleLate == IF sampler.cycle + 1 > bufferCycles THEN 0 ELSE sampler.cycle + 1
NextCycle == IF sampler.cycle + 1 >= bufferCycles THEN 0 ELSE sampler.cycle + 1
CycleAfter(t) == IF t.cycle + 1 >= bufferCycles THEN Time(t.lap + 1, 0)
                                                ELSE Time(t.lap, t.cycle + 1)

TakeSample ==
  /\ sampler.at = "taking"
  /\ sampler.oldSlot # sampler.newSlot /\ sampler.numSamples < MAX_SAMPLE
  /\ sample' = Taken
  /\ IF CycleEnds
     THEN /\ sampler' = [sampler EXCEPT
                !.oldSlot = IF NextCycle = 0 THEN 0 ELSE @ + 1,
                !.cycle = NextCycle, !.pulse = 0, !.sTick = myGetTick(NextCycle),
                !.plus = 0, !.stickInited = TRUE,
                !.numSamples = IF sampler.stickInited THEN @ + 1 ELSE 0]
          /\ due' = [time |-> CycleAfter(due.time), pulse |-> 0]
          /\ tickEarly' = (\/ tickEarly
                           \/ Now = CycleAfter(due.time) /\ Within(dmaNowAtICB) <= 1)
     ELSE /\ sampler' = [sampler EXCEPT !.oldSlot = @ + 1, !.pulse = @ + 1, !.plus = @ + 1,
                                        !.numSamples = @ + 1]
          /\ due' = [due EXCEPT !.pulse = @ + 1]
          /\ UNCHANGED tickEarly
  /\ UNCHANGED <<conblk, lap, levels, ticks, overrun>>

\* The samples are reported, and the thread looks again.
PassEnds ==
  /\ sampler.at = "taking"
  /\ sampler.oldSlot = sampler.newSlot \/ sampler.numSamples >= MAX_SAMPLE
  /\ sampler' = [sampler EXCEPT !.at = "looking"]
  /\ UNCHANGED <<conblk, lap, levels, ticks, sample, due, overrun, tickEarly>>

RingNext == EngineStep \/ StartSampling \/ Look \/ TakeSample \/ PassEnds

RingSpec == RingInit /\ [][RingNext]_ringVars

(***************************************************************************)
(* Properties                                                              *)
(***************************************************************************)
\* Each sample is the next: of the pulse after the one before it, none left out and
\* none taken twice, around the end of the ring; and the tick it is told with is that
\* of its own cycle, so many pulses on.  Until the engine comes round to the cycle the
\* thread is at, or the thread reads a tick in the two blocks before it is stored.
SamplesInOrder ==
  ~overrun /\ ~tickEarly /\ sample # NoSample =>
    /\ sample.time = sample.due /\ sample.pulse = sample.nth
    /\ sample.kept => sample.tick = sample.time /\ sample.plus = sample.pulse

SamplesKept == RingTypeOK /\ SamplesInOrder
=============================================================================
