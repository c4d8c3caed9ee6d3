--------------------------- MODULE Outputs_proofs ---------------------------
(***************************************************************************)
(* Proofs about the outputs of pigpio, and about what the driver does with *)
(* them.  The plan of the DMA engine and the PWM peripheral agree with     *)
(* what the calls answer; and the calls of the driver's hardware layer     *)
(* implement CardPins.                                                     *)
(***************************************************************************)
EXTENDS Hardware, SequenceTheorems, TLAPS

(***************************************************************************)
(* The slots of a plan: the offsets of a period do not meet.               *)
(***************************************************************************)
LEMMA RangeDivides ==
  ASSUME NEW i \in FreqIdx
  PROVE  /\ RealRange(i) \in Nat \ {0} /\ RealRange(i) <= SUPERLEVEL
         /\ \E k \in Nat \ {0} : SUPERLEVEL = k * RealRange(i)
<1> DEFINE k == SUPERCYCLE \div Cycles[i]
<1>1. /\ Cycles[i] \in Nat \ {0} /\ SUPERCYCLE \in Nat \ {0} /\ PULSE_PER_CYCLE \in Nat \ {0}
      /\ SUPERCYCLE % Cycles[i] = 0
  BY OutputsAssumption
<1>2. k \in Nat \ {0} /\ SUPERCYCLE = k * Cycles[i]
  BY <1>1
<1> HIDE DEF k
<1>3. SUPERLEVEL = k * RealRange(i) /\ RealRange(i) \in Nat \ {0}
  BY <1>1, <1>2 DEF SUPERLEVEL, RealRange
<1>4. RealRange(i) <= SUPERLEVEL
  BY <1>2, <1>3
<1>5. QED
  BY <1>2, <1>3, <1>4

LEMMA Multiple ==
  ASSUME NEW s \in Nat, NEW r \in Nat \ {0}, s % r = 0
  PROVE  \E q \in Nat : s = q * r
<1>1. s = (s \div r) * r /\ s \div r \in Nat
  OBVIOUS
<1>2. QED
  BY <1>1

LEMMA Apart ==
  ASSUME NEW q \in Nat, NEW k \in Nat, NEW r \in Nat \ {0}, q < k
  PROVE  q * r + r <= k * r
<1>1. (k - q - 1) * r >= 0
  OBVIOUS
<1>2. QED
  BY <1>1

LEMMA SlotsInPlan ==
  ASSUME NEW i \in FreqIdx, NEW o \in 1..RealRange(i)
  PROVE  Slots(o, RealRange(i)) \subseteq 1..SUPERLEVEL
<1> DEFINE r == RealRange(i)
<1>1. PICK k \in Nat \ {0} : SUPERLEVEL = k * r
  BY RangeDivides
<1>2. r \in Nat \ {0} /\ o \in 1..r
  BY RangeDivides
<1> HIDE DEF r
<1>3. ASSUME NEW s \in 0..(SUPERLEVEL - 1), s % r = 0  PROVE s + o \in 1..SUPERLEVEL
  <2>1. PICK q \in Nat : s = q * r
    <3>1. s \in Nat
      OBVIOUS
    <3>2. QED
      BY <3>1, <1>2, <1>3, Multiple, Zenon
  <2>2. q < k
    <3>1. ASSUME q >= k PROVE FALSE
      <4>1. (q - k) * r >= 0
        BY <1>1, <1>2, <2>1, <3>1
      <4>3. q * r >= k * r
        BY <4>1, <1>2
      <4>2. QED
        BY <4>3, <2>1, <1>1, <1>3
    <3>2. QED
      BY <3>1, <2>1, <1>1
  <2>3. q * r + r <= k * r
    BY <1>1, <1>2, <2>1, <2>2, Apart
  <2>4. QED
    BY <1>1, <1>2, <2>1, <2>3
<1>4. QED
  BY <1>3 DEF Slots, r

LEMMA SlotsApart ==
  ASSUME NEW r \in Nat \ {0}, NEW a \in 1..r, NEW b \in 1..r, a # b, SUPERLEVEL \in Nat
  PROVE  Slots(a, r) \intersect Slots(b, r) = {}
<1>1. ASSUME NEW s \in 0..(SUPERLEVEL - 1), NEW t \in 0..(SUPERLEVEL - 1),
             s % r = 0, t % r = 0, s + a = t + b
      PROVE  FALSE
  <2> s \in Nat /\ t \in Nat
    OBVIOUS
  <2>1. PICK q \in Nat : s = q * r
    BY <1>1, Multiple, Zenon
  <2>2. PICK p \in Nat : t = p * r
    BY <1>1, Multiple, Zenon
  <2>3. CASE q < p
    <3>1. s + r <= t
      BY <2>1, <2>2, <2>3, Apart
    <3>2. QED
      BY <3>1, <1>1
  <2>4. CASE p < q
    <3>1. t + r <= s
      BY <2>1, <2>2, <2>4, Apart
    <3>2. QED
      BY <3>1, <1>1
  <2>5. QED
    BY <2>1, <2>2, <2>3, <2>4, <1>1
<1>2. QED
  BY <1>1 DEF Slots

(***************************************************************************)
(* One GPIO: what a change of its pulse makes of its plan.                 *)
(***************************************************************************)
Functions == {"undefined", "write", "pwm", "servo", "hw_clk", "hw_pwm"}
Modes == {"in", "out"} \union {Alt[g] : g \in DOMAIN PWMDef \union DOMAIN clkDef}
OnSlots == 0..(SUPERCYCLE - 1)
Ranges == 1..SUPERLEVEL
Pin == [is : Functions, width : Nat, range : DutyRanges, freqIdx : FreqIdx, deferOff : Nat,
        deferRng : Ranges, mode : Modes, latch : {0, 1}, on : SUBSET OnSlots, off : SUBSET Nat]

(* The plan of a pulse of the frequency i that ends at the offset o: what   *)
(* PlanMatchesAnswers says, and that a deferred "off" is a later one.       *)
OffsOf(p, o, rng) ==
  \/ p.deferOff = 0 /\ p.off = Slots(o, rng)
  \/ /\ p.deferOff \in (o + 1)..rng /\ p.deferRng = rng
     /\ p.off = Slots(o, rng) \union IF p.deferOff = rng THEN {} ELSE Slots(p.deferOff, rng)
Planned(p, i, o) ==
  /\ p.deferOff \in 0..SUPERLEVEL
  /\ p.on = IF o = 0 THEN {} ELSE OnCycles(i)
  /\ o \in {0, RealRange(i)} => p.off = {}
  /\ o \in 1..(RealRange(i) - 1) => OffsOf(p, o, RealRange(i))

SameAnswer(p, q) == /\ p.is = q.is /\ p.width = q.width /\ p.range = q.range
                    /\ p.freqIdx = q.freqIdx /\ p.mode = q.mode

LEMMA RangeFacts ==
  ASSUME NEW i \in FreqIdx
  PROVE  /\ RealRange(i) \in Nat \ {0} /\ RealRange(i) \in Ranges /\ SUPERLEVEL \in Nat \ {0}
         /\ RealRange(i) <= SUPERLEVEL /\ OnCycles(i) \subseteq OnSlots
         /\ \A o \in Nat : Slots(o, RealRange(i)) \subseteq Nat
<1>1. SUPERLEVEL \in Nat \ {0}
  BY OutputsAssumption DEF SUPERLEVEL
<1>2. \A o \in Nat : Slots(o, RealRange(i)) \subseteq Nat
  BY <1>1 DEF Slots
<1>3. QED
  BY <1>1, <1>2, RangeDivides DEF OnCycles, OnSlots, Ranges

LEMMA DropTyped ==
  ASSUME NEW p \in Pin
  PROVE  DropDeferred(p) \in Pin /\ SameAnswer(DropDeferred(p), p) /\ DropDeferred(p).deferOff = 0
BY DEF DropDeferred, Pin, SameAnswer

LEMMA DropKeeps ==
  ASSUME NEW p \in Pin, NEW i \in FreqIdx, NEW o \in 0..RealRange(i), Planned(p, i, o)
  PROVE  Planned(DropDeferred(p), i, o)
<1> DEFINE q == DropDeferred(p)
           r == RealRange(i)
<1>1. /\ q \in Pin /\ q.deferOff = 0 /\ q.on = p.on
      /\ q.off = IF p.deferOff = 0 THEN p.off ELSE p.off \ Slots(p.deferOff, p.deferRng)
  BY DEF DropDeferred, Pin
<1> HIDE DEF q
<1>2. o \in {0, r} => q.off = {}
  BY <1>1 DEF Planned
<1>3. ASSUME o \in 1..(r - 1) PROVE q.off = Slots(o, r)
  <2>1. CASE p.deferOff = 0
    BY <1>1, <1>3, <2>1 DEF Planned, OffsOf
  <2>2. CASE p.deferOff # 0
    <3>1. /\ p.deferOff \in (o + 1)..r /\ p.deferRng = r
          /\ p.off = Slots(o, r) \union IF p.deferOff = r THEN {} ELSE Slots(p.deferOff, r)
      BY <1>3, <2>2 DEF Planned, OffsOf
    <3>2. r \in Nat \ {0} /\ SUPERLEVEL \in Nat
      BY RangeFacts
    <3> HIDE DEF r
    <3>3. p.deferOff \in 1..r /\ o \in 1..r /\ o # p.deferOff
      BY <1>3, <3>1, <3>2
    <3>4. Slots(o, r) \intersect Slots(p.deferOff, r) = {}
      BY <3>2, <3>3, SlotsApart
    <3>5. QED
      BY <1>1, <2>2, <3>1, <3>4
  <2>3. QED
    BY <2>1, <2>2
<1>4. 0 \in 0..SUPERLEVEL
  BY RangeFacts
<1>5. QED
  BY <1>1, <1>2, <1>3, <1>4 DEF Planned, OffsOf, q

LEMMA ReplanTyped ==
  ASSUME NEW p \in Pin, NEW i \in FreqIdx, NEW o \in Nat, NEW n \in Nat
  PROVE  Replan(p, i, o, n) \in Pin /\ SameAnswer(Replan(p, i, o, n), p)
<1> DEFINE r == RealRange(i)
           added == IF n \in {0, r} THEN {} ELSE Slots(n, r)
           slots == Slots(o, r)
           cycles == OnCycles(i)
           new == Replan(p, i, o, n)
<1>1. /\ r \in Ranges /\ added \in SUBSET Nat /\ slots \in SUBSET Nat /\ cycles \in SUBSET OnSlots
  BY RangeFacts
<1>2. \/ new = p
      \/ new = [p EXCEPT !.off = @ \union added, !.deferOff = o, !.deferRng = r]
      \/ new = [p EXCEPT !.off = (@ \union added) \ slots]
      \/ new = [p EXCEPT !.off = @ \union added, !.on = @ \union cycles]
      \/ new = [p EXCEPT !.off = @ \ slots, !.on = @ \ cycles, !.latch = 0]
  BY DEF Replan
<1> HIDE DEF r, added, slots, cycles, new
<1>3. new \in Pin /\ SameAnswer(new, p)
  BY <1>1, <1>2 DEF Pin, SameAnswer
<1>4. QED
  BY <1>3 DEF new

LEMMA ReplanKeeps ==
  ASSUME NEW p \in Pin, NEW i \in FreqIdx, NEW o \in 0..RealRange(i), NEW n \in 0..RealRange(i),
         p.deferOff = 0, Planned(p, i, o)
  PROVE  Planned(Replan(p, i, o, n), i, n)
<1> DEFINE r == RealRange(i)
           added == IF n \in {0, r} THEN {} ELSE Slots(n, r)
           slots == Slots(o, r)
           cycles == OnCycles(i)
           new == Replan(p, i, o, n)
<1>1. /\ r \in Nat \ {0} /\ r <= SUPERLEVEL /\ SUPERLEVEL \in Nat /\ o \in 0..r /\ n \in 0..r
  BY RangeFacts
<1>2. /\ p.on = IF o = 0 THEN {} ELSE cycles
      /\ p.off = IF o \in {0, r} THEN {} ELSE slots
  <2>1. o \in {0, r} => p.off = {}
    BY DEF Planned
  <2>2. o \in 1..(r - 1) => p.off = slots
    BY DEF Planned, OffsOf
  <2>3. o \notin {0, r} => o \in 1..(r - 1)
    BY <1>1
  <2>4. QED
    BY <2>1, <2>2, <2>3 DEF Planned
<1>3. SUFFICES /\ new.deferOff \in 0..SUPERLEVEL
               /\ new.on = IF n = 0 THEN {} ELSE cycles
               /\ n \in {0, r} => new.off = {}
               /\ n \in 1..(r - 1) =>
                    \/ new.deferOff = 0 /\ new.off = added
                    \/ /\ new.deferOff \in (n + 1)..r /\ new.deferRng = r
                       /\ new.off = added \union IF new.deferOff = r THEN {} ELSE Slots(new.deferOff, r)
  BY <1>1 DEF Planned, OffsOf
<1>4. o # n /\ o > 0 /\ n > 0 => slots \intersect added = {}
  BY <1>1, SlotsApart
<1>5. n = o => new = p
  BY DEF Replan
<1>6. o > n /\ n > 0 => new = [p EXCEPT !.off = @ \union added, !.deferOff = o, !.deferRng = r]
  BY <1>1 DEF Replan
<1>7. n > o /\ o > 0 => new = [p EXCEPT !.off = (@ \union added) \ slots]
  BY <1>1 DEF Replan
<1>8. n > o /\ o = 0 => new = [p EXCEPT !.off = @ \union added, !.on = @ \union cycles]
  BY <1>1 DEF Replan
<1>9. o > n /\ n = 0 => new = [p EXCEPT !.off = @ \ slots, !.on = @ \ cycles, !.latch = 0]
  BY <1>1 DEF Replan
<1>10. n \in {0, r} => added = {}
  OBVIOUS
<1>13. added # {} \/ n \notin {0, r} => added = Slots(n, r)
  OBVIOUS
<1>11. slots = Slots(o, r)
  OBVIOUS
<1> HIDE DEF r, added, slots, cycles, new
<1>12. QED
  <2>1. CASE n = o
    BY <1>1, <1>2, <1>5, <1>10, <1>11, <1>13, <2>1
  <2>2. CASE o > n /\ n > 0
    <3>1. /\ new.off = p.off \union added /\ new.deferOff = o /\ new.deferRng = r
          /\ new.on = cycles
      <4>1. p.on = cycles
        BY <1>1, <1>2, <2>2
      <4>2. new = [p EXCEPT !.off = @ \union added, !.deferOff = o, !.deferRng = r]
        BY <1>6, <2>2
      <4>3. /\ new.off = p.off \union added /\ new.deferOff = o /\ new.deferRng = r
            /\ new.on = p.on
        BY <4>2 DEF Pin
      <4>4. QED
        BY <4>1, <4>3
    <3>2. p.off = IF new.deferOff = r THEN {} ELSE Slots(new.deferOff, r)
      BY <1>1, <1>2, <1>11, <2>2, <3>1
    <3>3. new.deferOff \in (n + 1)..r /\ o \in 0..SUPERLEVEL /\ n \notin {0, r}
      BY <1>1, <2>2, <3>1
    <3>4. QED
      BY <3>1, <3>2, <3>3
  <2>3. CASE n > o /\ o > 0
    BY <1>1, <1>2, <1>4, <1>7, <1>10, <2>3 DEF Pin
  <2>4. CASE n > o /\ o = 0
    <3>1. new.off = added /\ new.deferOff = 0 /\ new.on = cycles
      <4>1. p.off = {} /\ p.on = {}
        BY <1>2, <2>4
      <4>2. new = [p EXCEPT !.off = @ \union added, !.on = @ \union cycles]
        BY <1>8, <2>4
      <4>3. new.off = p.off \union added /\ new.on = p.on \union cycles /\ new.deferOff = 0
        BY <4>2 DEF Pin
      <4>4. QED
        BY <4>1, <4>3
    <3>2. QED
      BY <1>1, <1>10, <2>4, <3>1
  <2>5. CASE o > n /\ n = 0
    BY <1>1, <1>2, <1>9, <1>10, <2>5 DEF Pin
  <2>6. QED
    BY <1>1, <2>1, <2>2, <2>3, <2>4, <2>5

(***************************************************************************)
(* The pulse a GPIO answers with, and the plan it is to have.              *)
(***************************************************************************)
IdxOf(p) == IF p.is = "servo" THEN servoIdx ELSE p.freqIdx
OffOf(p) == CASE p.is = "pwm" -> PwmOff(p, p.width)
              [] p.is = "servo" -> p.width
              [] OTHER -> 0
Kept(p) ==
  /\ p.is \notin {"pwm", "servo"} => p.width = 0
  /\ p.is = "pwm" => p.width <= p.range
  /\ p.is = "servo" => p.width < RealRange(servoIdx)
  /\ Planned(p, IdxOf(p), OffOf(p))
Quiet(p) == p.width = 0 /\ p.on = {} /\ p.off = {} /\ p.deferOff \in 0..SUPERLEVEL

LEMMA Scaled ==
  ASSUME NEW m \in Nat, NEW b \in Nat \ {0}, NEW v \in Nat
  PROVE  /\ (v * m) \div b \in Nat
         /\ v = 0 => (v * m) \div b = 0
         /\ v <= b => (v * m) \div b \in 0..m
<1> DEFINE q == (v * m) \div b
<1>1. v * m \in Nat
  OBVIOUS
<1>2. q \in Nat /\ q * b <= v * m
  BY <1>1
<1>3. v = 0 => q = 0
  OBVIOUS
<1>4. v <= b => q <= m
  <2>1. SUFFICES ASSUME v <= b, q > m PROVE FALSE
    BY <1>2
  <2>2. (b - v) * m >= 0 /\ (q - m) * b > 0
    BY <2>1, <1>2
  <2>3. v * m <= b * m /\ q * b > m * b
    BY <2>2, <1>2
  <2>4. QED
    BY <2>3, <1>2
<1>5. QED
  BY <1>2, <1>3, <1>4

LEMMA PwmOffBound ==
  ASSUME NEW p \in Pin, NEW v \in Nat
  PROVE  /\ PwmOff(p, v) \in Nat
         /\ v = 0 => PwmOff(p, v) = 0
         /\ v <= p.range => PwmOff(p, v) \in 0..RealRange(p.freqIdx)
<1>1. p.range \in Nat \ {0} /\ RealRange(p.freqIdx) \in Nat
  BY OutputsAssumption, RangeFacts DEF Pin
<1>2. QED
  BY <1>1, Scaled DEF PwmOff

LEMMA OffOfBound ==
  ASSUME NEW p \in Pin, Kept(p)
  PROVE  IdxOf(p) \in FreqIdx /\ OffOf(p) \in 0..RealRange(IdxOf(p))
<1>1. IdxOf(p) \in FreqIdx /\ RealRange(servoIdx) \in Nat /\ RealRange(p.freqIdx) \in Nat
  BY OutputsAssumption, RangeFacts DEF Pin, IdxOf
<1>2. CASE p.is = "pwm"
  BY <1>1, <1>2, PwmOffBound DEF Kept, OffOf, IdxOf, Pin
<1>3. CASE p.is = "servo"
  BY <1>1, <1>3 DEF Kept, OffOf, IdxOf, Pin
<1>4. CASE p.is \notin {"pwm", "servo"}
  BY <1>1, <1>4 DEF OffOf, IdxOf
<1>5. QED
  BY <1>1, <1>2, <1>3, <1>4

LEMMA QuietKept ==
  ASSUME NEW p \in Pin, Quiet(p)
  PROVE  Kept(p) /\ OffOf(p) = 0
<1>1. RealRange(servoIdx) \in Nat \ {0} /\ SUPERLEVEL \in Nat /\ RealRange(p.freqIdx) \in Nat
  BY OutputsAssumption, RangeFacts DEF Pin
<1>2. OffOf(p) = 0
  BY PwmOffBound DEF OffOf, Quiet
<1>3. p.range \in Nat
  BY OutputsAssumption DEF Pin
<1>4. QED
  BY <1>1, <1>2, <1>3 DEF Kept, Planned, Quiet

(* The call from an old width to a new one, for PWM and for a servo.        *)
LEMMA PwmKeeps ==
  ASSUME NEW p \in Pin, Kept(p), p.is = "pwm", NEW v \in Nat, v <= p.range
  PROVE  LET q == [myGpioSetPwm(p, p.width, v) EXCEPT !.width = v]
         IN  q \in Pin /\ Kept(q) /\ SameAnswer(q, [p EXCEPT !.width = v]) /\ (v = 0 => Quiet(q))
<1> DEFINE d == DropDeferred(p)
           i == p.freqIdx
           o == PwmOff(p, p.width)
           n == PwmOff(p, v)
           q == Replan(d, i, o, n)
           new == [q EXCEPT !.width = v]
<1>1. i \in FreqIdx /\ o \in 0..RealRange(i) /\ n \in 0..RealRange(i) /\ p.range \in Nat
  BY PwmOffBound, OutputsAssumption DEF Kept, Pin
<1>2. o \in Nat /\ n \in Nat /\ (v = 0 => n = 0) /\ RealRange(i) \in Nat
  BY <1>1, PwmOffBound, RangeFacts
<1>3. Planned(p, i, o)
  BY DEF Kept, IdxOf, OffOf
<1> HIDE DEF i, o, n
<1>4. d \in Pin /\ SameAnswer(d, p) /\ d.deferOff = 0 /\ Planned(d, i, o)
  BY <1>1, <1>3, DropTyped, DropKeeps
<1> HIDE DEF d
<1>5. q \in Pin /\ SameAnswer(q, d) /\ Planned(q, i, n)
  BY <1>1, <1>2, <1>4, ReplanTyped, ReplanKeeps
<1> HIDE DEF q
<1>6. /\ new \in Pin /\ new.is = "pwm" /\ new.width = v /\ new.range = p.range
      /\ new.freqIdx = p.freqIdx /\ new.mode = p.mode
      /\ new.on = q.on /\ new.off = q.off /\ new.deferOff = q.deferOff /\ new.deferRng = q.deferRng
  BY <1>4, <1>5 DEF Pin, SameAnswer
<1> HIDE DEF new
<1>7. Planned(new, i, n)
  BY <1>5, <1>6 DEF Planned, OffsOf
<1>8. OffOf(new) = n /\ IdxOf(new) = i
  BY <1>6 DEF OffOf, IdxOf, PwmOff, n, i
<1>9. Kept(new)
  BY <1>6, <1>7, <1>8 DEF Kept
<1>10. v = 0 => Quiet(new)
  BY <1>2, <1>6, <1>7 DEF Quiet, Planned
<1>11. SameAnswer(new, [p EXCEPT !.width = v])
  BY <1>6 DEF SameAnswer, Pin
<1>12. QED
  BY <1>6, <1>9, <1>10, <1>11 DEF new, q, d, i, o, n, myGpioSetPwm

LEMMA ServoKeeps ==
  ASSUME NEW p \in Pin, Kept(p), p.is = "servo", NEW v \in Nat, v < RealRange(servoIdx)
  PROVE  LET q == [myGpioSetServo(p, p.width, v) EXCEPT !.width = v]
         IN  q \in Pin /\ Kept(q) /\ SameAnswer(q, [p EXCEPT !.width = v]) /\ (v = 0 => Quiet(q))
<1> DEFINE d == DropDeferred(p)
           o == p.width
           q == Replan(d, servoIdx, o, v)
           new == [q EXCEPT !.width = v]
<1>1. /\ servoIdx \in FreqIdx /\ RealRange(servoIdx) \in Nat /\ o \in Nat
      /\ o \in 0..RealRange(servoIdx) /\ v \in 0..RealRange(servoIdx)
  BY OutputsAssumption, RangeFacts DEF Kept, Pin
<1>3. Planned(p, servoIdx, o)
  BY DEF Kept, IdxOf, OffOf
<1> HIDE DEF o
<1>4. d \in Pin /\ SameAnswer(d, p) /\ d.deferOff = 0 /\ Planned(d, servoIdx, o)
  BY <1>1, <1>3, DropTyped, DropKeeps
<1> HIDE DEF d
<1>5. q \in Pin /\ SameAnswer(q, d) /\ Planned(q, servoIdx, v)
  BY <1>1, <1>4, ReplanTyped, ReplanKeeps
<1> HIDE DEF q
<1>6. /\ new \in Pin /\ new.is = "servo" /\ new.width = v /\ new.range = p.range
      /\ new.freqIdx = p.freqIdx /\ new.mode = p.mode
      /\ new.on = q.on /\ new.off = q.off /\ new.deferOff = q.deferOff /\ new.deferRng = q.deferRng
  BY <1>4, <1>5 DEF Pin, SameAnswer
<1> HIDE DEF new
<1>7. Planned(new, servoIdx, v)
  BY <1>5, <1>6 DEF Planned, OffsOf
<1>8. OffOf(new) = v /\ IdxOf(new) = servoIdx
  BY <1>6 DEF OffOf, IdxOf
<1>9. Kept(new)
  BY <1>6, <1>7, <1>8 DEF Kept
<1>10. v = 0 => Quiet(new)
  BY <1>1, <1>6, <1>7 DEF Quiet, Planned
<1>11. SameAnswer(new, [p EXCEPT !.width = v])
  BY <1>6 DEF SameAnswer, Pin
<1>12. QED
  BY <1>6, <1>9, <1>10, <1>11 DEF new, q, d, o, myGpioSetServo

LEMMA PulseTyped ==
  ASSUME NEW p \in Pin, NEW w \in Nat, NEW v \in Nat
  PROVE  /\ myGpioSetPwm(p, w, v) \in Pin /\ SameAnswer(myGpioSetPwm(p, w, v), p)
         /\ myGpioSetServo(p, w, v) \in Pin /\ SameAnswer(myGpioSetServo(p, w, v), p)
<1>1. p.freqIdx \in FreqIdx /\ servoIdx \in FreqIdx /\ PwmOff(p, w) \in Nat /\ PwmOff(p, v) \in Nat
  BY PwmOffBound, OutputsAssumption DEF Pin
<1> DEFINE d == DropDeferred(p)
<1>2. d \in Pin /\ SameAnswer(d, p)
  BY DropTyped
<1> HIDE DEF d
<1>3. /\ Replan(d, p.freqIdx, PwmOff(p, w), PwmOff(p, v)) \in Pin
      /\ SameAnswer(Replan(d, p.freqIdx, PwmOff(p, w), PwmOff(p, v)), d)
  BY <1>1, <1>2, ReplanTyped
<1>4. Replan(d, servoIdx, w, v) \in Pin /\ SameAnswer(Replan(d, servoIdx, w, v), d)
  BY <1>1, <1>2, ReplanTyped
<1>5. QED
  BY <1>2, <1>3, <1>4 DEF SameAnswer, d, myGpioSetPwm, myGpioSetServo

(* The mode and the latch play no part in it.                               *)
LEMMA LevelsAside ==
  ASSUME NEW p \in Pin, NEW q \in Pin, Kept(p),
         \A f \in {"is", "width", "range", "freqIdx", "deferOff", "deferRng", "on", "off"} :
            q[f] = p[f]
  PROVE  Kept(q) /\ (Quiet(p) => Quiet(q))
<1>1. /\ q.is = p.is /\ q.width = p.width /\ q.range = p.range /\ q.freqIdx = p.freqIdx
      /\ q.deferOff = p.deferOff /\ q.deferRng = p.deferRng /\ q.on = p.on /\ q.off = p.off
  OBVIOUS
<1>2. IdxOf(q) = IdxOf(p) /\ OffOf(q) = OffOf(p)
  BY <1>1 DEF IdxOf, OffOf, PwmOff
<1>3. Planned(q, IdxOf(p), OffOf(p)) <=> Planned(p, IdxOf(p), OffOf(p))
  BY <1>1 DEF Planned, OffsOf
<1>4. QED
  BY <1>1, <1>2, <1>3 DEF Kept, Quiet

LEMMA ModeAside ==
  ASSUME NEW p \in Pin, Kept(p), NEW m \in Modes
  PROVE  Kept(myGpioSetMode(p, m)) /\ (Quiet(p) => Quiet(myGpioSetMode(p, m)))
<1> DEFINE q == myGpioSetMode(p, m)
<1>1. q \in Pin /\ \A f \in {"is", "width", "range", "freqIdx", "deferOff", "deferRng", "on", "off"} :
                     q[f] = p[f]
  BY DEF Pin, myGpioSetMode
<1> HIDE DEF q
<1>2. Kept(q) /\ (Quiet(p) => Quiet(q))
  BY <1>1, LevelsAside
<1>3. QED
  BY <1>2 DEF q

LEMMA LatchAside ==
  ASSUME NEW p \in Pin, Kept(p), NEW l \in {0, 1}
  PROVE  Kept([p EXCEPT !.latch = l]) /\ (Quiet(p) => Quiet([p EXCEPT !.latch = l]))
<1> DEFINE q == [p EXCEPT !.latch = l]
<1>1. q \in Pin /\ \A f \in {"is", "width", "range", "freqIdx", "deferOff", "deferRng", "on", "off"} :
                     q[f] = p[f]
  BY DEF Pin
<1> HIDE DEF q
<1>2. Kept(q) /\ (Quiet(p) => Quiet(q))
  BY <1>1, LevelsAside
<1>3. QED
  BY <1>2 DEF q

LEMMA SwitchedTyped ==
  ASSUME NEW p \in Pin
  PROVE  LET q == switchFunctionOff(p) IN
         /\ q \in Pin /\ q.is = p.is /\ q.range = p.range /\ q.freqIdx = p.freqIdx /\ q.mode = p.mode
<1>1. p.width \in Nat /\ 0 \in Nat
  BY DEF Pin
<1> DEFINE a == myGpioSetServo(p, p.width, 0)
           b == myGpioSetPwm(p, p.width, 0)
           q == switchFunctionOff(p)
<1>2. a \in Pin /\ SameAnswer(a, p) /\ b \in Pin /\ SameAnswer(b, p)
  BY <1>1, PulseTyped
<1>3. q \in {[a EXCEPT !.width = 0], [b EXCEPT !.width = 0], [p EXCEPT !.width = 0], p}
  BY DEF switchFunctionOff
<1> HIDE DEF a, b, q
<1>4. q \in Pin /\ q.is = p.is /\ q.range = p.range /\ q.freqIdx = p.freqIdx /\ q.mode = p.mode
  BY <1>2, <1>3 DEF Pin, SameAnswer
<1>5. QED
  BY <1>4 DEF q

LEMMA SwitchedOff ==
  ASSUME NEW p \in Pin, Kept(p)
  PROVE  Quiet(switchFunctionOff(p))
<1>1. CASE p.is = "servo"
  <2>1. 0 \in Nat /\ 0 < RealRange(servoIdx)
    BY OutputsAssumption, RangeFacts
  <2>2. Quiet([myGpioSetServo(p, p.width, 0) EXCEPT !.width = 0])
    BY <1>1, <2>1, ServoKeeps
  <2>3. QED
    BY <1>1, <2>2 DEF switchFunctionOff
<1>2. CASE p.is = "pwm"
  <2>1. p.range \in Nat \ {0}
    BY OutputsAssumption DEF Pin
  <2> DEFINE v == 0
  <2>4. v \in Nat /\ v <= p.range /\ v = 0
    BY <2>1
  <2> HIDE DEF v
  <2>5. Quiet([myGpioSetPwm(p, p.width, v) EXCEPT !.width = v])
    BY <1>2, <2>4, PwmKeeps
  <2>2. Quiet([myGpioSetPwm(p, p.width, 0) EXCEPT !.width = 0])
    BY <2>4, <2>5
  <2>3. QED
    BY <1>2, <2>2 DEF switchFunctionOff
<1>3. CASE p.is \notin {"pwm", "servo"}
  <2>1. p.width = 0 /\ OffOf(p) = 0 /\ Planned(p, IdxOf(p), 0)
    BY <1>3 DEF Kept, OffOf
  <2>2. Quiet(p)
    BY <2>1 DEF Planned, Quiet
  <2>3. Quiet([p EXCEPT !.width = 0])
    BY <2>2 DEF Quiet, Pin
  <2>4. switchFunctionOff(p) \in {p, [p EXCEPT !.width = 0]}
    BY <1>3 DEF switchFunctionOff
  <2>5. QED
    BY <2>2, <2>3, <2>4
<1>4. QED
  BY <1>1, <1>2, <1>3

LEMMA Becomes ==
  ASSUME NEW p \in Pin, NEW f \in Functions
  PROVE  LET q == Become(p, f) IN
         /\ q \in Pin /\ q.is = f /\ q.range = p.range /\ q.freqIdx = p.freqIdx /\ q.mode = p.mode
         /\ Kept(p) => Kept(q) /\ (p.is = f \/ Quiet(q))
<1> DEFINE off == switchFunctionOff(p)
           new == [off EXCEPT !.is = f]
           q == Become(p, f)
<1>1. off \in Pin /\ off.range = p.range /\ off.freqIdx = p.freqIdx /\ off.mode = p.mode
  BY SwitchedTyped
<1>2. Kept(p) => Quiet(off)
  BY SwitchedOff
<1> HIDE DEF off
<1>3. /\ new \in Pin /\ new.is = f /\ new.range = p.range /\ new.freqIdx = p.freqIdx
      /\ new.mode = p.mode /\ new.width = off.width /\ new.on = off.on /\ new.off = off.off
      /\ new.deferOff = off.deferOff
  BY <1>1 DEF Pin
<1> HIDE DEF new
<1>4. Kept(p) => Quiet(new) /\ Kept(new)
  BY <1>2, <1>3, QuietKept DEF Quiet
<1>5. q = IF p.is = f THEN p ELSE new
  BY DEF Become, new, off
<1> HIDE DEF q
<1>6. /\ q \in Pin /\ q.is = f /\ q.range = p.range /\ q.freqIdx = p.freqIdx /\ q.mode = p.mode
      /\ Kept(p) => Kept(q) /\ (p.is = f \/ Quiet(q))
  BY <1>3, <1>4, <1>5
<1>7. QED
  BY <1>6 DEF q

(***************************************************************************)
(* All of the outputs.                                                     *)
(***************************************************************************)
OutputsTypes ==
  /\ gpio \in [Gpios -> Pin] /\ pwmCtl \in [Channels -> {"off", "plain", "ms", "fifo"}]
  /\ pwmClk \in {"none", "plld", "wave"} /\ hwDuty \in [Channels -> HwDuties \union {0}]
  /\ hwClk \subseteq 0..2
  /\ {waveClockInited, PWMClockInited, waveBusy, libInitialised} \subseteq BOOLEAN

(* What a GPIO has in the plan, while the library is there and after it.    *)
Unplanned(p) == p.on = {} /\ p.off = {} /\ p.deferOff \in 0..SUPERLEVEL
PulsesKept == \A g \in Gpios \ DOMAIN clkDef :
                IF libInitialised THEN Kept(gpio[g]) ELSE Unplanned(gpio[g])

(* Whose the PWM peripheral is: of the GPIO that play hardware PWM, or of   *)
(* the waveforms, and then no GPIO plays.                                   *)
PeripheralShared ==
  /\ HwPwmGpios \subseteq DOMAIN PWMDef
  /\ HardwarePWMPlays
  /\ PWMClockInited => pwmClk = "plld"
  /\ waveClockInited => HwPwmGpios = {} /\ pwmClk = "wave" /\ pwmCtl[0] = "fifo"
  /\ waveBusy => waveClockInited /\ libInitialised

OutputsInv == OutputsTypes /\ PulsesKept /\ PeripheralShared

LEMMA OutputsInvInit == OutputsInit => OutputsInv
<1> SUFFICES ASSUME OutputsInit PROVE OutputsInv
  OBVIOUS
<1> USE DEF OutputsInit
<1>1. (CHOOSE r \in DutyRanges : TRUE) \in DutyRanges /\ (CHOOSE i \in FreqIdx : TRUE) \in FreqIdx
  BY OutputsAssumption
<1>2. SUPERLEVEL \in Nat \ {0}
  BY OutputsAssumption DEF SUPERLEVEL
<1>3. 1 \in Ranges /\ 0 \in 0..SUPERLEVEL
  BY <1>2 DEF Ranges
<1>4. OutputsTypes
  BY <1>1, <1>3 DEF OutputsTypes, Pin, Modes, Functions
<1>5. PulsesKept
  BY <1>3 DEF PulsesKept, Unplanned
<1>6. PeripheralShared
  BY DEF PeripheralShared, HwPwmGpios, HardwarePWMPlays
<1>7. QED
  BY <1>4, <1>5, <1>6 DEF OutputsInv

(* A call that touches one GPIO, and takes no peripheral for it.            *)
LEMMA TouchKeeps ==
  ASSUME OutputsInv, libInitialised, NEW g \in Gpios, NEW q \in Pin, Touch(g, q),
         g \notin DOMAIN clkDef => Kept(q),
         q.is = "hw_pwm" => gpio[g].is = "hw_pwm" /\ q.mode = gpio[g].mode
  PROVE  OutputsInv'
<1>1. /\ gpio' = [gpio EXCEPT ![g] = q]
      /\ UNCHANGED <<pwmCtl, pwmClk, hwDuty, hwClk, waveClockInited, PWMClockInited, waveBusy,
                     libInitialised>>
  BY DEF Touch, peripherals
<1>2. gpio' \in [Gpios -> Pin] /\ \A h \in Gpios : gpio'[h] = IF h = g THEN q ELSE gpio[h]
  BY <1>1 DEF OutputsInv, OutputsTypes
<1>3. OutputsTypes'
  BY <1>1, <1>2 DEF OutputsInv, OutputsTypes
<1>4. PulsesKept'
  <2>1. \A h \in Gpios \ DOMAIN clkDef : Kept(gpio'[h])
    BY <1>2 DEF OutputsInv, PulsesKept
  <2>2. QED
    BY <2>1, <1>1 DEF PulsesKept, Kept, Planned, IdxOf, OffOf, PwmOff, OffsOf
<1>5. \A h \in Gpios : gpio'[h].is = "hw_pwm" => gpio[h].is = "hw_pwm" /\ gpio'[h].mode = gpio[h].mode
  BY <1>2
<1>6. HwPwmGpios' \subseteq HwPwmGpios
  BY <1>5 DEF HwPwmGpios
<1>7. HardwarePWMPlays'
  BY <1>1, <1>5, <1>6 DEF OutputsInv, PeripheralShared, HardwarePWMPlays, HwPwmGpios
<1>8. PeripheralShared'
  BY <1>1, <1>6, <1>7 DEF OutputsInv, PeripheralShared
<1>9. QED
  BY <1>3, <1>4, <1>8 DEF OutputsInv

(* gpioSetMode, gpioWrite and gpioTrigger                                   *)
LEMMA LevelCallsKeep ==
  ASSUME OutputsInv, libInitialised, NEW g \in Gpios,
         \/ \E m \in Modes : gpioSetMode(g, m)
         \/ \E level \in {0, 1} : gpioWrite(g, level) \/ gpioTrigger(g, level)
  PROVE  OutputsInv'
<1> DEFINE p == gpio[g]
<1>1. p \in Pin /\ (g \notin DOMAIN clkDef => Kept(p))
  BY DEF OutputsInv, OutputsTypes, PulsesKept
<1> HIDE DEF p
<1>2. ASSUME NEW m \in Modes, gpioSetMode(g, m) PROVE OutputsInv'
  <2> DEFINE off == switchFunctionOff(p)
             a == [off EXCEPT !.is = "undefined"]
             q == myGpioSetMode(IF m # p.mode THEN a ELSE p, m)
  <2>1. off \in Pin /\ (Kept(p) => Quiet(off))
    BY <1>1, SwitchedTyped, SwitchedOff
  <2> HIDE DEF off
  <2>2. a \in Pin /\ a.is = "undefined" /\ (Quiet(off) => Quiet(a))
    BY <2>1 DEF Pin, Functions, Quiet
  <2> HIDE DEF a
  <2>3. \A r \in Pin : myGpioSetMode(r, m) \in Pin /\ myGpioSetMode(r, m).is = r.is
                       /\ myGpioSetMode(r, m).mode = m /\ (Kept(r) => Kept(myGpioSetMode(r, m)))
    <3>1. \A r \in Pin : myGpioSetMode(r, m) \in Pin /\ myGpioSetMode(r, m).is = r.is
                         /\ myGpioSetMode(r, m).mode = m
      BY DEF myGpioSetMode, Pin
    <3>2. QED
      BY <3>1, ModeAside
  <2>4. Touch(g, q)
    BY <1>2 DEF gpioSetMode, p, a, off
  <2>5. q \in Pin /\ (q.is = "hw_pwm" => p.is = "hw_pwm" /\ q.mode = p.mode)
        /\ (g \notin DOMAIN clkDef => Kept(q))
    BY <1>1, <2>1, <2>2, <2>3, QuietKept
  <2> HIDE DEF q
  <2>6. QED
    BY <2>4, <2>5, TouchKeeps DEF p
<1>3. ASSUME NEW level \in {0, 1}, gpioWrite(g, level) PROVE OutputsInv'
  <2> DEFINE a == Become(p, "write")
             b == myGpioSetMode(a, "out")
             q == [b EXCEPT !.latch = level]
  <2>1. a \in Pin /\ a.is = "write" /\ (Kept(p) => Kept(a))
    BY <1>1, Becomes DEF Functions
  <2> HIDE DEF a
  <2>2. b \in Pin /\ b.is = "write" /\ (Kept(a) => Kept(b))
    <3>1. "out" \in Modes
      BY DEF Modes
    <3>2. b \in Pin /\ b.is = "write"
      BY <2>1, <3>1 DEF myGpioSetMode, Pin
    <3>3. QED
      BY <2>1, <3>1, <3>2, ModeAside
  <2> HIDE DEF b
  <2>3. q \in Pin /\ q.is = "write" /\ (Kept(b) => Kept(q))
    <3>1. q \in Pin /\ q.is = "write"
      BY <2>2 DEF Pin
    <3>2. QED
      BY <3>1, <2>2, LatchAside
  <2>4. Touch(g, q)
    BY <1>3 DEF gpioWrite, p, a, b
  <2> HIDE DEF q
  <2>5. QED
    BY <1>1, <2>1, <2>2, <2>3, <2>4, TouchKeeps
<1>4. ASSUME NEW level \in {0, 1}, gpioTrigger(g, level) PROVE OutputsInv'
  <2> DEFINE q == [p EXCEPT !.latch = 1 - level]
  <2>1. q \in Pin /\ q.is = p.is /\ q.mode = p.mode
    BY <1>1 DEF Pin
  <2>2. 1 - level \in {0, 1}
    OBVIOUS
  <2>3. Kept(p) => Kept(q)
    BY <1>1, <2>2, LatchAside
  <2>4. Touch(g, q)
    BY <1>4 DEF gpioTrigger, p
  <2> HIDE DEF q
  <2>5. QED
    BY <1>1, <2>1, <2>3, <2>4, TouchKeeps DEF p
<1>5. QED
  BY <1>2, <1>3, <1>4

(* A GPIO becomes one of PWM or servo pulses, at width 0.                   *)
Begun(p, f, v) ==
  IF v = 0 /\ p.is # f THEN [Become(p, f) EXCEPT !.latch = 0] ELSE Become(p, f)
LEMMA PulseBegins ==
  ASSUME NEW p \in Pin, NEW f \in {"pwm", "servo"}, NEW v \in Nat
  PROVE  /\ myGpioSetMode(Begun(p, f, v), "out") \in Pin
         /\ myGpioSetMode(Begun(p, f, v), "out").is = f
         /\ myGpioSetMode(Begun(p, f, v), "out").range = p.range
         /\ myGpioSetMode(Begun(p, f, v), "out").width = Begun(p, f, v).width
         /\ Begun(p, f, v).width \in Nat
         /\ Kept(p) => Kept(myGpioSetMode(Begun(p, f, v), "out"))
<1> DEFINE b == Become(p, f)
           c == IF v = 0 /\ p.is # f THEN [b EXCEPT !.latch = 0] ELSE b
           q == myGpioSetMode(c, "out")
<1>1. b \in Pin /\ b.is = f /\ b.range = p.range /\ (Kept(p) => Kept(b))
  BY Becomes DEF Functions
<1> HIDE DEF b
<1>2. c \in Pin /\ c.is = f /\ c.range = p.range /\ (Kept(p) => Kept(c))
  <2>1. /\ [b EXCEPT !.latch = 0] \in Pin /\ [b EXCEPT !.latch = 0].is = f
        /\ [b EXCEPT !.latch = 0].range = p.range
    BY <1>1 DEF Pin
  <2>2. Kept(p) => Kept([b EXCEPT !.latch = 0])
    BY <1>1, LatchAside
  <2>3. QED
    BY <1>1, <2>1, <2>2
<1> HIDE DEF c
<1>3. "out" \in Modes
  BY DEF Modes
<1>4. q \in Pin /\ q.is = f /\ q.range = p.range /\ q.width = c.width /\ c.width \in Nat
  BY <1>2, <1>3 DEF Pin, myGpioSetMode
<1>5. Kept(p) => Kept(q)
  BY <1>2, <1>3, ModeAside
<1>6. QED
  BY <1>4, <1>5 DEF q, c, b, Begun

(* gpioPWM and gpioServo                                                    *)
LEMMA PulseCallsKeep ==
  ASSUME OutputsInv, libInitialised, NEW g \in Gpios,
         \/ \E v \in 0..gpio[g].range : gpioPWM(g, v)
         \/ \E v \in ServoSlots : gpioServo(g, v)
  PROVE  OutputsInv'
<1> DEFINE p == gpio[g]
<1>1. p \in Pin /\ (g \notin DOMAIN clkDef => Kept(p)) /\ p.range \in Nat \ {0}
  BY OutputsAssumption DEF OutputsInv, OutputsTypes, PulsesKept, Pin
<1>2. ASSUME NEW v \in 0..p.range, gpioPWM(g, v) PROVE OutputsInv'
  <2> DEFINE c == Begun(p, "pwm", v)
             m == myGpioSetMode(c, "out")
             a == myGpioSetPwm(m, c.width, v)
             q == [a EXCEPT !.width = v]
  <2>3. v \in Nat /\ v <= p.range
    BY <1>1
  <2>1. m \in Pin /\ m.is = "pwm" /\ m.range = p.range /\ m.width = c.width
        /\ c.width \in Nat /\ (Kept(p) => Kept(m))
    BY <1>1, <2>3, PulseBegins
  <2>2. Touch(g, q)
    BY <1>2 DEF gpioPWM, Begun
  <2> HIDE DEF c, m, p
  <2>4. a \in Pin /\ a.is = "pwm"
    <3>1. a \in Pin /\ SameAnswer(a, m)
      BY <2>1, <2>3, PulseTyped
    <3>2. QED
      BY <2>1, <3>1 DEF SameAnswer
  <2>5. Kept(m) => Kept(q)
    BY <2>1, <2>3, PwmKeeps
  <2> HIDE DEF a
  <2>6. q \in Pin /\ q.is = "pwm"
    BY <2>3, <2>4 DEF Pin
  <2> HIDE DEF q
  <2>7. QED
    BY <1>1, <2>1, <2>2, <2>5, <2>6, TouchKeeps
<1>3. ASSUME NEW v \in ServoSlots, gpioServo(g, v) PROVE OutputsInv'
  <2> DEFINE c == Begun(p, "servo", v)
             m == myGpioSetMode(c, "out")
             a == myGpioSetServo(m, c.width, v)
             q == [a EXCEPT !.width = v]
  <2>3. v \in Nat /\ v < RealRange(servoIdx)
    <3>1. RealRange(servoIdx) \in Nat /\ v \in 0..(RealRange(servoIdx) - 1)
      BY OutputsAssumption, RangeFacts
    <3>2. QED
      BY <3>1
  <2>1. m \in Pin /\ m.is = "servo" /\ m.width = c.width /\ c.width \in Nat
        /\ (Kept(p) => Kept(m))
    BY <1>1, <2>3, PulseBegins
  <2>2. Touch(g, q)
    BY <1>3 DEF gpioServo, Begun
  <2> HIDE DEF c, m, p
  <2>4. a \in Pin /\ a.is = "servo"
    BY <2>1, <2>3, PulseTyped DEF Pin, SameAnswer
  <2>5. Kept(m) => Kept(q)
    BY <2>1, <2>3, ServoKeeps
  <2> HIDE DEF a
  <2>6. q \in Pin /\ q.is = "servo"
    BY <2>3, <2>4 DEF Pin
  <2> HIDE DEF q
  <2>7. QED
    BY <1>1, <2>1, <2>2, <2>5, <2>6, TouchKeeps
<1>4. QED
  BY <1>2, <1>3

LEMMA PulseFields ==
  ASSUME NEW p \in Pin, NEW w \in Nat, NEW v \in Nat
  PROVE  /\ myGpioSetPwm(p, w, v) \in Pin /\ myGpioSetPwm(p, w, v).is = p.is
         /\ myGpioSetPwm(p, w, v).width = p.width /\ myGpioSetPwm(p, w, v).range = p.range
         /\ myGpioSetPwm(p, w, v).freqIdx = p.freqIdx
BY PulseTyped DEF SameAnswer

LEMMA FlatPlan ==
  ASSUME NEW p \in Pin, NEW i \in FreqIdx
  PROVE  Planned(p, i, 0) <=> Unplanned(p)
<1>1. RealRange(i) \in Nat \ {0}
  BY RangeFacts
<1>2. QED
  BY <1>1 DEF Planned, Unplanned

LEMMA PwmPlans ==
  ASSUME NEW p \in Pin, NEW w \in Nat, w <= p.range, NEW v \in Nat, v <= p.range,
         Planned(p, p.freqIdx, PwmOff(p, w))
  PROVE  LET q == myGpioSetPwm(p, w, v)
         IN  q \in Pin /\ SameAnswer(q, p) /\ Planned(q, p.freqIdx, PwmOff(p, v))
<1> DEFINE d == DropDeferred(p)
           i == p.freqIdx
           o == PwmOff(p, w)
           n == PwmOff(p, v)
           q == Replan(d, i, o, n)
<1>1. i \in FreqIdx /\ o \in 0..RealRange(i) /\ n \in 0..RealRange(i) /\ o \in Nat /\ n \in Nat
  BY PwmOffBound DEF Pin
<1>2. Planned(p, i, o)
  OBVIOUS
<1> HIDE DEF i, o, n
<1>3. d \in Pin /\ SameAnswer(d, p) /\ d.deferOff = 0 /\ Planned(d, i, o)
  BY <1>1, <1>2, DropTyped, DropKeeps
<1> HIDE DEF d
<1>4. q \in Pin /\ SameAnswer(q, d) /\ Planned(q, i, n)
  BY <1>1, <1>3, ReplanTyped, ReplanKeeps
<1> HIDE DEF q
<1>5. SameAnswer(q, p)
  BY <1>3, <1>4 DEF SameAnswer
<1>6. QED
  BY <1>4, <1>5 DEF q, d, i, o, n, myGpioSetPwm

(* A pulse that is under way is stopped, and begun anew with another range, *)
(* frequency and width.                                                     *)
LEMMA Restarted ==
  ASSUME NEW p \in Pin, p.is = "pwm", NEW r \in DutyRanges, NEW i \in FreqIdx, NEW n \in Nat,
         n <= r
  PROVE  LET z == [myGpioSetPwm(p, p.width, 0) EXCEPT !.range = r, !.freqIdx = i, !.width = n]
             q == myGpioSetPwm(z, 0, n)
         IN  q \in Pin /\ q.is = "pwm" /\ (Kept(p) => Kept(q))
<1> DEFINE a == myGpioSetPwm(p, p.width, 0)
           z == [a EXCEPT !.range = r, !.freqIdx = i, !.width = n]
           q == myGpioSetPwm(z, 0, n)
<1>1. p.width \in Nat /\ 0 \in Nat /\ p.range \in Nat /\ r \in Nat \ {0} /\ p.freqIdx \in FreqIdx
  BY OutputsAssumption DEF Pin
<1>2. a \in Pin /\ SameAnswer(a, p)
  BY <1>1, PulseTyped
<1>3. Kept(p) => Unplanned(a)
  <2>1. PwmOff(p, 0) = 0 /\ 0 <= p.range
    BY <1>1, PwmOffBound
  <2>2. Kept(p) => Planned(p, p.freqIdx, PwmOff(p, p.width)) /\ p.width <= p.range
    BY DEF Kept, IdxOf, OffOf
  <2>3. Kept(p) => Planned(a, p.freqIdx, PwmOff(p, 0))
    BY <1>1, <2>1, <2>2, PwmPlans
  <2>4. QED
    BY <1>1, <1>2, <2>1, <2>3, FlatPlan
<1> HIDE DEF a
<1>4. /\ z \in Pin /\ z.is = "pwm" /\ z.range = r /\ z.freqIdx = i /\ z.width = n
      /\ z.on = a.on /\ z.off = a.off /\ z.deferOff = a.deferOff
  BY <1>2 DEF Pin, SameAnswer
<1> HIDE DEF z
<1>5. q \in Pin /\ SameAnswer(q, z)
  BY <1>1, <1>4, PulseTyped
<1>6. Kept(p) => Planned(q, i, PwmOff(z, n))
  <2>1. PwmOff(z, 0) = 0 /\ 0 <= z.range
    BY <1>1, <1>4, PwmOffBound
  <2>2. Kept(p) => Planned(z, z.freqIdx, PwmOff(z, 0))
    BY <1>3, <1>4, <2>1, FlatPlan DEF Unplanned
  <2>3. QED
    BY <1>1, <1>4, <2>1, <2>2, PwmPlans
<1> HIDE DEF q
<1>7. q.is = "pwm" /\ q.width = n /\ q.range = r /\ q.freqIdx = i
  BY <1>4, <1>5 DEF SameAnswer
<1>8. OffOf(q) = PwmOff(z, n) /\ IdxOf(q) = i
  BY <1>4, <1>7 DEF OffOf, IdxOf, PwmOff
<1>9. Kept(p) => Kept(q)
  BY <1>6, <1>7, <1>8 DEF Kept
<1>10. QED
  BY <1>5, <1>7, <1>9 DEF q, z, a

(* Nothing is under way: the new range or frequency is only noted.          *)
LEMMA Noted ==
  ASSUME NEW p \in Pin, ~(p.width > 0 /\ p.is = "pwm"), NEW r \in DutyRanges, NEW i \in FreqIdx
  PROVE  LET q == [p EXCEPT !.range = r, !.freqIdx = i]
         IN  q \in Pin /\ q.is = p.is /\ q.mode = p.mode /\ (Kept(p) => Kept(q))
<1> DEFINE q == [p EXCEPT !.range = r, !.freqIdx = i]
<1>1. /\ q \in Pin /\ q.is = p.is /\ q.mode = p.mode /\ q.width = p.width /\ q.range = r
      /\ q.on = p.on /\ q.off = p.off /\ q.deferOff = p.deferOff /\ q.deferRng = p.deferRng
  BY DEF Pin
<1>2. p.width \in Nat /\ r \in Nat /\ p.freqIdx \in FreqIdx /\ servoIdx \in FreqIdx /\ q.freqIdx \in FreqIdx
  BY <1>1, OutputsAssumption DEF Pin
<1> HIDE DEF q
<1>3. CASE p.is = "servo"
  <2>1. OffOf(q) = OffOf(p) /\ IdxOf(q) = servoIdx /\ IdxOf(p) = servoIdx
    BY <1>1, <1>3 DEF OffOf, IdxOf
  <2>2. Planned(p, servoIdx, OffOf(p)) => Planned(q, servoIdx, OffOf(p))
    BY <1>1 DEF Planned, OffsOf
  <2>3. Kept(p) => Kept(q)
    BY <1>1, <1>3, <2>1, <2>2 DEF Kept
  <2>4. QED
    BY <1>1, <2>3 DEF q
<1>4. CASE p.is # "servo"
  <2>1. p.is = "pwm" => p.width = 0
    BY <1>2
  <2>2. OffOf(q) = 0 /\ OffOf(p) = 0
    BY <1>1, <1>4, <2>1, PwmOffBound DEF OffOf
  <2>3. Kept(p) => Unplanned(p) /\ p.width = 0
    BY <1>2, <1>4, <2>1, <2>2, FlatPlan DEF Kept, IdxOf
  <2>4. Kept(p) => Quiet(q)
    BY <1>1, <2>3 DEF Unplanned, Quiet
  <2>5. QED
    BY <1>1, <2>4, QuietKept DEF q
<1>5. QED
  BY <1>3, <1>4

(* gpioSetPWMrange and gpioSetPWMfrequency                                  *)
LEMMA RateCallsKeep ==
  ASSUME OutputsInv, libInitialised, NEW g \in Gpios,
         \/ \E r \in DutyRanges : gpioSetPWMrange(g, r)
         \/ \E i \in FreqIdx : gpioSetPWMfrequency(g, i)
  PROVE  OutputsInv'
<1> DEFINE p == gpio[g]
<1>1. /\ p \in Pin /\ (g \notin DOMAIN clkDef => Kept(p))
      /\ p.range \in DutyRanges /\ p.range \in Nat \ {0} /\ p.width \in Nat /\ p.freqIdx \in FreqIdx
  BY OutputsAssumption DEF OutputsInv, OutputsTypes, PulsesKept, Pin
<1>2. ASSUME NEW r \in DutyRanges, gpioSetPWMrange(g, r) PROVE OutputsInv'
  <2> DEFINE n == (r * p.width) \div p.range
             a == myGpioSetPwm(p, p.width, 0)
             z == [a EXCEPT !.range = r, !.width = n]
             q == IF p.width > 0 /\ p.is = "pwm" THEN myGpioSetPwm(z, 0, n)
                  ELSE [p EXCEPT !.range = r]
  <2>1. Touch(g, q)
    BY <1>2 DEF gpioSetPWMrange
  <2> HIDE DEF p
  <2>2. r \in Nat \ {0} /\ r \in Nat /\ 0 \in Nat
    BY OutputsAssumption
  <2>3. n \in Nat /\ (p.width <= p.range => n <= r)
    <3>1. r * p.width = p.width * r
      BY <1>1, <2>2
    <3>2. n \in Nat /\ (p.width <= p.range => n \in 0..r)
      BY <1>1, <2>2, <3>1, Scaled
    <3>3. QED
      BY <3>2, <2>2
  <2> HIDE DEF n
  <2>4. CASE p.width > 0 /\ p.is = "pwm"
    <3>1. a \in Pin /\ a.freqIdx = p.freqIdx
      BY <1>1, <2>2, PulseFields, Zenon
    <3> HIDE DEF a
    <3>2. z = [a EXCEPT !.range = r, !.freqIdx = p.freqIdx, !.width = n]
      BY <3>1 DEF Pin
    <3> HIDE DEF z
    <3>3. myGpioSetPwm(z, 0, n) \in Pin /\ myGpioSetPwm(z, 0, n).is = "pwm"
      <4>1. z \in Pin /\ z.is = "pwm"
        <5>1. a.is = "pwm"
          BY <1>1, <2>2, <2>4, PulseFields, Zenon DEF a
        <5>2. QED
          BY <1>1, <2>3, <3>1, <3>2, <5>1 DEF Pin
      <4>2. QED
        BY <4>1, <2>2, <2>3, PulseFields, Zenon
    <3>4. Kept(p) => Kept(myGpioSetPwm(z, 0, n))
      <4>1. Kept(p) => n <= r
        BY <2>3, <2>4 DEF Kept
      <4>2. QED
        BY <1>1, <2>3, <2>4, <3>2, <4>1, Restarted DEF a
    <3>5. q = myGpioSetPwm(z, 0, n)
      BY <2>4
    <3>6. QED
      BY <1>1, <2>1, <3>3, <3>4, <3>5, TouchKeeps
  <2>5. CASE ~(p.width > 0 /\ p.is = "pwm")
    <3> DEFINE x == [p EXCEPT !.range = r, !.freqIdx = p.freqIdx]
    <3>1. x \in Pin /\ x.is = p.is /\ x.mode = p.mode /\ (Kept(p) => Kept(x))
      BY <1>1, <2>5, Noted
    <3>4. q = x
      BY <1>1, <2>5 DEF Pin
    <3> HIDE DEF x
    <3>2. q \in Pin /\ q.is = p.is /\ q.mode = p.mode /\ (Kept(p) => Kept(q))
      BY <3>1, <3>4
    <3> HIDE DEF q
    <3>3. QED
      BY <1>1, <2>1, <3>2, TouchKeeps DEF p
  <2>6. QED
    BY <2>4, <2>5
<1>3. ASSUME NEW i \in FreqIdx, gpioSetPWMfrequency(g, i) PROVE OutputsInv'
  <2> DEFINE n == p.width
             a == myGpioSetPwm(p, p.width, 0)
             z == [a EXCEPT !.freqIdx = i]
             q == IF p.width > 0 /\ p.is = "pwm" THEN myGpioSetPwm(z, 0, n)
                  ELSE [p EXCEPT !.freqIdx = i]
  <2>1. Touch(g, q)
    BY <1>3 DEF gpioSetPWMfrequency
  <2> HIDE DEF p
  <2>3. n \in Nat /\ 0 \in Nat
    BY <1>1
  <2> HIDE DEF n
  <2>4. CASE p.width > 0 /\ p.is = "pwm"
    <3>1. a \in Pin /\ a.range = p.range /\ a.width = n /\ a.is = "pwm"
      BY <1>1, <2>3, <2>4, PulseFields, Zenon DEF n
    <3> HIDE DEF a
    <3>2. z = [a EXCEPT !.range = p.range, !.freqIdx = i, !.width = n]
      BY <3>1 DEF Pin
    <3>7. z \in Pin /\ z.is = "pwm"
      BY <3>1 DEF Pin
    <3> HIDE DEF z
    <3>3. myGpioSetPwm(z, 0, n) \in Pin /\ myGpioSetPwm(z, 0, n).is = "pwm"
      BY <3>7, <2>3, PulseFields, Zenon
    <3>4. Kept(p) => Kept(myGpioSetPwm(z, 0, n))
      <4>1. Kept(p) => n <= p.range
        BY <2>4 DEF Kept, n
      <4>2. QED
        BY <1>1, <2>3, <2>4, <3>2, <4>1, Restarted DEF a
    <3>5. q = myGpioSetPwm(z, 0, n)
      BY <2>4
    <3>6. QED
      BY <1>1, <2>1, <3>3, <3>4, <3>5, TouchKeeps
  <2>5. CASE ~(p.width > 0 /\ p.is = "pwm")
    <3>1. q = [p EXCEPT !.range = p.range, !.freqIdx = i]
      BY <1>1, <2>5 DEF Pin
    <3>2. q \in Pin /\ q.is = p.is /\ q.mode = p.mode /\ (Kept(p) => Kept(q))
      BY <1>1, <2>5, <3>1, Noted
    <3> HIDE DEF q
    <3>3. QED
      BY <1>1, <2>1, <3>2, TouchKeeps DEF p
  <2>6. QED
    BY <2>4, <2>5
<1>4. QED
  BY <1>2, <1>3

(* gpioWrite_Bits_0_31_Set and _Clear                                       *)
LEMMA BitsKeep ==
  ASSUME OutputsInv, libInitialised, NEW gs, NEW level \in {0, 1}, gpioWrite_Bits(gs, level)
  PROVE  OutputsInv'
<1> DEFINE new(p) == [p EXCEPT !.latch = level]
<1>1. /\ gpio' = [g \in Gpios |-> IF g \in gs THEN new(gpio[g]) ELSE gpio[g]]
      /\ UNCHANGED <<pwmCtl, pwmClk, hwDuty, hwClk, waveClockInited, PWMClockInited, waveBusy,
                     libInitialised>>
  BY DEF gpioWrite_Bits, peripherals
<1>2. \A p \in Pin : new(p) \in Pin /\ new(p).is = p.is /\ new(p).mode = p.mode
                     /\ (Kept(p) => Kept(new(p)))
  <2>1. \A p \in Pin : new(p) \in Pin /\ new(p).is = p.is /\ new(p).mode = p.mode
    BY DEF Pin
  <2>2. \A p \in Pin : Kept(p) => Kept(new(p))
    BY LatchAside
  <2>3. QED
    BY <2>1, <2>2
<1> HIDE DEF new
<1>3. /\ gpio' \in [Gpios -> Pin]
      /\ \A g \in Gpios : /\ gpio'[g].is = gpio[g].is /\ gpio'[g].mode = gpio[g].mode
                          /\ Kept(gpio[g]) => Kept(gpio'[g])
  BY <1>1, <1>2 DEF OutputsInv, OutputsTypes
<1>4. OutputsTypes'
  BY <1>1, <1>3 DEF OutputsInv, OutputsTypes
<1>5. PulsesKept'
  <2>1. \A g \in Gpios \ DOMAIN clkDef : Kept(gpio'[g])
    BY <1>3 DEF OutputsInv, PulsesKept
  <2>2. QED
    BY <2>1, <1>1 DEF PulsesKept, Kept, Planned, IdxOf, OffOf, PwmOff, OffsOf
<1>6. HwPwmGpios' = HwPwmGpios
  BY <1>3 DEF HwPwmGpios
<1>7. HardwarePWMPlays'
  BY <1>1, <1>3, <1>6 DEF OutputsInv, PeripheralShared, HardwarePWMPlays, HwPwmGpios
<1>8. QED
  BY <1>1, <1>4, <1>5, <1>6, <1>7 DEF OutputsInv, PeripheralShared

LEMMA ClockKeeps ==
  ASSUME OutputsInv, libInitialised, NEW g \in DOMAIN clkDef, NEW on \in BOOLEAN,
         gpioHardwareClock(g, on)
  PROVE  OutputsInv'
<1> DEFINE p == gpio[g]
           a == [myGpioSetMode(p, Alt[g]) EXCEPT !.is = "hw_clk"]
           b == [p EXCEPT !.is = "undefined"]
           q == IF on THEN a ELSE IF p.is = "hw_clk" THEN b ELSE p
<1>1. g \in Gpios /\ p \in Pin /\ Alt[g] \in Modes /\ clkDef[g] \in 0..2
  BY OutputsAssumption DEF OutputsInv, OutputsTypes, Modes
<1>2. /\ gpio' = [gpio EXCEPT ![g] = q]
      /\ hwClk' \subseteq hwClk \union {clkDef[g]}
      /\ UNCHANGED <<pwmCtl, pwmClk, hwDuty, waveClockInited, PWMClockInited, waveBusy,
                     libInitialised>>
  BY DEF gpioHardwareClock
<1> HIDE DEF p
<1>3. a \in Pin /\ a.is = "hw_clk" /\ b \in Pin /\ b.is = "undefined"
  BY <1>1 DEF Pin, Functions, myGpioSetMode
<1> HIDE DEF a, b
<1>4. q \in Pin /\ (q.is = "hw_pwm" => q = p)
  BY <1>1, <1>3
<1> HIDE DEF q
<1>5. gpio' \in [Gpios -> Pin] /\ \A h \in Gpios : gpio'[h] = IF h = g THEN q ELSE gpio[h]
  BY <1>1, <1>2, <1>4 DEF OutputsInv, OutputsTypes
<1>6. OutputsTypes'
  BY <1>1, <1>2, <1>5 DEF OutputsInv, OutputsTypes
<1>7. PulsesKept'
  <2>1. \A h \in Gpios \ DOMAIN clkDef : Kept(gpio'[h])
    BY <1>5 DEF OutputsInv, PulsesKept
  <2>2. QED
    BY <2>1, <1>2 DEF PulsesKept, Kept, Planned, IdxOf, OffOf, PwmOff, OffsOf
<1>8. \A h \in Gpios : gpio'[h].is = "hw_pwm" => gpio'[h] = gpio[h]
  BY <1>4, <1>5 DEF p
<1>9. HwPwmGpios' \subseteq HwPwmGpios
  BY <1>8 DEF HwPwmGpios
<1>10. HardwarePWMPlays'
  BY <1>2, <1>8, <1>9 DEF OutputsInv, PeripheralShared, HardwarePWMPlays, HwPwmGpios
<1>11. QED
  BY <1>2, <1>6, <1>7, <1>9, <1>10 DEF OutputsInv, PeripheralShared

(* What ends the hardware PWM of every GPIO, for stopHardwarePWM and for a  *)
(* waveform.                                                                *)
LEMMA NonePlays ==
  ASSUME OutputsInv, gpio' = WithoutHwPwm, UNCHANGED libInitialised
  PROVE  gpio' \in [Gpios -> Pin] /\ PulsesKept' /\ HwPwmGpios' = {}
<1> DEFINE new(p) == [p EXCEPT !.width = 0, !.is = "undefined"]
<1>1. gpio' = [g \in Gpios |-> IF gpio[g].is = "hw_pwm" THEN new(gpio[g]) ELSE gpio[g]]
  BY DEF WithoutHwPwm, HwPwmGpios
<1>2. \A p \in Pin : /\ new(p) \in Pin /\ new(p).is = "undefined" /\ new(p).width = 0
                     /\ new(p).on = p.on /\ new(p).off = p.off /\ new(p).deferOff = p.deferOff
  BY DEF Pin, Functions
<1> HIDE DEF new
<1>3. gpio \in [Gpios -> Pin]
  BY DEF OutputsInv, OutputsTypes
<1>4. gpio' \in [Gpios -> Pin] /\ \A g \in Gpios : gpio'[g].is # "hw_pwm"
  BY <1>1, <1>2, <1>3
<1>5. ASSUME NEW p \in Pin, p.is = "hw_pwm" PROVE Kept(p) => Kept(new(p))
  <2>1. Kept(p) => Planned(p, p.freqIdx, 0) /\ p.freqIdx \in FreqIdx
    BY <1>5 DEF Kept, OffOf, IdxOf, Pin
  <2>2. Kept(p) => Unplanned(p)
    BY <2>1, FlatPlan
  <2>3. Kept(p) => Quiet(new(p))
    BY <2>2, <1>2 DEF Unplanned, Quiet
  <2>4. QED
    BY <2>3, <1>2, QuietKept
<1>6. PulsesKept'
  <2>1. CASE libInitialised
    <3>1. \A g \in Gpios \ DOMAIN clkDef : Kept(gpio'[g])
      BY <1>1, <1>3, <1>5, <2>1 DEF OutputsInv, PulsesKept
    <3>2. QED
      BY <3>1, <2>1 DEF PulsesKept, Kept, Planned, IdxOf, OffOf, PwmOff, OffsOf
  <2>2. CASE ~libInitialised
    <3>1. \A g \in Gpios \ DOMAIN clkDef : Unplanned(gpio'[g])
      BY <1>1, <1>2, <1>3, <2>2 DEF OutputsInv, PulsesKept, Unplanned
    <3>2. QED
      BY <3>1, <2>2 DEF PulsesKept, Unplanned
  <2>3. QED
    BY <2>1, <2>2
<1>7. QED
  BY <1>4, <1>6 DEF HwPwmGpios

LEMMA StopKeeps ==
  ASSUME OutputsInv, libInitialised, stopHardwarePWM
  PROVE  OutputsInv'
<1>1. /\ gpio' = WithoutHwPwm
      /\ UNCHANGED <<pwmClk, hwDuty, hwClk, waveClockInited, PWMClockInited, waveBusy,
                     libInitialised>>
      /\ pwmCtl' = [c \in Channels |-> IF \E g \in HwPwmGpios : PWMDef[g] = c THEN "off"
                                       ELSE pwmCtl[c]]
  BY DEF stopHardwarePWM
<1>2. gpio' \in [Gpios -> Pin] /\ PulsesKept' /\ HwPwmGpios' = {}
  BY <1>1, NonePlays
<1>3. pwmCtl' \in [Channels -> {"off", "plain", "ms", "fifo"}]
  BY <1>1 DEF OutputsInv, OutputsTypes
<1>4. OutputsTypes'
  BY <1>1, <1>2, <1>3 DEF OutputsInv, OutputsTypes
<1>5. waveClockInited => pwmCtl'[0] = "fifo"
  BY <1>1 DEF OutputsInv, PeripheralShared, Channels
<1>6. PeripheralShared'
  BY <1>1, <1>2, <1>5 DEF OutputsInv, PeripheralShared, HardwarePWMPlays
<1>7. QED
  BY <1>2, <1>4, <1>6 DEF OutputsInv

LEMMA HardwareOnKeeps ==
  ASSUME OutputsInv, libInitialised, NEW g \in DOMAIN PWMDef, NEW duty \in HwDuties,
         HardwarePWMOn(g, duty)
  PROVE  OutputsInv'
<1> DEFINE p == gpio[g]
           off == switchFunctionOff(p)
           a == myGpioSetMode(off, Alt[g])
           b == [a EXCEPT !.is = "hw_pwm"]
           q == IF p.is = "hw_pwm" THEN p ELSE b
           kept == [d \in Channels |-> IF pwmCtl[d] = "fifo" THEN "plain" ELSE pwmCtl[d]]
           c == PWMDef[g]
<1>1. /\ g \in Gpios /\ p \in Pin /\ Alt[g] \in Modes /\ c \in Channels
      /\ (g \notin DOMAIN clkDef => Kept(p)) /\ (p.is = "hw_pwm" => p.mode = Alt[g])
  BY OutputsAssumption
  DEF OutputsInv, OutputsTypes, Modes, PulsesKept, PeripheralShared, HardwarePWMPlays, HwPwmGpios
<1>2. /\ gpio' = [gpio EXCEPT ![g] = q]
      /\ hwDuty' = [hwDuty EXCEPT ![c] = duty]
      /\ pwmCtl' = [kept EXCEPT ![c] = "ms"]
      /\ pwmClk' = IF PWMClockInited THEN pwmClk ELSE "plld"
      /\ waveClockInited' = FALSE /\ PWMClockInited' = TRUE /\ waveBusy' = FALSE
      /\ UNCHANGED <<hwClk, libInitialised>>
  BY DEF HardwarePWMOn
<1>3. kept \in [Channels -> {"off", "plain", "ms", "fifo"}]
      /\ \A d \in Channels : pwmCtl[d] = "ms" => kept[d] = "ms"
  BY DEF OutputsInv, OutputsTypes
<1> HIDE DEF p, kept, c
<1>4. off \in Pin /\ (Kept(p) => Quiet(off))
  BY <1>1, SwitchedTyped, SwitchedOff
<1> HIDE DEF off
<1>5. a \in Pin /\ a.mode = Alt[g] /\ (Kept(p) => Quiet(a))
  <2>1. a \in Pin /\ a.mode = Alt[g]
    BY <1>1, <1>4 DEF Pin, myGpioSetMode
  <2>2. QED
    BY <2>1, <1>1, <1>4, ModeAside, QuietKept
<1> HIDE DEF a
<1>6. b \in Pin /\ b.is = "hw_pwm" /\ b.mode = Alt[g] /\ (Quiet(a) => Quiet(b))
  BY <1>5 DEF Pin, Functions, Quiet
<1> HIDE DEF b
<1>7. q \in Pin /\ q.is = "hw_pwm" /\ q.mode = Alt[g] /\ (Kept(p) => Kept(q))
  BY <1>1, <1>5, <1>6, QuietKept
<1> HIDE DEF q
<1>8. gpio' \in [Gpios -> Pin] /\ \A h \in Gpios : gpio'[h] = IF h = g THEN q ELSE gpio[h]
  BY <1>1, <1>2, <1>7 DEF OutputsInv, OutputsTypes
<1>9. /\ pwmCtl' \in [Channels -> {"off", "plain", "ms", "fifo"}] /\ pwmCtl'[c] = "ms"
      /\ \A d \in Channels : pwmCtl[d] = "ms" => pwmCtl'[d] = "ms"
  BY <1>1, <1>2, <1>3
<1>10. hwDuty' \in [Channels -> HwDuties \union {0}]
  BY <1>1, <1>2 DEF OutputsInv, OutputsTypes
<1>11. pwmClk' = "plld"
  BY <1>2 DEF OutputsInv, PeripheralShared
<1>12. OutputsTypes'
  BY <1>2, <1>8, <1>9, <1>10, <1>11 DEF OutputsInv, OutputsTypes
<1>13. PulsesKept'
  <2>1. \A h \in Gpios \ DOMAIN clkDef : Kept(gpio'[h])
    BY <1>1, <1>7, <1>8 DEF OutputsInv, PulsesKept
  <2>2. QED
    BY <2>1, <1>2 DEF PulsesKept, Kept, Planned, IdxOf, OffOf, PwmOff, OffsOf
<1>14. \A h \in Gpios : gpio'[h].is = "hw_pwm" =>
          h = g \/ (h \in HwPwmGpios /\ gpio'[h].mode = gpio[h].mode)
  BY <1>8 DEF HwPwmGpios
<1>15. \A h \in HwPwmGpios' : /\ h \in DOMAIN PWMDef /\ pwmCtl'[PWMDef[h]] = "ms"
                              /\ gpio'[h].mode = Alt[h]
  <2> SUFFICES ASSUME NEW h \in HwPwmGpios'
               PROVE  h \in DOMAIN PWMDef /\ pwmCtl'[PWMDef[h]] = "ms" /\ gpio'[h].mode = Alt[h]
    OBVIOUS
  <2>1. CASE h = g
    BY <2>1, <1>1, <1>7, <1>8, <1>9 DEF c
  <2>2. CASE h # g
    <3>1. h \in HwPwmGpios /\ gpio'[h].mode = gpio[h].mode
      BY <2>2, <1>14 DEF HwPwmGpios
    <3>2. h \in DOMAIN PWMDef /\ pwmCtl[PWMDef[h]] = "ms" /\ gpio[h].mode = Alt[h]
      BY <3>1 DEF OutputsInv, PeripheralShared, HardwarePWMPlays
    <3>3. PWMDef[h] \in Channels
      BY <3>2, OutputsAssumption
    <3>4. QED
      BY <3>1, <3>2, <3>3, <1>9
  <2>3. QED
    BY <2>1, <2>2
<1>16. PeripheralShared'
  BY <1>2, <1>11, <1>15 DEF PeripheralShared, HardwarePWMPlays
<1>17. QED
  BY <1>12, <1>13, <1>16 DEF OutputsInv

(* Every GPIO has a channel of its own: gpioHardwarePWM with frequency 0    *)
(* stops the channel, whoever else is playing it.                           *)
OwnChannels == \A g, h \in DOMAIN PWMDef : PWMDef[g] = PWMDef[h] => g = h

LEMMA HardwareOffKeeps ==
  ASSUME OwnChannels, OutputsInv, libInitialised, NEW g \in DOMAIN PWMDef, HardwarePWMOff(g)
  PROVE  OutputsInv'
<1> DEFINE p == gpio[g]
           q == [p EXCEPT !.is = "undefined"]
           c == PWMDef[g]
<1>1. /\ g \in Gpios /\ p \in Pin /\ c \in Channels /\ p.is = "hw_pwm"
      /\ (g \notin DOMAIN clkDef => Kept(p)) /\ g \in HwPwmGpios
  BY OutputsAssumption
  DEF OutputsInv, OutputsTypes, PulsesKept, HardwarePWMOff, HwPwmGpios
<1>2. /\ gpio' = [gpio EXCEPT ![g] = q]
      /\ pwmCtl' = [pwmCtl EXCEPT ![c] = "off"]
      /\ UNCHANGED <<pwmClk, hwDuty, hwClk, waveClockInited, PWMClockInited, waveBusy,
                     libInitialised>>
  BY DEF HardwarePWMOff
<1> HIDE DEF p
<1>3. q \in Pin /\ q.is = "undefined" /\ q.width = p.width /\ q.on = p.on /\ q.off = p.off
      /\ q.deferOff = p.deferOff
  BY <1>1 DEF Pin, Functions
<1> HIDE DEF q, c
<1>4. Kept(p) => Kept(q)
  <2>1. Kept(p) => Planned(p, p.freqIdx, 0) /\ p.freqIdx \in FreqIdx /\ p.width = 0
    BY <1>1 DEF Kept, OffOf, IdxOf, Pin
  <2>2. Kept(p) => Unplanned(p)
    BY <1>1, <2>1, FlatPlan
  <2>3. Kept(p) => Quiet(q)
    BY <1>3, <2>1, <2>2 DEF Unplanned, Quiet
  <2>4. QED
    BY <1>3, <2>3, QuietKept
<1>5. gpio' \in [Gpios -> Pin] /\ \A h \in Gpios : gpio'[h] = IF h = g THEN q ELSE gpio[h]
  BY <1>1, <1>2, <1>3 DEF OutputsInv, OutputsTypes
<1>6. /\ pwmCtl' \in [Channels -> {"off", "plain", "ms", "fifo"}]
      /\ \A d \in Channels \ {c} : pwmCtl'[d] = pwmCtl[d]
  BY <1>1, <1>2 DEF OutputsInv, OutputsTypes
<1>7. OutputsTypes'
  BY <1>2, <1>5, <1>6 DEF OutputsInv, OutputsTypes
<1>8. PulsesKept'
  <2>1. \A h \in Gpios \ DOMAIN clkDef : Kept(gpio'[h])
    BY <1>1, <1>4, <1>5 DEF OutputsInv, PulsesKept
  <2>2. QED
    BY <2>1, <1>2 DEF PulsesKept, Kept, Planned, IdxOf, OffOf, PwmOff, OffsOf
<1>9. \A h \in HwPwmGpios' : h \in HwPwmGpios /\ h # g /\ gpio'[h].mode = gpio[h].mode
  BY <1>3, <1>5 DEF HwPwmGpios
<1>10. \A h \in HwPwmGpios' : /\ h \in DOMAIN PWMDef /\ pwmCtl'[PWMDef[h]] = "ms"
                              /\ gpio'[h].mode = Alt[h]
  <2> SUFFICES ASSUME NEW h \in HwPwmGpios'
               PROVE  h \in DOMAIN PWMDef /\ pwmCtl'[PWMDef[h]] = "ms" /\ gpio'[h].mode = Alt[h]
    OBVIOUS
  <2>1. h \in DOMAIN PWMDef /\ pwmCtl[PWMDef[h]] = "ms" /\ gpio[h].mode = Alt[h]
    BY <1>9 DEF OutputsInv, PeripheralShared, HardwarePWMPlays
  <2>2. PWMDef[h] \in Channels \ {c}
    BY <1>9, <2>1, OutputsAssumption DEF OwnChannels, c
  <2>3. QED
    BY <1>6, <1>9, <2>1, <2>2
<1>11. waveClockInited = FALSE
  BY <1>1 DEF OutputsInv, PeripheralShared, OutputsTypes
<1>12. PWMClockInited /\ pwmClk = "plld"
  BY <1>1 DEF OutputsInv, PeripheralShared, HardwarePWMPlays
<1>13. PeripheralShared'
  BY <1>2, <1>10, <1>11, <1>12 DEF OutputsInv, PeripheralShared, HardwarePWMPlays
<1>14. QED
  BY <1>7, <1>8, <1>13 DEF OutputsInv

LEMMA WavesKeep ==
  ASSUME OutputsInv, libInitialised, WaveSent \/ WaveEnded
  PROVE  OutputsInv'
<1>1. CASE WaveEnded
  <2>1. /\ UNCHANGED <<gpio, pwmCtl, pwmClk, hwDuty, hwClk, waveClockInited, PWMClockInited,
                       libInitialised>>
        /\ waveBusy' = FALSE
    BY <1>1 DEF WaveEnded
  <2>2. OutputsTypes'
    BY <2>1 DEF OutputsInv, OutputsTypes
  <2>3. PulsesKept'
    BY <2>1 DEF OutputsInv, PulsesKept, Kept, Planned, IdxOf, OffOf, PwmOff, OffsOf, Unplanned
  <2>4. PeripheralShared'
    BY <2>1 DEF OutputsInv, PeripheralShared, HardwarePWMPlays, HwPwmGpios
  <2>5. QED
    BY <2>2, <2>3, <2>4 DEF OutputsInv
<1>2. CASE WaveSent /\ waveClockInited
  <2>1. /\ UNCHANGED <<gpio, pwmCtl, pwmClk, hwDuty, hwClk, waveClockInited, PWMClockInited,
                       libInitialised>>
        /\ waveBusy' = TRUE
    BY <1>2 DEF WaveSent
  <2>2. OutputsTypes'
    BY <2>1 DEF OutputsInv, OutputsTypes
  <2>3. PulsesKept'
    BY <2>1 DEF OutputsInv, PulsesKept, Kept, Planned, IdxOf, OffOf, PwmOff, OffsOf, Unplanned
  <2>4. PeripheralShared'
    BY <1>2, <2>1 DEF OutputsInv, PeripheralShared, HardwarePWMPlays, HwPwmGpios
  <2>5. QED
    BY <2>2, <2>3, <2>4 DEF OutputsInv
<1>3. CASE WaveSent /\ ~waveClockInited
  <2>1. /\ gpio' = WithoutHwPwm /\ pwmCtl' = [c \in Channels |-> IF c = 0 THEN "fifo" ELSE "off"]
        /\ pwmClk' = "wave" /\ waveClockInited' = TRUE /\ PWMClockInited' = FALSE
        /\ waveBusy' = TRUE /\ UNCHANGED <<hwDuty, hwClk, libInitialised>>
    BY <1>3 DEF WaveSent
  <2>2. gpio' \in [Gpios -> Pin] /\ PulsesKept' /\ HwPwmGpios' = {}
    BY <2>1, NonePlays
  <2>3. pwmCtl' \in [Channels -> {"off", "plain", "ms", "fifo"}] /\ pwmCtl'[0] = "fifo"
    BY <2>1 DEF Channels
  <2>4. OutputsTypes'
    BY <2>1, <2>2, <2>3 DEF OutputsInv, OutputsTypes
  <2>5. PeripheralShared'
    BY <2>1, <2>2, <2>3 DEF PeripheralShared, HardwarePWMPlays
  <2>6. QED
    BY <2>2, <2>4, <2>5 DEF OutputsInv
<1>4. QED
  BY <1>1, <1>2, <1>3

LEMMA LifeKeeps ==
  ASSUME OutputsInv, OutputsTerminate \/ OutputsInitialise
  PROVE  OutputsInv'
<1>1. CASE OutputsTerminate
  <2> DEFINE new(p) == [p EXCEPT !.on = {}, !.off = {}]
  <2>1. /\ gpio' = [g \in Gpios |-> new(gpio[g])]
        /\ libInitialised /\ libInitialised' = FALSE /\ waveBusy' = FALSE
        /\ UNCHANGED <<pwmCtl, pwmClk, hwDuty, hwClk, waveClockInited, PWMClockInited>>
    BY <1>1 DEF OutputsTerminate
  <2>2. \A p \in Pin : /\ new(p) \in Pin /\ new(p).is = p.is /\ new(p).on = {} /\ new(p).off = {}
                       /\ new(p).deferOff = p.deferOff
    BY DEF Pin
  <2> HIDE DEF new
  <2>3. /\ gpio' \in [Gpios -> Pin]
        /\ \A g \in Gpios : /\ gpio'[g].is = gpio[g].is /\ gpio'[g].on = {} /\ gpio'[g].off = {}
                            /\ gpio'[g].deferOff = gpio[g].deferOff
    BY <2>1, <2>2 DEF OutputsInv, OutputsTypes
  <2>4. OutputsTypes'
    BY <2>1, <2>3 DEF OutputsInv, OutputsTypes
  <2>5. \A g \in Gpios \ DOMAIN clkDef : gpio[g].deferOff \in 0..SUPERLEVEL
    BY <2>1 DEF OutputsInv, PulsesKept, Kept, Planned
  <2>6. PulsesKept'
    BY <2>1, <2>3, <2>5 DEF PulsesKept, Unplanned
  <2>7. HwPwmGpios' = HwPwmGpios
    BY <2>3 DEF HwPwmGpios
  <2>8. PeripheralShared'
    BY <2>1, <2>7 DEF OutputsInv, PeripheralShared, HardwarePWMPlays
  <2>9. QED
    BY <2>4, <2>6, <2>8 DEF OutputsInv
<1>2. CASE OutputsInitialise
  <2> DEFINE new(p) == [p EXCEPT !.is = "undefined", !.width = 0,
                          !.range = CHOOSE r \in DutyRanges : TRUE,
                          !.freqIdx = CHOOSE i \in FreqIdx : TRUE]
  <2>1. /\ gpio' = [g \in Gpios |-> new(gpio[g])]
        /\ ~libInitialised /\ libInitialised' = TRUE
        /\ waveClockInited' = FALSE /\ PWMClockInited' = FALSE
        /\ UNCHANGED <<pwmCtl, pwmClk, hwDuty, hwClk, waveBusy>>
    BY <1>2 DEF OutputsInitialise
  <2>2. \A p \in Pin : /\ new(p) \in Pin /\ new(p).is = "undefined" /\ new(p).width = 0
                       /\ new(p).on = p.on /\ new(p).off = p.off /\ new(p).deferOff = p.deferOff
    <3>1. (CHOOSE r \in DutyRanges : TRUE) \in DutyRanges /\ (CHOOSE i \in FreqIdx : TRUE) \in FreqIdx
      BY OutputsAssumption
    <3>2. QED
      BY <3>1 DEF Pin, Functions
  <2> HIDE DEF new
  <2>3. /\ gpio' \in [Gpios -> Pin]
        /\ \A g \in Gpios : /\ gpio'[g].is = "undefined"
                            /\ Unplanned(gpio[g]) => Quiet(gpio'[g])
    BY <2>1, <2>2 DEF OutputsInv, OutputsTypes, Unplanned, Quiet
  <2>4. OutputsTypes'
    BY <2>1, <2>3 DEF OutputsInv, OutputsTypes
  <2>5. \A g \in Gpios \ DOMAIN clkDef : Kept(gpio'[g])
    BY <2>1, <2>3, QuietKept DEF OutputsInv, PulsesKept
  <2>6. PulsesKept'
    BY <2>1, <2>5 DEF PulsesKept, Kept, Planned, IdxOf, OffOf, PwmOff, OffsOf
  <2>7. HwPwmGpios' = {} /\ ~waveBusy
    BY <2>1, <2>3 DEF HwPwmGpios, OutputsInv, PeripheralShared
  <2>8. PeripheralShared'
    BY <2>1, <2>7 DEF PeripheralShared, HardwarePWMPlays
  <2>9. QED
    BY <2>4, <2>6, <2>8 DEF OutputsInv
<1>3. QED
  BY <1>1, <1>2

LEMMA OutputsInvNext == OwnChannels /\ OutputsInv /\ [OutputsNext]_outputsVars => OutputsInv'
<1> SUFFICES ASSUME OwnChannels, OutputsInv, [OutputsNext]_outputsVars PROVE OutputsInv'
  OBVIOUS
<1>1. CASE UNCHANGED outputsVars
  <2>1. UNCHANGED <<OutputsTypes, PulsesKept, PeripheralShared>>
    BY <1>1 DEF outputsVars, OutputsTypes, PulsesKept, PeripheralShared, HardwarePWMPlays,
                HwPwmGpios, Kept, Planned, IdxOf, OffOf, PwmOff, OffsOf, Unplanned
  <2>2. QED
    BY <2>1 DEF OutputsInv
<1>2. ASSUME libInitialised, NEW g \in WatchedPins,
             \/ \E m \in {"in", "out"} : gpioSetMode(g, m)
             \/ \E level \in {0, 1} : gpioWrite(g, level) \/ gpioTrigger(g, level)
      PROVE  OutputsInv'
  BY <1>2, LevelCallsKeep, OutputsAssumption DEF Modes
<1>3. ASSUME libInitialised, NEW g \in WatchedPins,
             \/ \E v \in 0..gpio[g].range : gpioPWM(g, v)
             \/ \E v \in ServoSlots : gpioServo(g, v)
      PROVE  OutputsInv'
  BY <1>3, PulseCallsKeep, OutputsAssumption
<1>4. ASSUME libInitialised, NEW g \in WatchedPins,
             \/ \E r \in DutyRanges : gpioSetPWMrange(g, r)
             \/ \E i \in FreqIdx : gpioSetPWMfrequency(g, i)
      PROVE  OutputsInv'
  BY <1>4, RateCallsKeep, OutputsAssumption
<1>5. ASSUME libInitialised, NEW g \in WatchedPins \intersect DOMAIN PWMDef, gpioSetMode(g, Alt[g])
      PROVE  OutputsInv'
  BY <1>5, LevelCallsKeep, OutputsAssumption DEF Modes
<1>6. CASE OutputsTerminate \/ OutputsInitialise
  BY <1>6, LifeKeeps
<1>7. QED
  BY <1>1, <1>2, <1>3, <1>4, <1>5, <1>6, ClockKeeps, BitsKeep, StopKeeps, WavesKeep,
     HardwareOnKeeps, HardwareOffKeeps DEF OutputsNext

LEMMA InvAgrees == OutputsInv => OutputsAgree
<1> SUFFICES ASSUME OutputsInv PROVE OutputsAgree
  OBVIOUS
<1>1. ASSUME NEW g \in Gpios \ DOMAIN clkDef
      PROVE  gpio[g].deferOff \in 0..SUPERLEVEL /\ gpio[g].off \subseteq 1..SUPERLEVEL
  <2> DEFINE p == gpio[g]
             i == IdxOf(p)
             o == OffOf(p)
             r == RealRange(i)
  <2>1. CASE ~libInitialised
    BY <1>1, <2>1 DEF OutputsInv, PulsesKept, Unplanned
  <2>2. CASE libInitialised
    <3>1. p \in Pin /\ Kept(p)
      BY <1>1, <2>2 DEF OutputsInv, PulsesKept, OutputsTypes
    <3> HIDE DEF p
    <3>2. Planned(p, i, o) /\ i \in FreqIdx /\ o \in 0..r /\ r \in Nat \ {0}
      BY <3>1, OffOfBound, RangeFacts DEF Kept
    <3> HIDE DEF o, i
    <3>3. CASE o \in {0, r}
      BY <3>2, <3>3 DEF Planned, p
    <3>4. CASE o \in 1..(r - 1)
      <4>1. Slots(o, r) \subseteq 1..SUPERLEVEL
        BY <3>2, <3>4, SlotsInPlan
      <4>2. p.deferOff \in 1..r => Slots(p.deferOff, r) \subseteq 1..SUPERLEVEL
        BY <3>2, SlotsInPlan
      <4>3. OffsOf(p, o, r) /\ p.deferOff \in 0..SUPERLEVEL
        BY <3>2, <3>4 DEF Planned
      <4>4. p.deferOff = 0 \/ p.deferOff \in 1..r
        BY <3>2, <3>4, <4>3 DEF OffsOf
      <4>5. p.off \subseteq 1..SUPERLEVEL
        BY <3>2, <3>4, <4>1, <4>2, <4>3, <4>4 DEF OffsOf
      <4>6. QED
        BY <4>3, <4>5 DEF p
    <3>5. QED
      BY <3>2, <3>3, <3>4
  <2>3. QED
    BY <2>1, <2>2
<1>2. OutputsTypeOK
  BY <1>1 DEF OutputsInv, OutputsTypes, OutputsTypeOK, Pin, Functions, Ranges, OnSlots
<1>3. PlanMatchesAnswers
  <2> SUFFICES ASSUME libInitialised, NEW g \in Gpios \ DOMAIN clkDef
               PROVE  LET p == gpio[g]
                          o == AnsweredOff(g)
                          rng == RealRange(AnsweredIdx(g))
                          deferred == IF p.deferOff \in 1..(p.deferRng - 1)
                                      THEN Slots(p.deferOff, p.deferRng) ELSE {}
                      IN /\ p.on = IF o = 0 THEN {} ELSE OnCycles(AnsweredIdx(g))
                         /\ o \in 1..(rng - 1) => p.off = Slots(o, rng) \union deferred
                         /\ o \in {0, rng} => p.off \subseteq deferred
    BY DEF PlanMatchesAnswers
  <2> DEFINE p == gpio[g]
             i == IdxOf(p)
             o == OffOf(p)
             r == RealRange(i)
  <2>1. AnsweredIdx(g) = i /\ AnsweredOff(g) = o
    BY DEF AnsweredIdx, AnsweredOff, IdxOf, OffOf, PwmOff, gpioGetPWMdutycycle,
           gpioGetPWMrealRange, gpioGetPWMrange, gpioGetServoPulsewidth
  <2>2. p \in Pin /\ Kept(p)
    BY DEF OutputsInv, PulsesKept, OutputsTypes
  <2> HIDE DEF p
  <2>3. Planned(p, i, o) /\ o \in 0..r /\ r \in Nat \ {0}
    BY <2>2, OffOfBound, RangeFacts DEF Kept
  <2> HIDE DEF o, i
  <2> DEFINE deferred == IF p.deferOff \in 1..(p.deferRng - 1)
                         THEN Slots(p.deferOff, p.deferRng) ELSE {}
  <2>4. o \in 1..(r - 1) => p.off = Slots(o, r) \union deferred
    <3>1. SUFFICES ASSUME o \in 1..(r - 1) PROVE p.off = Slots(o, r) \union deferred
      OBVIOUS
    <3>2. OffsOf(p, o, r)
      BY <2>3, <3>1 DEF Planned
    <3>3. CASE p.deferOff = 0 /\ p.off = Slots(o, r)
      BY <3>3
    <3>4. CASE /\ p.deferOff \in (o + 1)..r /\ p.deferRng = r
               /\ p.off = Slots(o, r) \union IF p.deferOff = r THEN {} ELSE Slots(p.deferOff, r)
      <4>1. p.deferOff \in 1..(p.deferRng - 1) <=> p.deferOff # r
        BY <2>3, <3>1, <3>4
      <4>2. QED
        BY <3>4, <4>1
    <3>5. QED
      BY <3>2, <3>3, <3>4 DEF OffsOf
  <2>5. p.on = (IF o = 0 THEN {} ELSE OnCycles(i)) /\ (o \in {0, r} => p.off \subseteq deferred)
    BY <2>3 DEF Planned
  <2>6. QED
    BY <2>1, <2>4, <2>5 DEF p
<1>4. HardwarePWMPlays /\ WaveIsPaced
  BY DEF OutputsInv, PeripheralShared, WaveIsPaced
<1>5. QED
  BY <1>2, <1>3, <1>4 DEF OutputsAgree

(***************************************************************************)
(* What the calls leave in the plan of the DMA engine and in the PWM        *)
(* peripheral is what the functions that ask answer, after any sequence of  *)
(* calls, as long as no two GPIO share a PWM channel (myGpioSetPwm,         *)
(* myGpioSetServo, switchFunctionOff, gpioHardwarePWM, gpioWaveTxSend).     *)
(***************************************************************************)
THEOREM OutputsAgreeAlways ==
  ASSUME OwnChannels
  PROVE  OutputsSpec => []OutputsAgree
<1>1. OutputsInit => OutputsInv
  BY OutputsInvInit
<1>2. OutputsInv /\ [OutputsNext]_outputsVars => OutputsInv'
  BY OutputsInvNext
<1>3. QED
  BY <1>1, <1>2, InvAgrees, PTL DEF OutputsSpec

(***************************************************************************)
(* The calls a function of the transport makes, written out.               *)
(***************************************************************************)
CallNames == {"gpioInitialise", "rst_out", "rst_in", "rst_0", "rst_1", "pwm_mode", "pwm_on",
              "stopHardwarePWM", "gpioSleep", "gpioTerminate"}
Opening == <<"gpioInitialise", "rst_out", "rst_0", "pwm_mode", "pwm_on">>
Restarting == <<"stopHardwarePWM", "pwm_mode", "pwm_on">>
Resetting == <<"rst_0", "stopHardwarePWM", "pwm_mode", "pwm_on", "rst_0", "gpioSleep", "rst_1">>
Closing == <<"stopHardwarePWM", "rst_0", "rst_in", "gpioTerminate">>

LEMMA JoinedIs ==
  ASSUME NEW s \in Seq(CallNames), NEW t \in Seq(CallNames), NEW u \in Seq(CallNames),
         Len(u) = Len(s) + Len(t),
         \A i \in 1..Len(u) : u[i] = IF i <= Len(s) THEN s[i] ELSE t[i - Len(s)]
  PROVE  s \o t = u
BY ConcatProperties, SeqEqual

LEMMA Join12 ==
  ASSUME NEW a \in CallNames, NEW b \in CallNames, NEW c \in CallNames
  PROVE  <<a>> \o <<b, c>> = <<a, b, c>>
<1> DEFINE s == <<a>>
           t == <<b, c>>
           u == <<a, b, c>>
<1>1. s \in Seq(CallNames) /\ t \in Seq(CallNames) /\ u \in Seq(CallNames)
  OBVIOUS
<1>2. Len(u) = Len(s) + Len(t)
  OBVIOUS
<1>3. \A i \in 1..Len(u) : u[i] = IF i <= Len(s) THEN s[i] ELSE t[i - Len(s)]
  OBVIOUS
<1>4. QED
  BY <1>1, <1>2, <1>3, JoinedIs, Zenon

LEMMA Join13 ==
  ASSUME NEW a \in CallNames, NEW b \in CallNames, NEW c \in CallNames, NEW d \in CallNames
  PROVE  <<a>> \o <<b, c, d>> = <<a, b, c, d>>
<1> DEFINE s == <<a>>
           t == <<b, c, d>>
           u == <<a, b, c, d>>
<1>1. s \in Seq(CallNames) /\ t \in Seq(CallNames) /\ u \in Seq(CallNames)
  OBVIOUS
<1>2. Len(u) = Len(s) + Len(t)
  OBVIOUS
<1>3. \A i \in 1..Len(u) : u[i] = IF i <= Len(s) THEN s[i] ELSE t[i - Len(s)]
  OBVIOUS
<1>4. QED
  BY <1>1, <1>2, <1>3, JoinedIs, Zenon

LEMMA Join31 ==
  ASSUME NEW a \in CallNames, NEW b \in CallNames, NEW c \in CallNames, NEW d \in CallNames
  PROVE  <<a, b, c>> \o <<d>> = <<a, b, c, d>>
<1> DEFINE s == <<a, b, c>>
           t == <<d>>
           u == <<a, b, c, d>>
<1>1. s \in Seq(CallNames) /\ t \in Seq(CallNames) /\ u \in Seq(CallNames)
  OBVIOUS
<1>2. Len(u) = Len(s) + Len(t)
  OBVIOUS
<1>3. \A i \in 1..Len(u) : u[i] = IF i <= Len(s) THEN s[i] ELSE t[i - Len(s)]
  OBVIOUS
<1>4. QED
  BY <1>1, <1>2, <1>3, JoinedIs, Zenon

LEMMA Join32 ==
  ASSUME NEW a \in CallNames, NEW b \in CallNames, NEW c \in CallNames, NEW d \in CallNames,
         NEW e \in CallNames
  PROVE  <<a, b, c>> \o <<d, e>> = <<a, b, c, d, e>>
<1> DEFINE s == <<a, b, c>>
           t == <<d, e>>
           u == <<a, b, c, d, e>>
<1>1. s \in Seq(CallNames) /\ t \in Seq(CallNames) /\ u \in Seq(CallNames)
  OBVIOUS
<1>2. Len(u) = Len(s) + Len(t)
  OBVIOUS
<1>3. \A i \in 1..Len(u) : u[i] = IF i <= Len(s) THEN s[i] ELSE t[i - Len(s)]
  OBVIOUS
<1>4. QED
  BY <1>1, <1>2, <1>3, JoinedIs, Zenon

LEMMA Join43 ==
  ASSUME NEW a \in CallNames, NEW b \in CallNames, NEW c \in CallNames, NEW d \in CallNames,
         NEW e \in CallNames, NEW f \in CallNames, NEW g \in CallNames
  PROVE  <<a, b, c, d>> \o <<e, f, g>> = <<a, b, c, d, e, f, g>>
<1> DEFINE s == <<a, b, c, d>>
           t == <<e, f, g>>
           u == <<a, b, c, d, e, f, g>>
<1>1. s \in Seq(CallNames) /\ t \in Seq(CallNames) /\ u \in Seq(CallNames)
  OBVIOUS
<1>2. Len(u) = Len(s) + Len(t)
  OBVIOUS
<1>3. \A i \in 1..Len(u) : u[i] = IF i <= Len(s) THEN s[i] ELSE t[i - Len(s)]
  OBVIOUS
<1>4. QED
  BY <1>1, <1>2, <1>3, JoinedIs, Zenon

LEMMA PlansWrittenOut ==
  /\ transport_initialize = Opening
  /\ transport_reinitialize = Restarting
  /\ do_transport_reset = Resetting
  /\ transport_deinitialize = Closing
<1> DEFINE open == "gpioInitialise"
           close == "gpioTerminate"
           sleep == "gpioSleep"
           stop == "stopHardwarePWM"
           out == "rst_out"
           in == "rst_in"
           low == "rst_0"
           high == "rst_1"
           mode == "pwm_mode"
           on == "pwm_on"
<1>1. /\ open \in CallNames /\ close \in CallNames /\ sleep \in CallNames
      /\ stop \in CallNames /\ out \in CallNames /\ in \in CallNames
      /\ low \in CallNames /\ high \in CallNames /\ mode \in CallNames /\ on \in CallNames
  BY DEF CallNames
<1> HIDE DEF open, close, sleep, stop, out, in, low, high, mode, on
<1>2. /\ <<open>> \o <<out, low>> = <<open, out, low>>
      /\ <<open, out, low>> \o <<mode, on>> = <<open, out, low, mode, on>>
  BY <1>1, Join12, Join32
<1>3. <<stop>> \o <<mode, on>> = <<stop, mode, on>>
  BY <1>1, Join12
<1>4. /\ <<low>> \o <<stop, mode, on>> = <<low, stop, mode, on>>
      /\ <<low, stop, mode, on>> \o <<low, sleep, high>> =
           <<low, stop, mode, on, low, sleep, high>>
  BY <1>1, Join13, Join43
<1>5. /\ <<stop>> \o <<low, in>> = <<stop, low, in>>
      /\ <<stop, low, in>> \o <<close>> = <<stop, low, in, close>>
  BY <1>1, Join12, Join31
<1> USE DEF open, close, sleep, stop, out, in, low, high, mode, on
<1>6. transport_initialize = Opening
  BY <1>2, Zenon
  DEF transport_initialize, hw_initialize, hw_rst_initialize, hw_start_clock, Opening
<1>7. transport_reinitialize = Restarting
  BY <1>3, Zenon DEF transport_reinitialize, hw_stop_clock, hw_start_clock, Restarting
<1>8. do_transport_reset = Resetting
  BY <1>4, <1>7, Zenon DEF do_transport_reset, Restarting, hw_rst_down_up, Resetting
<1>9. transport_deinitialize = Closing
  BY <1>5, Zenon
  DEF transport_deinitialize, hw_stop_clock, hw_rst_deinitialize, hw_deinitialize, Closing
<1>10. QED
  BY <1>6, <1>7, <1>8, <1>9

(***************************************************************************)
(* What the driver keeps to.                                               *)
(***************************************************************************)
Pwm == gpio[PIN_PWM0]
Rst == gpio[PIN_SC_RST]
Channel == PWMDef[PIN_PWM0]
Running == pwmCtl[Channel] = "ms"

(* What is left of them after one call, two, and so on.                     *)
Opening1 == <<"rst_out", "rst_0", "pwm_mode", "pwm_on">>
Opening2 == <<"rst_0", "pwm_mode", "pwm_on">>
Opening3 == <<"pwm_mode", "pwm_on">>
Opening4 == <<"pwm_on">>
Resetting1 == <<"stopHardwarePWM", "pwm_mode", "pwm_on", "rst_0", "gpioSleep", "rst_1">>
Resetting2 == <<"pwm_mode", "pwm_on", "rst_0", "gpioSleep", "rst_1">>
Resetting3 == <<"pwm_on", "rst_0", "gpioSleep", "rst_1">>
Resetting4 == <<"rst_0", "gpioSleep", "rst_1">>
Resetting5 == <<"gpioSleep", "rst_1">>
Resetting6 == <<"rst_1">>
Closing1 == <<"rst_0", "rst_in", "gpioTerminate">>
Closing2 == <<"rst_in", "gpioTerminate">>
Closing3 == <<"gpioTerminate">>

Plans == {Opening, Opening1, Opening2, Opening3, Opening4, Restarting, Resetting, Resetting1,
          Resetting2, Resetting3, Resetting4, Resetting5, Resetting6, Closing, Closing1,
          Closing2, Closing3}

DriverTypes == gpio \in [Gpios -> Pin] /\ pwmCtl \in [Channels -> {"off", "plain", "ms", "fifo"}]

(* Of all GPIO only the one of the clock plays hardware PWM, exactly while *)
(* its channel runs; and the reset line is written and nothing else.       *)
PinsOwned ==
  /\ \A g \in Gpios \ {PIN_PWM0} : gpio[g].is # "hw_pwm"
  /\ Pwm.is \in {"undefined", "hw_pwm"} /\ (Pwm.is = "hw_pwm" <=> Running)
  /\ Running => pwmClk = "plld" /\ Pwm.mode = Alt[PIN_PWM0]
  /\ PWMClockInited => pwmClk = "plld"
  /\ Rst.is \in {"undefined", "write"} /\ Rst.mode \in {"in", "out"}

(* How far a function of the transport has come, and the pins by then.     *)
Untaken == Rst.mode = "in" /\ Rst.latch = 0 /\ ~Running
Taken == libInitialised /\ Rst.mode = "out"
PinsInStep ==
  \/ calls \in {<<>>, Opening} /\ ~libInitialised /\ Untaken
  \/ calls = Opening1 /\ libInitialised /\ Rst.latch = 0
  \/ /\ calls \in {<<>>, Opening2, Opening3, Opening4, Restarting, Resetting, Resetting1,
                   Resetting2, Resetting3, Closing}
     /\ Taken
  \/ calls = Resetting4 /\ Taken /\ Running
  \/ calls \in {Resetting5, Resetting6} /\ Taken /\ Running /\ Rst.latch = 0
  \/ calls = Closing1 /\ Taken /\ ~Running
  \/ calls = Closing2 /\ Taken /\ ~Running /\ Rst.latch = 0
  \/ calls = Closing3 /\ libInitialised /\ Untaken

DriverInv == DriverTypes /\ PinsOwned /\ PinsInStep

(***************************************************************************)
(* What each call does to the two pins.                                    *)
(***************************************************************************)
LEMMA PinsDiffer ==
  /\ PIN_PWM0 \in Gpios /\ PIN_SC_RST \in Gpios /\ PIN_PWM0 # PIN_SC_RST
  /\ Channel \in Channels /\ Alt[PIN_PWM0] \in Modes /\ Alt[PIN_PWM0] \notin {"in", "out"}
  /\ "in" \in Modes /\ "out" \in Modes
BY HardwareAssumption, OutputsAssumption DEF Modes, Channel

LEMMA QuietOff ==
  ASSUME NEW p \in Pin, p.is \in {"undefined", "write", "hw_pwm"}
  PROVE  /\ switchFunctionOff(p) \in Pin /\ switchFunctionOff(p).is = p.is
         /\ switchFunctionOff(p).latch = p.latch /\ switchFunctionOff(p).mode = p.mode
BY DEF switchFunctionOff, Pin

LEMMA ModeSet ==
  ASSUME DriverTypes, NEW g \in Gpios, gpio[g].is \in {"undefined", "write", "hw_pwm"},
         NEW m \in Modes, gpioSetMode(g, m)
  PROVE  /\ gpio' \in [Gpios -> Pin]
         /\ \A h \in Gpios \ {g} : gpio'[h] = gpio[h]
         /\ gpio'[g].mode = m /\ gpio'[g].latch = gpio[g].latch
         /\ gpio'[g].is = IF m = gpio[g].mode THEN gpio[g].is ELSE "undefined"
         /\ UNCHANGED peripherals /\ UNCHANGED libInitialised
<1> DEFINE off == switchFunctionOff(gpio[g])
           q == IF m # gpio[g].mode THEN [off EXCEPT !.is = "undefined"] ELSE gpio[g]
           r == myGpioSetMode(q, m)
<1>1. gpio[g] \in Pin
  BY DEF DriverTypes
<1>2. off \in Pin /\ off.latch = gpio[g].latch
  BY <1>1, QuietOff
<1> HIDE DEF off
<1>3. q \in Pin /\ q.latch = gpio[g].latch
      /\ q.is = IF m = gpio[g].mode THEN gpio[g].is ELSE "undefined"
  BY <1>1, <1>2 DEF Functions, Pin
<1>4. gpio' = [gpio EXCEPT ![g] = r] /\ UNCHANGED peripherals /\ UNCHANGED libInitialised
  BY DEF gpioSetMode, Touch, off
<1> HIDE DEF q
<1>5. r \in Pin /\ r.mode = m /\ r.latch = q.latch /\ r.is = q.is
  BY <1>3 DEF myGpioSetMode, Pin
<1> HIDE DEF r
<1>6. QED
  BY <1>3, <1>4, <1>5 DEF DriverTypes

LEMMA LineWritten ==
  ASSUME DriverTypes, PinsOwned, NEW level \in {0, 1}, gpioWrite(PIN_SC_RST, level)
  PROVE  /\ gpio' \in [Gpios -> Pin]
         /\ \A h \in Gpios \ {PIN_SC_RST} : gpio'[h] = gpio[h]
         /\ Rst'.is = "write" /\ Rst'.mode = "out" /\ Rst'.latch = level
         /\ UNCHANGED peripherals /\ UNCHANGED libInitialised
<1> DEFINE off == switchFunctionOff(Rst)
           q == Become(Rst, "write")
           r == [myGpioSetMode(q, "out") EXCEPT !.latch = level]
<1>1. Rst \in Pin /\ Rst.is \in {"undefined", "write"}
  BY PinsDiffer DEF DriverTypes, PinsOwned, Rst
<1>2. off \in Pin
  BY <1>1, QuietOff
<1> HIDE DEF off
<1>3. q \in Pin /\ q.is = "write"
  BY <1>1, <1>2 DEF Functions, Pin, Become, off
<1>4. gpio' = [gpio EXCEPT ![PIN_SC_RST] = r] /\ UNCHANGED peripherals /\ UNCHANGED libInitialised
  BY DEF gpioWrite, Touch, Rst
<1> HIDE DEF q
<1>5. r \in Pin /\ r.mode = "out" /\ r.latch = level /\ r.is = "write"
  BY <1>3, PinsDiffer DEF myGpioSetMode, Pin
<1> HIDE DEF r
<1>6. QED
  BY <1>4, <1>5, PinsDiffer DEF DriverTypes, Rst

LEMMA ClockStarted ==
  ASSUME DriverTypes, PinsOwned, HardwarePWMOn(PIN_PWM0, DUTY_CYCLE_50_PERCENT)
  PROVE  /\ gpio' \in [Gpios -> Pin] /\ pwmCtl' \in [Channels -> {"off", "plain", "ms", "fifo"}]
         /\ \A h \in Gpios \ {PIN_PWM0} : gpio'[h] = gpio[h]
         /\ Running' /\ Pwm'.is = "hw_pwm" /\ Pwm'.mode = Alt[PIN_PWM0]
         /\ pwmClk' = "plld" /\ UNCHANGED libInitialised
<1> DEFINE off == switchFunctionOff(Pwm)
           r == IF Pwm.is = "hw_pwm" THEN Pwm
                ELSE [myGpioSetMode(off, Alt[PIN_PWM0]) EXCEPT !.is = "hw_pwm"]
<1>1. Pwm \in Pin /\ Pwm.is \in {"undefined", "hw_pwm"}
  BY PinsDiffer DEF DriverTypes, PinsOwned, Pwm
<1>2. off \in Pin
  BY <1>1, QuietOff
<1> HIDE DEF off
<1>3. r \in Pin /\ r.is = "hw_pwm" /\ r.mode = Alt[PIN_PWM0]
  BY <1>1, <1>2, PinsDiffer DEF Functions, Pin, myGpioSetMode, PinsOwned
<1>4. gpio' = [gpio EXCEPT ![PIN_PWM0] = r]
  BY DEF HardwarePWMOn, Pwm, off
<1> HIDE DEF r
<1>5. pwmClk' = "plld" /\ UNCHANGED libInitialised
  BY DEF HardwarePWMOn, PinsOwned
<1> DEFINE kept == [d \in Channels |-> IF pwmCtl[d] = "fifo" THEN "plain" ELSE pwmCtl[d]]
<1>6. kept \in [Channels -> {"off", "plain", "ms", "fifo"}] /\ pwmCtl' = [kept EXCEPT ![Channel] = "ms"]
  BY DEF HardwarePWMOn, DriverTypes, Channel
<1> HIDE DEF kept
<1>8. pwmCtl' \in [Channels -> {"off", "plain", "ms", "fifo"}] /\ pwmCtl'[Channel] = "ms"
  BY <1>6, PinsDiffer
<1>7. QED
  BY <1>3, <1>4, <1>5, <1>8, PinsDiffer DEF DriverTypes, Pwm, Running, Channel

LEMMA ClockStopped ==
  ASSUME DriverTypes, PinsOwned, stopHardwarePWM
  PROVE  /\ gpio' \in [Gpios -> Pin] /\ pwmCtl' \in [Channels -> {"off", "plain", "ms", "fifo"}]
         /\ \A h \in Gpios \ {PIN_PWM0} : gpio'[h] = gpio[h]
         /\ ~Running' /\ Pwm'.is = "undefined" /\ Pwm'.mode = Pwm.mode
         /\ UNCHANGED <<pwmClk, PWMClockInited, libInitialised>>
<1>1. gpio \in [Gpios -> Pin] /\ \A g \in Gpios : g \in HwPwmGpios <=> g = PIN_PWM0 /\ Running
  BY PinsDiffer DEF DriverTypes, PinsOwned, Pwm, HwPwmGpios
<1>2. gpio' = [g \in Gpios |-> IF g \in HwPwmGpios
                               THEN [gpio[g] EXCEPT !.width = 0, !.is = "undefined"] ELSE gpio[g]]
  BY DEF stopHardwarePWM, WithoutHwPwm
<1>3. gpio' \in [Gpios -> Pin]
  <2>1. \A p \in Pin : [p EXCEPT !.width = 0, !.is = "undefined"] \in Pin
    BY DEF Functions, Pin
  <2>2. QED
    BY <1>1, <1>2, <2>1
<1>4. \A h \in Gpios \ {PIN_PWM0} : gpio'[h] = gpio[h]
  BY <1>1, <1>2
<1>5. Pwm'.is = "undefined" /\ Pwm'.mode = Pwm.mode
  BY <1>1, <1>2, PinsDiffer DEF Pwm, Pin, PinsOwned
<1>6. pwmCtl' \in [Channels -> {"off", "plain", "ms", "fifo"}] /\ ~Running'
  <2>1. pwmCtl' = [c \in Channels |-> IF \E g \in HwPwmGpios : PWMDef[g] = c THEN "off"
                                      ELSE pwmCtl[c]]
    BY DEF stopHardwarePWM
  <2>2. pwmCtl' \in [Channels -> {"off", "plain", "ms", "fifo"}]
    BY <2>1 DEF DriverTypes
  <2>3. Running => PIN_PWM0 \in HwPwmGpios
    BY <1>1, PinsDiffer
  <2>4. pwmCtl'[Channel] # "ms"
    BY <2>1, <2>3, PinsDiffer DEF Running, Channel
  <2>5. QED
    BY <2>2, <2>4 DEF Running, Channel
<1>7. QED
  BY <1>3, <1>4, <1>5, <1>6 DEF stopHardwarePWM

(***************************************************************************)
(* Telling the plans apart, and what is left after a call.                 *)
(***************************************************************************)
LEMMA Lengths ==
  /\ Len(Opening) = 5 /\ Len(Opening1) = 4 /\ Len(Opening2) = 3 /\ Len(Opening3) = 2
  /\ Len(Opening4) = 1 /\ Len(Resetting) = 7 /\ Len(Resetting1) = 6 /\ Len(Resetting2) = 5
  /\ Len(Resetting3) = 4 /\ Len(Resetting4) = 3 /\ Len(Resetting5) = 2 /\ Len(Resetting6) = 1
  /\ Len(Closing) = 4 /\ Len(Closing1) = 3 /\ Len(Closing2) = 2 /\ Len(Closing3) = 1
  /\ Len(Restarting) = 3
BY DEF Opening, Opening1, Opening2, Opening3, Opening4, Resetting, Resetting1, Resetting2,
       Resetting3, Resetting4, Resetting5, Resetting6, Closing, Closing1, Closing2, Closing3,
       Restarting

LEMMA Heads ==
  /\ Opening[1] = "gpioInitialise" /\ Opening1[1] = "rst_out"
  /\ Opening2[1] = "rst_0" /\ Opening3[1] = "pwm_mode"
  /\ Opening4[1] = "pwm_on" /\ Resetting[1] = "rst_0"
  /\ Resetting1[1] = "stopHardwarePWM" /\ Resetting2[1] = "pwm_mode"
  /\ Resetting3[1] = "pwm_on" /\ Resetting4[1] = "rst_0"
  /\ Resetting5[1] = "gpioSleep" /\ Resetting6[1] = "rst_1"
  /\ Closing[1] = "stopHardwarePWM" /\ Closing1[1] = "rst_0"
  /\ Closing2[1] = "rst_in" /\ Closing3[1] = "gpioTerminate"
  /\ Restarting[1] = "stopHardwarePWM"
BY DEF Opening, Opening1, Opening2, Opening3, Opening4, Resetting, Resetting1, Resetting2,
       Resetting3, Resetting4, Resetting5, Resetting6, Closing, Closing1, Closing2, Closing3,
       Restarting

LEMMA Seconds ==
  /\ Opening2[2] = "pwm_mode" /\ Resetting4[2] = "gpioSleep" /\ Closing1[2] = "rst_in"
  /\ Closing[2] = "rst_0" /\ Restarting[2] = "pwm_mode"
BY DEF Opening2, Resetting4, Closing1, Closing, Restarting

LEMMA Tails ==
  /\ Tail(Opening) = Opening1 /\ Tail(Opening1) = Opening2
  /\ Tail(Opening2) = Opening3 /\ Tail(Opening3) = Opening4
  /\ Tail(Opening4) = <<>> /\ Tail(Resetting) = Resetting1
  /\ Tail(Resetting1) = Resetting2 /\ Tail(Resetting2) = Resetting3
  /\ Tail(Resetting3) = Resetting4 /\ Tail(Resetting4) = Resetting5
  /\ Tail(Resetting5) = Resetting6 /\ Tail(Resetting6) = <<>>
  /\ Tail(Closing) = Closing1 /\ Tail(Closing1) = Closing2
  /\ Tail(Closing2) = Closing3 /\ Tail(Closing3) = <<>>
  /\ Tail(Restarting) = Opening3
BY DEF Opening, Opening1, Opening2, Opening3, Opening4, Resetting, Resetting1, Resetting2,
       Resetting3, Resetting4, Resetting5, Resetting6, Closing, Closing1, Closing2, Closing3,
       Restarting

LEMMA NothingLeft == <<>> \notin Plans
BY DEF Opening, Opening1, Opening2, Opening3, Opening4, Resetting, Resetting1, Resetting2,
       Resetting3, Resetting4, Resetting5, Resetting6, Closing, Closing1, Closing2, Closing3,
       Restarting, Plans

(***************************************************************************)
(* Every step keeps the invariant and is one that CardPins allows.         *)
(***************************************************************************)
LEMMA DriverInvInit == HardwareInit => DriverInv
<1> SUFFICES ASSUME HardwareInit PROVE DriverInv
  OBVIOUS
<1> USE DEF HardwareInit, OutputsInit
<1>1. (CHOOSE r \in DutyRanges : TRUE) \in DutyRanges /\ (CHOOSE i \in FreqIdx : TRUE) \in FreqIdx
  BY OutputsAssumption
<1>2. 0 \in 0..SUPERLEVEL /\ 1 \in 1..SUPERLEVEL
  BY OutputsAssumption DEF SUPERLEVEL
<1>3. DriverTypes
  BY <1>1, <1>2 DEF DriverTypes, Pin, Modes, Functions, Ranges
<1>4. PinsOwned
  BY PinsDiffer DEF PinsOwned, Pwm, Rst, Running
<1>5. PinsInStep
  BY PinsDiffer DEF PinsInStep, Untaken, Running, Rst
<1>6. QED
  BY <1>3, <1>4, <1>5 DEF DriverInv

PinsStep == [Pins!CardPinsNext]_Pins!cardPinsVars

LEMMA FunctionBegins == DriverInv /\ TransportCalls => DriverInv' /\ PinsStep
<1> SUFFICES ASSUME DriverInv, TransportCalls PROVE DriverInv' /\ PinsStep
  OBVIOUS
<1>1. DriverTypes' /\ PinsOwned'
  BY DEF DriverInv, TransportCalls, outputsVars, DriverTypes, PinsOwned, Pwm, Rst, Running
<1>2. UNCHANGED <<libInitialised, Running, Rst, Taken, Untaken>>
  BY DEF TransportCalls, outputsVars, Running, Rst, Taken, Untaken
<1>3. calls' \in IF libInitialised THEN {Restarting, Resetting, Closing} ELSE {Opening}
  BY PlansWrittenOut DEF TransportCalls
<1>4. IF libInitialised THEN Taken ELSE Untaken
  BY NothingLeft DEF TransportCalls, DriverInv, PinsInStep, Plans, Taken
<1>5. PinsInStep'
  BY <1>2, <1>3, <1>4 DEF PinsInStep
<1>6. UNCHANGED Pins!cardPinsVars
  BY DEF TransportCalls, outputsVars, Pins!cardPinsVars
<1>7. QED
  BY <1>1, <1>5, <1>6 DEF DriverInv, PinsStep

LEMMA FunctionGivesUp == DriverInv /\ (InitialiseFails \/ SerialFails) => DriverInv' /\ PinsStep
<1> SUFFICES ASSUME DriverInv, InitialiseFails \/ SerialFails PROVE DriverInv' /\ PinsStep
  OBVIOUS
<1>1. UNCHANGED outputsVars /\ calls' = <<>>
  BY DEF InitialiseFails, SerialFails
<1>2. DriverTypes' /\ PinsOwned'
  BY <1>1 DEF DriverInv, outputsVars, DriverTypes, PinsOwned, Pwm, Rst, Running
<1>3. UNCHANGED <<libInitialised, Taken, Untaken>>
  BY <1>1 DEF outputsVars, Running, Rst, Taken, Untaken
<1>4. calls # Opening1 /\ calls # Closing3
  BY DEF SerialFails, InitialiseFails, Opening1, Closing3
<1>5. IF libInitialised THEN Taken ELSE Untaken
  BY <1>4 DEF DriverInv, PinsInStep, Taken
<1>6. PinsInStep'
  BY <1>1, <1>3, <1>5 DEF PinsInStep
<1>7. UNCHANGED Pins!cardPinsVars
  BY <1>1 DEF outputsVars, Pins!cardPinsVars
<1>8. QED
  BY <1>2, <1>6, <1>7 DEF DriverInv, PinsStep

LEMMA WhileCalling ==
  ASSUME DriverInv, Call
  PROVE  /\ calls \in Plans /\ Head(calls) = calls[1] /\ calls' = Tail(calls)
         /\ Carry(Head(calls))
<1>1. calls \in Plans /\ calls' = Tail(calls) /\ Carry(Head(calls))
  BY DEF DriverInv, PinsInStep, Call, Plans
<1>2. \A p \in Plans : Head(p) = p[1]
  BY DEF Opening, Opening1, Opening2, Opening3, Opening4, Resetting, Resetting1, Resetting2,
         Resetting3, Resetting4, Resetting5, Resetting6, Closing, Closing1, Closing2, Closing3,
         Restarting, Plans
<1>3. QED
  BY <1>1, <1>2

(* hw_rst_down, and the first or second half of the others                 *)
LEMMA StepRst0 ==
  ASSUME DriverInv, Call, Head(calls) = "rst_0"
  PROVE  DriverInv' /\ PinsStep
<1>1. calls \in {Opening2, Resetting, Resetting4, Closing1}
  BY WhileCalling, Heads DEF Plans
<1>2. /\ calls = Opening2 => calls' = Opening3
      /\ calls = Resetting => calls' = Resetting1
      /\ calls = Resetting4 => calls' = Resetting5
      /\ calls = Closing1 => calls' = Closing2
  BY WhileCalling, Tails
<1>3. /\ Taken
      /\ calls = Resetting4 => Running
      /\ calls = Closing1 => ~Running
  <2>1. calls[1] = "rst_0" /\ calls # <<>>
    BY WhileCalling, NothingLeft
  <2>2. \/ calls \in {Opening2, Resetting} /\ Taken
        \/ calls = Resetting4 /\ Taken /\ Running
        \/ calls = Closing1 /\ Taken /\ ~Running
    BY <2>1, Heads DEF DriverInv, PinsInStep
  <2>3. QED
    BY <2>2, Lengths, Seconds
<1>4. DriverTypes /\ PinsOwned /\ gpioWrite(PIN_SC_RST, 0)
  BY WhileCalling DEF DriverInv, Carry
<1>5. /\ gpio' \in [Gpios -> Pin]
      /\ \A h \in Gpios \ {PIN_SC_RST} : gpio'[h] = gpio[h]
      /\ Rst'.is = "write" /\ Rst'.mode = "out" /\ Rst'.latch = 0
      /\ UNCHANGED <<pwmCtl, pwmClk, PWMClockInited, libInitialised>>
  BY <1>4, LineWritten DEF peripherals
<1>6. Pwm' = Pwm /\ Running' = Running
  BY <1>5, PinsDiffer DEF Pwm, Running
<1>7. DriverTypes' /\ PinsOwned'
  BY <1>4, <1>5, <1>6, PinsDiffer DEF DriverTypes, PinsOwned, Rst
<1>8. Taken' /\ Rst.latch' = 0
  BY <1>3, <1>5 DEF Taken
<1>9. PinsInStep'
  BY <1>1, <1>2, <1>3, <1>6, <1>8 DEF PinsInStep
<1>10. Pins!RstDown
  BY <1>3, <1>5, <1>6 DEF Pins!RstDown, Rst, Pwm, Running, Channel, Taken
<1>11. QED
  BY <1>7, <1>9, <1>10 DEF DriverInv, PinsStep, Pins!CardPinsNext

LEMMA StepRst1 ==
  ASSUME DriverInv, Call, Head(calls) = "rst_1"
  PROVE  DriverInv' /\ PinsStep
<1>1. calls = Resetting6 /\ calls' = <<>>
  <2>1. calls = Resetting6
    BY WhileCalling, Heads DEF Plans
  <2>2. QED
    BY <2>1, WhileCalling, Tails
<1>2. Taken /\ Running /\ Rst.latch = 0
  BY <1>1, Heads, NothingLeft, Lengths DEF DriverInv, PinsInStep, Plans
<1>3. DriverTypes /\ PinsOwned /\ gpioWrite(PIN_SC_RST, 1)
  BY WhileCalling DEF DriverInv, Carry
<1>4. /\ gpio' \in [Gpios -> Pin]
      /\ \A h \in Gpios \ {PIN_SC_RST} : gpio'[h] = gpio[h]
      /\ Rst'.is = "write" /\ Rst'.mode = "out" /\ Rst'.latch = 1
      /\ UNCHANGED <<pwmCtl, pwmClk, PWMClockInited, libInitialised>>
  BY <1>3, LineWritten DEF peripherals
<1>5. Pwm' = Pwm /\ Running' = Running
  BY <1>4, PinsDiffer DEF Pwm, Running
<1>6. DriverTypes' /\ PinsOwned'
  BY <1>3, <1>4, <1>5, PinsDiffer DEF DriverTypes, PinsOwned, Rst
<1>7. PinsInStep'
  BY <1>1, <1>2, <1>4 DEF PinsInStep, Taken
<1>8. Pins!RstUp
  BY <1>2, <1>3, <1>4, <1>5 DEF Pins!RstUp, Rst, Pwm, Running, Channel, Taken, PinsOwned
<1>9. QED
  BY <1>6, <1>7, <1>8 DEF DriverInv, PinsStep, Pins!CardPinsNext

LEMMA StepRstOut ==
  ASSUME DriverInv, Call, Head(calls) = "rst_out"
  PROVE  DriverInv' /\ PinsStep
<1>1. calls = Opening1 /\ calls' = Opening2
  <2>1. calls = Opening1
    BY WhileCalling, Heads DEF Plans
  <2>2. QED
    BY <2>1, WhileCalling, Tails
<1>2. libInitialised /\ Rst.latch = 0
  BY <1>1, Heads, NothingLeft, Lengths DEF DriverInv, PinsInStep, Plans, Taken
<1>3. DriverTypes /\ PinsOwned /\ gpioSetMode(PIN_SC_RST, "out")
  BY WhileCalling DEF DriverInv, Carry
<1>4. /\ gpio' \in [Gpios -> Pin]
      /\ \A h \in Gpios \ {PIN_SC_RST} : gpio'[h] = gpio[h]
      /\ Rst'.is \in {"write", "undefined"} /\ Rst'.mode = "out" /\ Rst'.latch = 0
      /\ UNCHANGED <<pwmCtl, pwmClk, PWMClockInited, libInitialised>>
  BY <1>2, <1>3, ModeSet, PinsDiffer DEF peripherals, PinsOwned, Rst
<1>5. Pwm' = Pwm /\ Running' = Running
  BY <1>4, PinsDiffer DEF Pwm, Running
<1>6. DriverTypes' /\ PinsOwned'
  BY <1>3, <1>4, <1>5, PinsDiffer DEF DriverTypes, PinsOwned, Rst
<1>7. PinsInStep'
  BY <1>1, <1>2, <1>4 DEF PinsInStep, Taken
<1>8. Pins!RstDown
  BY <1>2, <1>4, <1>5 DEF Pins!RstDown, Rst, Pwm, Running, Channel
<1>9. QED
  BY <1>6, <1>7, <1>8 DEF DriverInv, PinsStep, Pins!CardPinsNext

LEMMA StepRstIn ==
  ASSUME DriverInv, Call, Head(calls) = "rst_in"
  PROVE  DriverInv' /\ PinsStep
<1>1. calls = Closing2 /\ calls' = Closing3
  <2>1. calls = Closing2
    BY WhileCalling, Heads DEF Plans
  <2>2. QED
    BY <2>1, WhileCalling, Tails
<1>2. Taken /\ ~Running /\ Rst.latch = 0
  BY <1>1, Heads, NothingLeft, Lengths DEF DriverInv, PinsInStep, Plans
<1>3. DriverTypes /\ PinsOwned /\ gpioSetMode(PIN_SC_RST, "in")
  BY WhileCalling DEF DriverInv, Carry
<1>4. /\ gpio' \in [Gpios -> Pin]
      /\ \A h \in Gpios \ {PIN_SC_RST} : gpio'[h] = gpio[h]
      /\ Rst'.is \in {"write", "undefined"} /\ Rst'.mode = "in" /\ Rst'.latch = 0
      /\ UNCHANGED <<pwmCtl, pwmClk, PWMClockInited, libInitialised>>
  BY <1>2, <1>3, ModeSet, PinsDiffer DEF peripherals, PinsOwned, Rst
<1>5. Pwm' = Pwm /\ Running' = Running
  BY <1>4, PinsDiffer DEF Pwm, Running
<1>6. DriverTypes' /\ PinsOwned'
  BY <1>3, <1>4, <1>5, PinsDiffer DEF DriverTypes, PinsOwned, Rst
<1>7. PinsInStep'
  BY <1>1, <1>2, <1>4, <1>5 DEF PinsInStep, Taken, Untaken
<1>8. Pins!Release
  BY <1>2, <1>4, <1>5 DEF Pins!Release, Rst, Pwm, Running, Channel, Taken
<1>9. QED
  BY <1>6, <1>7, <1>8 DEF DriverInv, PinsStep, Pins!CardPinsNext

LEMMA StepSleep ==
  ASSUME DriverInv, Call, Head(calls) = "gpioSleep"
  PROVE  DriverInv' /\ PinsStep
<1>1. calls = Resetting5 /\ calls' = Resetting6
  <2>1. calls = Resetting5
    BY WhileCalling, Heads DEF Plans
  <2>2. QED
    BY <2>1, WhileCalling, Tails
<1>2. Taken /\ Running /\ Rst.latch = 0
  BY <1>1, Heads, NothingLeft, Lengths DEF DriverInv, PinsInStep, Plans
<1>3. UNCHANGED outputsVars
  BY WhileCalling DEF Carry
<1>4. DriverTypes' /\ PinsOwned'
  BY <1>3 DEF DriverInv, outputsVars, DriverTypes, PinsOwned, Pwm, Rst, Running
<1>5. PinsInStep'
  BY <1>1, <1>2, <1>3 DEF PinsInStep, Taken, Running, Rst, outputsVars
<1>6. UNCHANGED Pins!cardPinsVars
  BY <1>3 DEF outputsVars, Pins!cardPinsVars
<1>7. QED
  BY <1>4, <1>5, <1>6 DEF DriverInv, PinsStep

LEMMA StepPwmMode ==
  ASSUME DriverInv, Call, Head(calls) = "pwm_mode"
  PROVE  DriverInv' /\ PinsStep
<1>1. calls \in {Opening3, Resetting2}
      /\ (calls = Opening3 => calls' = Opening4) /\ (calls = Resetting2 => calls' = Resetting3)
  <2>1. calls \in {Opening3, Resetting2}
    BY WhileCalling, Heads DEF Plans
  <2>2. QED
    BY <2>1, WhileCalling, Tails
<1>2. Taken
  BY <1>1, Heads, NothingLeft, Lengths DEF DriverInv, PinsInStep, Plans
<1>3. DriverTypes /\ PinsOwned /\ gpioSetMode(PIN_PWM0, Alt[PIN_PWM0])
  BY WhileCalling DEF DriverInv, Carry
<1>4. /\ gpio' \in [Gpios -> Pin]
      /\ \A h \in Gpios \ {PIN_PWM0} : gpio'[h] = gpio[h]
      /\ Pwm'.mode = Alt[PIN_PWM0]
      /\ Pwm'.is = IF Pwm.mode = Alt[PIN_PWM0] THEN Pwm.is ELSE "undefined"
      /\ UNCHANGED <<pwmCtl, pwmClk, PWMClockInited, libInitialised>>
  BY <1>3, ModeSet, PinsDiffer DEF peripherals, PinsOwned, Pwm
<1>5. Rst' = Rst /\ Running' = Running
  BY <1>4, PinsDiffer DEF Rst, Running
<1>6. DriverTypes' /\ PinsOwned'
  BY <1>3, <1>4, <1>5, PinsDiffer DEF DriverTypes, PinsOwned
<1>7. PinsInStep'
  BY <1>1, <1>2, <1>4, <1>5 DEF PinsInStep, Taken
<1>8. Pins!ClockStart \/ UNCHANGED Pins!cardPinsVars
  BY <1>2, <1>3, <1>4, <1>5
  DEF Pins!ClockStart, Pins!cardPinsVars, Rst, Pwm, Running, Channel, Taken, PinsOwned
<1>9. QED
  BY <1>6, <1>7, <1>8 DEF DriverInv, PinsStep, Pins!CardPinsNext

LEMMA StepPwmOn ==
  ASSUME DriverInv, Call, Head(calls) = "pwm_on"
  PROVE  DriverInv' /\ PinsStep
<1>1. calls \in {Opening4, Resetting3}
      /\ (calls = Opening4 => calls' = <<>>) /\ (calls = Resetting3 => calls' = Resetting4)
  <2>1. calls \in {Opening4, Resetting3}
    BY WhileCalling, Heads DEF Plans
  <2>2. QED
    BY <2>1, WhileCalling, Tails
<1>2. Taken
  BY <1>1, Heads, NothingLeft, Lengths DEF DriverInv, PinsInStep, Plans
<1>3. DriverTypes /\ PinsOwned /\ HardwarePWMOn(PIN_PWM0, DUTY_CYCLE_50_PERCENT)
  BY WhileCalling DEF DriverInv, Carry
<1>4. /\ gpio' \in [Gpios -> Pin] /\ pwmCtl' \in [Channels -> {"off", "plain", "ms", "fifo"}]
      /\ \A h \in Gpios \ {PIN_PWM0} : gpio'[h] = gpio[h]
      /\ Running' /\ Pwm'.is = "hw_pwm" /\ Pwm'.mode = Alt[PIN_PWM0]
      /\ pwmClk' = "plld" /\ UNCHANGED libInitialised
  BY <1>3, ClockStarted
<1>5. Rst' = Rst
  BY <1>4, PinsDiffer DEF Rst
<1>6. DriverTypes' /\ PinsOwned'
  BY <1>3, <1>4, <1>5, PinsDiffer DEF DriverTypes, PinsOwned
<1>7. PinsInStep'
  BY <1>1, <1>2, <1>4, <1>5 DEF PinsInStep, Taken
<1>8. Pins!ClockStart
  <2>1. /\ pwmCtl'[PWMDef[PIN_PWM0]] = "ms" /\ pwmClk' = "plld"
        /\ gpio'[PIN_PWM0].mode = Alt[PIN_PWM0]
    BY <1>4 DEF Pwm, Running, Channel
  <2>2. /\ libInitialised /\ gpio[PIN_SC_RST].mode = "out" /\ libInitialised' = libInitialised
        /\ gpio'[PIN_SC_RST] = gpio[PIN_SC_RST]
        /\ gpio[PIN_SC_RST].latch = 0 \/ gpio[PIN_SC_RST].latch = 1
    BY <1>2, <1>3, <1>4, <1>5, PinsDiffer DEF Rst, Taken, DriverTypes, Pin
  <2>3. QED
    BY <2>1, <2>2 DEF Pins!ClockStart
<1>9. QED
  BY <1>6, <1>7, <1>8 DEF DriverInv, PinsStep, Pins!CardPinsNext

LEMMA StepStop ==
  ASSUME DriverInv, Call, Head(calls) = "stopHardwarePWM"
  PROVE  DriverInv' /\ PinsStep
<1>1. calls \in {Restarting, Resetting1, Closing}
      /\ (calls = Restarting => calls' = Opening3) /\ (calls = Resetting1 => calls' = Resetting2)
      /\ (calls = Closing => calls' = Closing1)
  <2>1. calls \in {Restarting, Resetting1, Closing}
    BY WhileCalling, Heads DEF Plans
  <2>2. QED
    BY <2>1, WhileCalling, Tails
<1>2. Taken
  BY <1>1, Heads, NothingLeft, Lengths DEF DriverInv, PinsInStep, Plans
<1>3. DriverTypes /\ PinsOwned /\ stopHardwarePWM
  BY WhileCalling DEF DriverInv, Carry
<1>4. /\ gpio' \in [Gpios -> Pin] /\ pwmCtl' \in [Channels -> {"off", "plain", "ms", "fifo"}]
      /\ \A h \in Gpios \ {PIN_PWM0} : gpio'[h] = gpio[h]
      /\ ~Running' /\ Pwm'.is = "undefined" /\ Pwm'.mode = Pwm.mode
      /\ UNCHANGED <<pwmClk, PWMClockInited, libInitialised>>
  BY <1>3, ClockStopped
<1>5. Rst' = Rst
  BY <1>4, PinsDiffer DEF Rst
<1>6. DriverTypes' /\ PinsOwned'
  BY <1>3, <1>4, <1>5, PinsDiffer DEF DriverTypes, PinsOwned
<1>7. PinsInStep'
  BY <1>1, <1>2, <1>4, <1>5 DEF PinsInStep, Taken
<1>8. Pins!ClockStop
  <2>1. pwmCtl'[PWMDef[PIN_PWM0]] # "ms"
    BY <1>4 DEF Running, Channel
  <2>2. libInitialised /\ UNCHANGED libInitialised /\ gpio'[PIN_SC_RST] = gpio[PIN_SC_RST]
    BY <1>2, <1>4, <1>5 DEF Rst, Taken
  <2>3. QED
    BY <2>1, <2>2 DEF Pins!ClockStop
<1>9. QED
  BY <1>6, <1>7, <1>8 DEF DriverInv, PinsStep, Pins!CardPinsNext

LEMMA StepOpen ==
  ASSUME DriverInv, Call, Head(calls) = "gpioInitialise"
  PROVE  DriverInv' /\ PinsStep
<1>1. calls = Opening /\ calls' = Opening1
  <2>1. calls = Opening
    BY WhileCalling, Heads DEF Plans
  <2>2. QED
    BY <2>1, WhileCalling, Tails
<1>2. ~libInitialised /\ Untaken
  BY <1>1, Heads, NothingLeft, Lengths DEF DriverInv, PinsInStep, Plans
<1>3. DriverTypes /\ PinsOwned /\ OutputsInitialise
  BY WhileCalling DEF DriverInv, Carry
<1> DEFINE new(p) == [p EXCEPT !.is = "undefined", !.width = 0,
                        !.range = CHOOSE r \in DutyRanges : TRUE,
                        !.freqIdx = CHOOSE i \in FreqIdx : TRUE]
<1>4. \A p \in Pin : /\ new(p) \in Pin /\ new(p).is = "undefined"
                      /\ new(p).mode = p.mode /\ new(p).latch = p.latch
  <2>1. (CHOOSE r \in DutyRanges : TRUE) \in DutyRanges /\ (CHOOSE i \in FreqIdx : TRUE) \in FreqIdx
    BY OutputsAssumption
  <2>2. QED
    BY <2>1 DEF Functions, Pin
<1>5. /\ gpio' = [g \in Gpios |-> new(gpio[g])]
      /\ UNCHANGED <<pwmCtl, pwmClk>> /\ libInitialised' /\ PWMClockInited' = FALSE
  BY <1>3 DEF OutputsInitialise
<1> HIDE DEF new
<1>6. /\ gpio' \in [Gpios -> Pin]
      /\ \A g \in Gpios : /\ gpio'[g].is = "undefined" /\ gpio'[g].mode = gpio[g].mode
                           /\ gpio'[g].latch = gpio[g].latch
  BY <1>3, <1>4, <1>5 DEF DriverTypes
<1>7. DriverTypes' /\ PinsOwned'
  BY <1>2, <1>3, <1>5, <1>6, PinsDiffer
  DEF DriverTypes, PinsOwned, Pwm, Rst, Running, Untaken
<1>8. PinsInStep'
  BY <1>1, <1>2, <1>5, <1>6, PinsDiffer DEF PinsInStep, Untaken, Rst
<1>9. Pins!Open
  <2>1. gpio'[PIN_SC_RST].mode = gpio[PIN_SC_RST].mode /\ gpio[PIN_SC_RST].mode = "in"
    BY <1>2, <1>6, PinsDiffer DEF Untaken, Rst
  <2>2. pwmCtl[PWMDef[PIN_PWM0]] # "ms" /\ pwmCtl' = pwmCtl
    BY <1>2, <1>5 DEF Untaken, Running, Channel
  <2>3. QED
    BY <2>1, <2>2, <1>2, <1>5 DEF Pins!Open
<1>10. QED
  BY <1>7, <1>8, <1>9 DEF DriverInv, PinsStep, Pins!CardPinsNext

LEMMA StepClose ==
  ASSUME DriverInv, Call, Head(calls) = "gpioTerminate"
  PROVE  DriverInv' /\ PinsStep
<1>1. calls = Closing3 /\ calls' = <<>>
  <2>1. calls = Closing3
    BY WhileCalling, Heads DEF Plans
  <2>2. QED
    BY <2>1, WhileCalling, Tails
<1>2. libInitialised /\ Untaken
  BY <1>1, Heads, NothingLeft, Lengths DEF DriverInv, PinsInStep, Plans
<1>3. DriverTypes /\ PinsOwned /\ OutputsTerminate
  BY WhileCalling DEF DriverInv, Carry
<1> DEFINE new(p) == [p EXCEPT !.on = {}, !.off = {}]
<1>4. \A p \in Pin : /\ new(p) \in Pin /\ new(p).is = p.is
                      /\ new(p).mode = p.mode /\ new(p).latch = p.latch
  BY DEF Pin
<1>5. /\ gpio' = [g \in Gpios |-> new(gpio[g])]
      /\ UNCHANGED <<pwmCtl, pwmClk, PWMClockInited>> /\ libInitialised' = FALSE
  BY <1>3 DEF OutputsTerminate
<1> HIDE DEF new
<1>6. /\ gpio' \in [Gpios -> Pin]
      /\ \A g \in Gpios : /\ gpio'[g].is = gpio[g].is /\ gpio'[g].mode = gpio[g].mode
                           /\ gpio'[g].latch = gpio[g].latch
  BY <1>3, <1>4, <1>5 DEF DriverTypes
<1>7. DriverTypes' /\ PinsOwned'
  BY <1>2, <1>3, <1>5, <1>6, PinsDiffer
  DEF DriverTypes, PinsOwned, Pwm, Rst, Running, Untaken
<1>8. PinsInStep'
  BY <1>1, <1>2, <1>5, <1>6, PinsDiffer DEF PinsInStep, Untaken, Rst, Running
<1>9. Pins!Close
  <2>1. gpio'[PIN_SC_RST].mode = gpio[PIN_SC_RST].mode /\ gpio[PIN_SC_RST].mode = "in"
    BY <1>2, <1>6, PinsDiffer DEF Untaken, Rst
  <2>2. pwmCtl[PWMDef[PIN_PWM0]] # "ms" /\ pwmCtl' = pwmCtl
    BY <1>2, <1>5 DEF Untaken, Running, Channel
  <2>3. QED
    BY <2>1, <2>2, <1>2, <1>5 DEF Pins!Close
<1>10. QED
  BY <1>7, <1>8, <1>9 DEF DriverInv, PinsStep, Pins!CardPinsNext

LEMMA DriverStep == DriverInv /\ [HardwareNext]_hardwareVars => DriverInv' /\ PinsStep
<1> SUFFICES ASSUME DriverInv, [HardwareNext]_hardwareVars PROVE DriverInv' /\ PinsStep
  OBVIOUS
<1>1. CASE Call
  <2>1. Head(calls) \in CallNames
    BY <1>1, WhileCalling, Heads DEF Plans, CallNames
  <2>2. QED
    BY <1>1, <2>1, StepRst0, StepRst1, StepRstOut, StepRstIn, StepSleep, StepPwmMode,
       StepPwmOn, StepStop, StepOpen, StepClose, Zenon DEF CallNames
<1>2. CASE UNCHANGED hardwareVars
  <2>1. UNCHANGED <<DriverTypes, PinsOwned, PinsInStep>>
    BY <1>2 DEF hardwareVars, outputsVars, DriverTypes, PinsOwned, PinsInStep, Untaken, Taken,
                Pwm, Rst, Running
  <2>2. UNCHANGED Pins!cardPinsVars
    BY <1>2 DEF hardwareVars, outputsVars, Pins!cardPinsVars
  <2>3. QED
    BY <2>1, <2>2 DEF DriverInv, PinsStep
<1>3. QED
  BY <1>1, <1>2, FunctionBegins, FunctionGivesUp DEF HardwareNext

(***************************************************************************)
(* The calls of the driver implement the contract of the two pins: the     *)
(* reset line rises only under a running clock after it was low, and a     *)
(* slot that is closed has no clock and a free line                        *)
(* (hardware.c, transport/initialize.c, transport/reset.c).                *)
(***************************************************************************)
THEOREM DriverKeepsPins == HardwareSpec => Pins!CardPinsSpec
<1>1. HardwareInit => Pins!CardPinsInit
  <2> SUFFICES ASSUME HardwareInit PROVE Pins!CardPinsInit
    OBVIOUS
  <2>1. pwmCtl[PWMDef[PIN_PWM0]] = "off" /\ gpio[PIN_SC_RST].mode = "in" /\ ~libInitialised
    BY PinsDiffer DEF HardwareInit, OutputsInit, Channel
  <2>2. QED
    BY <2>1 DEF Pins!CardPinsInit, HardwareInit, OutputsInit
<1>2. DriverInv /\ [HardwareNext]_hardwareVars => DriverInv' /\ PinsStep
  BY DriverStep
<1>3. QED
  BY <1>1, <1>2, DriverInvInit, PTL DEF HardwareSpec, PinsStep, Pins!CardPinsSpec

(***************************************************************************)
(* Whatever the driver has done by then, and wherever it has given up, the  *)
(* plan and the peripheral agree with what the calls answer; here no two    *)
(* GPIO contend for a channel, so nothing is assumed of PWMDef              *)
(* (hardware.c, transport/initialize.c, transport/reset.c).                 *)
(***************************************************************************)
THEOREM DriverKeepsOutputs == HardwareSpec => []OutputsAgree
<1>1. HardwareInit => DriverInv /\ OutputsInv
  BY DriverInvInit, OutputsInvInit DEF HardwareInit
<1>2. DriverInv /\ OutputsInv /\ [HardwareNext]_hardwareVars => DriverInv' /\ OutputsInv'
  <2> SUFFICES ASSUME DriverInv, OutputsInv, [HardwareNext]_hardwareVars
               PROVE  DriverInv' /\ OutputsInv'
    OBVIOUS
  <2>1. DriverInv'
    BY DriverStep
  <2>2. CASE UNCHANGED outputsVars
    <3>1. UNCHANGED <<OutputsTypes, PulsesKept, PeripheralShared>>
      BY <2>2 DEF outputsVars, OutputsTypes, PulsesKept, PeripheralShared, HardwarePWMPlays,
                  HwPwmGpios, Kept, Planned, IdxOf, OffOf, PwmOff, OffsOf, Unplanned
    <3>2. QED
      BY <2>1, <3>1 DEF OutputsInv
  <2>3. CASE Call
    <3>1. calls \in Plans /\ Carry(Head(calls)) /\ Head(calls) = calls[1]
      BY <2>3, WhileCalling
    <3>2. libInitialised \/ Head(calls) = "gpioInitialise"
      BY <3>1, Heads, NothingLeft DEF DriverInv, PinsInStep, Taken
    <3>3. Head(calls) \in CallNames
      BY <3>1, Heads DEF Plans, CallNames
    <3>4. \/ OutputsInitialise \/ OutputsTerminate
          \/ libInitialised /\ stopHardwarePWM
          \/ libInitialised /\ \E g \in {PIN_PWM0, PIN_SC_RST}, m \in Modes : gpioSetMode(g, m)
          \/ libInitialised /\ \E level \in {0, 1} : gpioWrite(PIN_SC_RST, level)
          \/ libInitialised /\ HardwarePWMOn(PIN_PWM0, DUTY_CYCLE_50_PERCENT)
          \/ UNCHANGED outputsVars
      <4>1. "in" \in Modes /\ "out" \in Modes /\ Alt[PIN_PWM0] \in Modes
        BY PinsDiffer
      <4>2. CASE Head(calls) \in {"gpioInitialise", "gpioTerminate", "gpioSleep"}
        BY <3>1, <4>2 DEF Carry
      <4>3. CASE Head(calls) \in {"rst_out", "rst_in", "pwm_mode"}
        BY <3>1, <3>2, <4>1, <4>3 DEF Carry
      <4>4. CASE Head(calls) \in {"rst_0", "rst_1", "stopHardwarePWM", "pwm_on"}
        BY <3>1, <3>2, <4>4 DEF Carry
      <4>5. QED
        BY <3>3, <4>2, <4>3, <4>4 DEF CallNames
    <3>5. OutputsInv'
      BY <2>2, <3>4, LifeKeeps, StopKeeps, LevelCallsKeep, HardwareOnKeeps, PinsDiffer,
         HardwareAssumption, <2>1
    <3>6. QED
      BY <2>1, <3>5
  <2>4. QED
    BY <2>1, <2>2, <2>3 DEF HardwareNext, TransportCalls, InitialiseFails, SerialFails, hardwareVars
<1>3. QED
  BY <1>1, <1>2, InvAgrees, PTL DEF HardwareSpec
=============================================================================
