------------------------------- MODULE Waves -------------------------------
(* The waveforms of pigpio: the blocks of control blocks (CBs) and of on-off
   levels (OOLs) that gpioWaveCreate, gpioWaveCreatePad, gpioWaveDelete and
   gpioWaveClear give out and take back, and the second DMA channel, which plays
   the linked CBs while the calls relink them.

   The pulses of a waveform have a part of their own at the end: those that are made
   of characters (gpioWaveAddSerial) and of the bits of an SPI transfer
   (rawWaveAddSPI), and rawWaveAddGeneric, which merges new pulses by time into those
   there are so far.  Times are microseconds.

   What a CB does is abstracted to the position of the step it plays in its
   waveform; the pulses that wait in wf[] to become a waveform are abstracted to
   the resources they need.                                                  *)
EXTENDS Integers, Sequences, SequencesExt, FiniteSetsExt

CONSTANTS
  NUM_WAVE_CBS, NUM_WAVE_OOL,   \* the CBs and OOLs of the instance
  MaxCount,                     \* bound of the instance on the ids given out
  Shapes,                       \* the waveforms that are added: CBs, OOLs out, OOLs in
  PadSizes                      \* the sizes gpioWaveCreatePad is asked for

Needs == [cb : Nat \ {0}, bool : Nat, tool : Nat]
ASSUME WavesAssumption ==
  /\ NUM_WAVE_CBS \in Nat /\ NUM_WAVE_OOL \in Nat
  /\ MaxCount \in Nat
  /\ Shapes \subseteq Needs /\ PadSizes \subseteq Needs
  /\ \A s \in Shapes : s.cb > 1

CBs == 0..(NUM_WAVE_CBS - 1)
Null == -1
NoShape == [cb |-> 0, bool |-> 0, tool |-> 0]

VARIABLES
  wf,              \* what the pulses added so far need; NoShape when wfc[wfcur] = 0
  waveInfo,        \* id -> the block of a waveform, for every id given out so far
  waveOutCount, waveOutBotCB, waveOutBotOOL, waveOutTopOOL,
  mem,             \* the CBs in memory: the step each plays and the CB it links to
  waveEndPtr,      \* the CB whose link a SYNC transmission patches
  txDma,           \* the CB that is being played, and the link loaded with it
  waveGone         \* a waveform on the air or last sent was deleted or cleared

wavesVars == <<wf, waveInfo, waveOutCount, waveOutBotCB, waveOutBotOOL, waveOutTopOOL, mem,
               waveEndPtr, txDma, waveGone>>
waveBlocks == <<waveInfo, waveOutCount, waveOutBotCB, waveOutBotOOL, waveOutTopOOL>>

TopCB(w) == w.botCB + w.numCB - 1
Block(w) == w.botCB..TopCB(w)
Ids == 0..(waveOutCount - 1)
Live == {i \in Ids : ~waveInfo[i].deleted}
TxIdle == [cb |-> Null, next |-> Null]
Load(m, cb) == IF cb = Null THEN TxIdle ELSE [cb |-> cb, next |-> m[cb].next]

\* The CBs the DMA engine plays or will play as they are linked now: the least
\* set that holds what it has loaded and follows every link.
Closed(S) == ({txDma.cb, txDma.next} \union {mem[c].next : c \in S}) \ {Null} \subseteq S
Ahead == {c \in CBs : \A S \in SUBSET CBs : Closed(S) => c \in S}

WavesInit ==
  /\ wf = NoShape /\ waveInfo = <<>>
  /\ waveOutCount = 0 /\ waveOutBotCB = 0 /\ waveOutBotOOL = 0
  /\ waveOutTopOOL = NUM_WAVE_OOL
  /\ mem = [c \in CBs |-> [step |-> 0, next |-> Null]]
  /\ waveEndPtr = Null /\ txDma = TxIdle /\ waveGone = FALSE

\* gpioWaveAddGeneric, gpioWaveAddSerial, rawWaveAddSPI: pulses wait in wf[].
WaveAdd == /\ wf' \in Shapes
           /\ UNCHANGED <<waveBlocks, mem, waveEndPtr, txDma, waveGone>>
gpioWaveAddNew == /\ wf' = NoShape /\ UNCHANGED <<waveBlocks, mem, waveEndPtr, txDma, waveGone>>

\* Every block is given back at once; the ids stay marked as they were and what
\* is on the air goes on.
gpioWaveClear ==
  /\ wf' = NoShape
  /\ waveOutCount' = 0 /\ waveOutBotCB' = 0 /\ waveOutBotOOL' = 0
  /\ waveOutTopOOL' = NUM_WAVE_OOL
  /\ waveEndPtr' = Null
  /\ waveGone' = (waveGone \/ txDma # TxIdle)
  /\ UNCHANGED <<waveInfo, mem, txDma>>

\* (mutant: a larger block is good enough)
FitsLoosely(n) == {i \in Ids : /\ waveInfo[i].deleted
                               /\ waveInfo[i].numCB >= n.cb
                               /\ waveInfo[i].numBOOL >= n.bool /\ waveInfo[i].numTOOL >= n.tool}
\* A deleted waveform of exactly the same size is used again, the lowest first.
Fits(n) == {i \in Ids : /\ waveInfo[i].deleted
                        /\ waveInfo[i].numCB = n.cb
                        /\ waveInfo[i].numBOOL = n.bool /\ waveInfo[i].numTOOL = n.tool}
Reused(n) == CHOOSE i \in Fits(n) : \A j \in Fits(n) : i <= j
\* (mutant: one CB more than there are)
SpareAndOne(n) == /\ n.cb + waveOutBotCB <= NUM_WAVE_CBS + 1
                  /\ n.bool + waveOutBotOOL <= waveOutTopOOL - n.tool
Spare(n) == /\ n.cb + waveOutBotCB <= NUM_WAVE_CBS
            /\ n.bool + waveOutBotOOL <= waveOutTopOOL - n.tool

\* wave2Cbs: the shape is written from `bot` on, its CBs linked in order. In a
\* padded block of `size` the last of them links to a sentinel at the end.
wave2Cbs(bot, shape, size, padded) ==
  [c \in CBs |->
    CASE padded /\ c = bot + size - 1 -> [step |-> 0, next |-> Null]
      [] c \in bot..(bot + shape.cb - 1) /\ ~(padded /\ c = bot + size - 1) ->
           [step |-> c - bot + 1,
            next |-> IF c < bot + shape.cb - 1 THEN c + 1
                     ELSE IF padded THEN bot + size - 1 ELSE Null]
      [] OTHER -> mem[c]]

\* The common part of gpioWaveCreate and gpioWaveCreatePad, for a block of the
\* size n: the check against PI_MAX_WAVES that both make looks at a wave id that
\* is still -1, and refuses nothing.
Create(n, padded) ==
  LET fresh == [botCB |-> waveOutBotCB, botOOL |-> waveOutBotOOL, topOOL |-> waveOutTopOOL,
                numCB |-> n.cb, numBOOL |-> n.bool, numTOOL |-> n.tool,
                deleted |-> FALSE, shape |-> wf]
      used == [waveInfo[Reused(n)] EXCEPT !.deleted = FALSE, !.shape = wf]
      w == IF Fits(n) # {} THEN used ELSE fresh
  IN /\ wf # NoShape
     /\ IF Fits(n) # {}
          THEN /\ waveInfo' = [waveInfo EXCEPT ![Reused(n)] = w]
               /\ UNCHANGED <<waveOutCount, waveOutBotCB, waveOutBotOOL, waveOutTopOOL>>
          ELSE /\ Spare(n)
               /\ waveInfo' = [i \in DOMAIN waveInfo \union {waveOutCount} |->
                                 IF i = waveOutCount THEN w ELSE waveInfo[i]]
               /\ waveOutCount' = waveOutCount + 1
               /\ waveOutBotCB' = waveOutBotCB + n.cb
               /\ waveOutBotOOL' = waveOutBotOOL + n.bool
               /\ waveOutTopOOL' = waveOutTopOOL - n.tool
     /\ mem' = wave2Cbs(w.botCB, wf, n.cb, padded)
     /\ wf' = NoShape
     /\ UNCHANGED <<waveEndPtr, txDma, waveGone>>
gpioWaveCreate == Create(wf, FALSE)
gpioWaveCreatePad(n) == /\ wf.cb <= n.cb /\ wf.bool <= n.bool /\ wf.tool <= n.tool
                        /\ Create(n, TRUE)

\* Deleting the last waveform gives back its block and those of the deleted
\* waveforms before it.
gpioWaveDelete(id) ==
  LET marked == [waveInfo EXCEPT ![id].deleted = TRUE]
      top == CHOOSE k \in 0..id : /\ \A j \in k..id : marked[j].deleted
                                  /\ k > 0 => ~marked[k - 1].deleted
  IN /\ id \in Live
     /\ waveInfo' = marked
     /\ IF id = waveOutCount - 1
          THEN /\ waveOutCount' = top
               /\ waveOutBotCB' = marked[top].botCB
               /\ waveOutBotOOL' = marked[top].botOOL
               /\ waveOutTopOOL' = marked[top].topOOL
          ELSE UNCHANGED <<waveOutCount, waveOutBotCB, waveOutBotOOL, waveOutTopOOL>>
     /\ waveGone' = (waveGone \/ waveEndPtr = TopCB(waveInfo[id])
                        \/ Ahead \intersect Block(waveInfo[id]) # {})
     /\ UNCHANGED <<wf, mem, waveEndPtr, txDma>>

\* gpioWaveTxSend: the link of the waveform's last CB is set, to nothing or to
\* its first step; then the DMA engine is started anew or, for the SYNC modes,
\* the waveform sent before is linked to this one.
gpioWaveTxSend(id, repeat, sync) ==
  LET w == waveInfo[id]
      first == w.botCB + 1
      own == [mem EXCEPT ![TopCB(w)].next = IF repeat THEN first ELSE Null]
      linked == [own EXCEPT ![waveEndPtr].next = first]
  IN /\ id \in Live
     /\ mem' = IF sync /\ waveEndPtr # Null THEN linked ELSE own
     /\ txDma' = IF sync /\ waveEndPtr # Null /\ txDma.cb # Null THEN txDma
               ELSE Load(mem', w.botCB)
     /\ waveEndPtr' = TopCB(w)
     /\ UNCHANGED <<wf, waveBlocks, waveGone>>

gpioWaveTxStop == /\ txDma' = TxIdle /\ waveEndPtr' = Null
                  /\ UNCHANGED <<wf, waveBlocks, mem, waveGone>>

\* The DMA engine goes on to the CB whose address it loaded with the last one.
DmaStep == /\ txDma # TxIdle /\ txDma' = Load(mem, txDma.next)
           /\ UNCHANGED <<wf, waveBlocks, mem, waveEndPtr, waveGone>>

\* gpioWaveTxAt scans every entry, those of cleared waveforms too.
gpioWaveTxAt ==
  LET on == {i \in DOMAIN waveInfo : ~waveInfo[i].deleted /\ txDma.cb \in Block(waveInfo[i])}
  IN IF txDma.cb = Null \/ on = {} THEN Null ELSE CHOOSE i \in on : \A j \in on : i <= j

WavesNext ==
  \/ WaveAdd \/ gpioWaveAddNew \/ gpioWaveClear \/ gpioWaveTxStop \/ DmaStep
  \/ waveOutCount < MaxCount /\ gpioWaveCreate
  \/ waveOutCount < MaxCount /\ \E n \in PadSizes : gpioWaveCreatePad(n)
  \/ \E id \in Ids : gpioWaveDelete(id)
  \/ \E id \in Ids, repeat, sync \in BOOLEAN : gpioWaveTxSend(id, repeat, sync)
WavesSpec == WavesInit /\ [][WavesNext]_wavesVars

----------------------------------------------------------------------------
WavesTypeOK ==
  /\ wf \in Shapes \union {NoShape}
  /\ waveOutCount \in 0..MaxCount /\ Ids \subseteq DOMAIN waveInfo
  /\ waveOutBotCB \in 0..NUM_WAVE_CBS
  /\ 0 <= waveOutBotOOL /\ waveOutBotOOL <= waveOutTopOOL /\ waveOutTopOOL <= NUM_WAVE_OOL
  /\ \A c \in CBs : mem[c].next \in CBs \union {Null}
  /\ waveEndPtr \in CBs \union {Null} /\ txDma.cb \in CBs \union {Null}

\* No two waveforms share a CB or an OOL, deleted ones that may be used again
\* included, and none reaches into the space that is still to be given out.
Outs(w) == w.botOOL..(w.botOOL + w.numBOOL - 1)
Ins(w) == (w.topOOL - w.numTOOL)..(w.topOOL - 1)
BlocksDisjoint ==
  \A i \in Ids : LET w == waveInfo[i] IN
    /\ Block(w) \subseteq 0..(waveOutBotCB - 1)
    /\ Outs(w) \subseteq 0..(waveOutBotOOL - 1) /\ Ins(w) \subseteq waveOutTopOOL..NUM_WAVE_OOL
    /\ \A j \in Ids \ {i} : LET v == waveInfo[j] IN
         /\ Block(w) \intersect Block(v) = {}
         /\ (Outs(w) \union Ins(w)) \intersect (Outs(v) \union Ins(v)) = {}

\* The CBs of a live waveform still play all its steps, in order, up to the last
\* CB of its block, whatever was created, deleted and sent since. (A padded block
\* of exactly the size needed is left out: its sentinel replaces the last step.)
WholeWave(w) ==
  \A k \in 1..w.shape.cb :
    LET c == w.botCB + k - 1 IN
    /\ mem[c].step = k
    /\ k < w.shape.cb => mem[c].next = c + 1
    /\ k = w.shape.cb /\ c # TopCB(w) => mem[c].next = TopCB(w)
ExactPad(w) == w.numCB = w.shape.cb /\ mem[TopCB(w)].step = 0
WavesIntact == ~waveGone => \A i \in Live : ExactPad(waveInfo[i]) \/ WholeWave(waveInfo[i])

\* As long as the waveform on the air, and the one sent last, are not deleted
\* (the warning of gpioWaveTxSend) or cleared, the DMA engine plays CBs of live
\* waveforms only, and gpioWaveTxAt answers the one that is played.
PlaysLiveWaves ==
  ~waveGone /\ txDma.cb # Null =>
    \E i \in Live : txDma.cb \in Block(waveInfo[i]) /\ gpioWaveTxAt = i

\* What the waveforms keep to: blocks apart, contents whole, and a DMA engine
\* that plays nothing that was given back.
WavesKept == WavesTypeOK /\ BlocksDisjoint /\ WavesIntact /\ PlaysLiveWaves

-----------------------------------------------------------------------------
(* Pulses *)

CONSTANTS
  Bauds, DataBits,   \* rates, and bits of a character
  HalfStops,         \* half stop bits
  Texts,             \* texts: sequences of numbers
  Transfers,         \* SPI transfers: the bus, the bits sent and those read
  PI_WAVE_MAX_PULSES,   \* pulses a waveform may have
  Pulses, MaxLen     \* pulses that are added, and how many at once

ASSUME BitsAssumption ==
  /\ \A b \in Bauds : b \in 50..1000000
  /\ \A n \in DataBits : n \in 1..32
  /\ \A n \in HalfStops : n \in 2..8
ASSUME MergeAssumption ==
  /\ PI_WAVE_MAX_PULSES \in Nat /\ MaxLen \in Nat
  /\ \A p \in Pulses : p.usDelay \in Nat

VARIABLES
  built,         \* the last call and its pulses, wf[2]
  wave, result   \* wf[wfcur], and what the last call that merged answered

BitOf(c, b) == (c \div 2^b) % 2

----------------------------------------------------------------------------
(* Serial *)

Rounded(nano) == (nano + 500) \div 1000
FullBit(baud) == 1000000000 \div baud

\* (mutant: every bit is rounded for itself)
BitsForThemselves(baud, bits, stops) ==
  [i \in 0..bits + 1 |-> IF i <= bits THEN Rounded(FullBit(baud))
                         ELSE Rounded((stops * FullBit(baud)) \div 2)]
\* A bit lasts from where it should begin, rounded, to where it should end.
waveBitDelay(baud, bits, stops) ==
  LET end(i) == Rounded((i + 1) * FullBit(baud))
  IN [i \in 0..bits + 1 |->
        IF i = 0 THEN end(0)
        ELSE IF i <= bits THEN end(i) - end(i - 1)
        ELSE Rounded((bits + 1) * FullBit(baud) + (stops * FullBit(baud)) \div 2) - end(bits)]

\* A level that stays is one pulse.
Held(w, lev, us) ==
  IF w[Len(w)].level = lev THEN [w EXCEPT ![Len(w)].us = @ + us]
  ELSE Append(w, [level |-> lev, us |-> us])

\* Idle first; then each character's start bit, its bits from the lowest, and stop.
gpioWaveAddSerial(baud, bits, stops, offset, text) ==
  LET delay == waveBitDelay(baud, bits, stops)
      idle == [level |-> 1, us |-> IF offset > delay[0] THEN offset ELSE delay[0]]
      levels(c) == <<0>> \o [b \in 1..bits |-> BitOf(c, b - 1)] \o <<1>>
      character(w, c) == FoldLeftDomain(LAMBDA v, i : Held(v, levels(c)[i], delay[i - 1]), w,
                                        levels(c))
  IN /\ text # <<>>
     /\ built' = [call |-> "serial", baud |-> baud, bits |-> bits, stops |-> stops,
                  offset |-> offset, asked |-> text,
                  pulses |-> FoldLeft(character, <<idle>>, text)]

----------------------------------------------------------------------------
(* SPI *)

\* getBitInBytes: what is beyond the bits to be sent is 0.
getBitInBytes(pos, sent) == IF pos < Len(sent) THEN sent[pos + 1] ELSE 0

Switches(pin, on) == <<pin, IF on THEN 1 ELSE 0>>

\* The select and the idle clock with the first bit; for each bit two halves, of
\* which one is read and one puts the next bit on the line; the select again.
rawWaveAddSPI(t) ==
  LET half(bit, h, pos, dbv) ==
        [does |-> {Switches("clk", (h = 0) # (t.clk_pol = 1))}
                  \union (IF (h = 0) # (t.clk_pha = 1) \/ getBitInBytes(pos, t.sent) = dbv
                          THEN {} ELSE {<<"mosi", 1 - dbv>>}),
         us |-> t.clk_us, read |-> (h = 0) # (t.clk_pha = 1) /\ bit \in t.first..t.last]
      begin == [w |-> (IF t.offset > 0 THEN <<[does |-> {}, us |-> t.offset, read |-> FALSE]>>
                       ELSE <<>>)
                      \o <<[does |-> {<<"mosi", getBitInBytes(0, t.sent)>>,
                                      Switches("ss", t.ss_pol = 0),
                                      Switches("clk", t.clk_pol = 1)},
                            us |-> IF t.clk_us > t.ss_us THEN t.clk_us ELSE t.ss_us,
                            read |-> FALSE]>>,
                pos |-> IF t.clk_pha = 0 THEN 1 ELSE 0, dbv |-> getBitInBytes(0, t.sent)]
      step(st, k) ==
        LET bit == (k + 1) \div 2
            h == (k + 1) % 2
            reads == (h = 0) # (t.clk_pha = 1)
        IN [w |-> Append(st.w, half(bit, h, st.pos, st.dbv)),
            pos |-> IF reads THEN st.pos ELSE st.pos + 1,
            dbv |-> IF reads THEN st.dbv ELSE getBitInBytes(st.pos, t.sent)]
      halves == FoldLeft(step, begin, [k \in 1..2 * t.bits |-> k])
  IN built' = [call |-> "spi", asked |-> t,
               pulses |-> Append(halves.w, [does |-> {Switches("ss", t.ss_pol = 1)}, us |-> 0,
                                            read |-> FALSE])]

BitsInit == built = [call |-> "none"]
BitsNext ==
  \/ \E baud \in Bauds, bits \in DataBits, stops \in HalfStops, text \in Texts,
        offset \in {0, 100} : gpioWaveAddSerial(baud, bits, stops, offset, text)
  \/ \E t \in Transfers : rawWaveAddSPI(t)
BitsSpec == BitsInit /\ [][BitsNext]_built

----------------------------------------------------------------------------
(* Who is at the other end of the wire *)

Began(w, i) == FoldLeft(LAMBDA us, p : us + p.us, 0, SubSeq(w, 1, i - 1))
\* The level at a time in nanoseconds.
LevelAt(w, nano) ==
  LET on == {i \in DOMAIN w : 1000 * Began(w, i) <= nano}
  IN w[CHOOSE i \in on : \A j \in on : j <= i].level
\* Where the next character begins: at the first fall from a time on.
FallsFrom(w, nano) == {1000 * Began(w, i) : i \in {i \in DOMAIN w : w[i].level = 0
                                                  /\ 1000 * Began(w, i) >= nano}}
Least(set) == CHOOSE n \in set : \A m \in set : n <= m

\* A receiver waits for the line to fall and looks at it in the middle of each bit,
\* by a clock of its own; it reads the text, whatever the rate, and finds the line
\* at rest after each character and nothing behind the last.
Receives(c) ==
  LET full == FullBit(c.baud)
      heard == FoldLeft(LAMBDA st, i :
                  IF FallsFrom(c.pulses, st.after) = {} THEN [st EXCEPT !.ok = FALSE]
                  ELSE LET start == Least(FallsFrom(c.pulses, st.after))
                           level(k) == LevelAt(c.pulses, start + k * full + full \div 2)
                       IN [after |-> start + (c.bits + 1) * full + full \div 2,
                           ok |-> st.ok /\ level(0) = 0 /\ level(c.bits + 1) = 1
                                  /\ \A b \in 1..c.bits : level(b) = BitOf(c.asked[i], b - 1)],
                  [after |-> 0, ok |-> TRUE], [i \in DOMAIN c.asked |-> i])
  IN heard.ok /\ FallsFrom(c.pulses, heard.after) = {}

\* No pulse starts more than half a microsecond from where it should.
NoDrift(c) ==
  LET all == Began(c.pulses, Len(c.pulses) + 1) - c.pulses[1].us
      each == (c.bits + 1) * FullBit(c.baud) + (c.stops * FullBit(c.baud)) \div 2
  IN 1000 * all - Len(c.asked) * each \in -500 * Len(c.asked)..500 * Len(c.asked)

\* The level of a pin once the i-th pulse has begun.
PinAt(w, i, pin) ==
  LET set == {j \in 1..i : \E v \in 0..1 : <<pin, v>> \in w[j].does}
  IN IF set = {} THEN 2
     ELSE CHOOSE v \in 0..1 : <<pin, v>> \in w[CHOOSE j \in set : \A k \in set : k <= j].does

\* A device looks at the data at the edges its mode reads at while it is selected:
\* it gets the bits that are sent, then zeros; its answer is read at the same edges,
\* for the bits asked; and the clock is idle when it is selected and when it is not.
Clocks(c) ==
  LET t == c.asked
      w == c.pulses
      selected(i) == PinAt(w, i, "ss") = 1 - t.ss_pol
      edge(i) == i > 1 /\ PinAt(w, i - 1, "clk") \notin {2, PinAt(w, i, "clk")}
      leading(i) == PinAt(w, i, "clk") # t.clk_pol
      looks == SelectSeq([i \in DOMAIN w |-> i],
                         LAMBDA i : edge(i) /\ selected(i) /\ leading(i) = (t.clk_pha = 0))
  IN /\ Len(looks) = t.bits
     /\ \A k \in DOMAIN looks :
          /\ PinAt(w, looks[k], "mosi") = getBitInBytes(k - 1, t.sent)
          /\ PinAt(w, looks[k] - 1, "mosi") = PinAt(w, looks[k], "mosi")
          /\ w[looks[k]].read = (k \in t.first..t.last)
     /\ {i \in DOMAIN w : w[i].read} \subseteq {looks[k] : k \in DOMAIN looks}
     /\ PinAt(w, Len(w), "clk") = t.clk_pol /\ ~selected(Len(w))

WireCarriesBits ==
  /\ built.call = "serial" => Receives(built) /\ NoDrift(built)
  /\ built.call = "spi" => Clocks(built)

----------------------------------------------------------------------------
(* Merging.  A pulse says what it switches, as a set of <<GPIO, level>> and of
   "read" flags, and how long it lasts.  *)

Never == 1000000          \* (uint32_t)-1: no pulse is left
NoPulses == <<>>
PI_TOO_MANY_PULSES == -1

Advance(st) ==
  LET due1 == st.next1 <= st.next2
      due2 == st.next2 <= st.next1
      now == IF due1 THEN st.next1 ELSE st.next2
      p1 == st.in1[st.pos1]
      p2 == st.in2[st.pos2]
      does == (IF due1 THEN p1.does ELSE {}) \union (IF due2 THEN p2.does ELSE {})
      pos1 == IF due1 THEN st.pos1 + 1 ELSE st.pos1
      pos2 == IF due2 THEN st.pos2 + 1 ELSE st.pos2
      end1 == IF due1 THEN now + p1.usDelay ELSE st.next1
      end2 == IF due2 THEN now + p2.usDelay ELSE st.next2
      ends == {e \in {end1, end2} : e # Never}
      until == IF end1 <= end2 THEN end1 ELSE end2
      \* a pulse that comes after a gap extends the delay of the one before it
      gap == now - st.now
      before == IF gap = 0 THEN st.out
                ELSE [st.out EXCEPT ![Len(st.out)].usDelay = @ + gap]
  IN [st EXCEPT !.out = Append(before, [does |-> does, usDelay |-> until - now]),
                !.pos1 = pos1, !.pos2 = pos2,
                !.next1 = IF pos1 > Len(st.in1) THEN Never ELSE end1,
                !.next2 = IF pos2 > Len(st.in2) THEN Never ELSE end2,
                !.now = until, !.max = Max(ends \union {st.max})]

\* (mutant: the delay that is left of the longer input is dropped)
MergedShort(in1, in2) ==
  LET start == [in1 |-> in1, in2 |-> in2, pos1 |-> 1, pos2 |-> 1, out |-> <<>>, now |-> 0,
                next1 |-> IF in1 = <<>> THEN Never ELSE 0,
                next2 |-> IF in2 = <<>> THEN Never ELSE 0, max |-> 0]
      more(st) == /\ st.pos1 <= Len(in1) \/ st.pos2 <= Len(in2)
                  /\ Len(st.out) < PI_WAVE_MAX_PULSES
      loop[k \in 0..PI_WAVE_MAX_PULSES] ==
        IF k = 0 THEN start
        ELSE LET st == loop[k - 1] IN IF more(st) THEN Advance(st) ELSE st
  IN loop[PI_WAVE_MAX_PULSES].out
\* The loop, and the delay that reaches to the end of the longer input.
Merged(in1, in2) ==
  LET start == [in1 |-> in1, in2 |-> in2, pos1 |-> 1, pos2 |-> 1, out |-> <<>>, now |-> 0,
                next1 |-> IF in1 = <<>> THEN Never ELSE 0,
                next2 |-> IF in2 = <<>> THEN Never ELSE 0, max |-> 0]
      more(st) == /\ st.pos1 <= Len(in1) \/ st.pos2 <= Len(in2)
                  /\ Len(st.out) < PI_WAVE_MAX_PULSES
      loop[k \in 0..PI_WAVE_MAX_PULSES] ==
        IF k = 0 THEN start
        ELSE LET st == loop[k - 1] IN IF more(st) THEN Advance(st) ELSE st
      end == loop[PI_WAVE_MAX_PULSES]
  IN IF end.now < end.max
     THEN [end.out EXCEPT ![Len(end.out)].usDelay = @ + end.max - end.now]
     ELSE end.out

\* A pulse that reads needs an OOL; the check is whether as many as there are
\* pulses would be left.
OolsLeft(w) == NUM_WAVE_OOL - Cardinality({i \in DOMAIN w : "read" \in w[i].does})

\* The merged pulses become the waveform unless they fill the buffer.
MergeInit == wave = NoPulses /\ result = 0
rawWaveAddGeneric(in1) ==
  LET out == Merged(in1, wave)
  IN IF Len(out) < PI_WAVE_MAX_PULSES /\ Len(out) < OolsLeft(out) THEN wave' = out /\ result' = Len(out)
     ELSE result' = PI_TOO_MANY_PULSES /\ UNCHANGED wave
MergeNext == \E in1 \in SeqOf(Pulses, MaxLen) : rawWaveAddGeneric(in1)
mergeVars == <<wave, result>>
MergeSpec == MergeInit /\ [][MergeNext]_mergeVars

----------------------------------------------------------------------------
(* A waveform as a reader of gpioWaveAddGeneric sees it: what happens when *)
StartOf(w, i) == FoldLeft(LAMBDA t, p : t + p.usDelay, 0, SubSeq(w, 1, i - 1))
Length(w) == StartOf(w, Len(w) + 1)
Events(w) == UNION {{<<StartOf(w, i), d>> : d \in w[i].does} : i \in DOMAIN w}

\* Adding pulses superposes them: everything that was to happen still happens at
\* its time, everything new too, nothing else does, and the waveform lasts as
\* long as the longer of the two; or the call is refused and changes nothing.
SuperposesStep ==
  \/ UNCHANGED mergeVars
  \/ \A in1 \in SeqOf(Pulses, MaxLen) : rawWaveAddGeneric(in1) =>
       \/ result' = PI_TOO_MANY_PULSES /\ wave' = wave
       \/ /\ Events(wave') = Events(in1) \union Events(wave)
          /\ Length(wave') = Max({Length(in1), Length(wave)})
Superposes == [][SuperposesStep]_mergeVars
=============================================================================
