---------------------------- MODULE Calls_proofs ----------------------------
(***************************************************************************)
(* Theorems about what the calls of pigpio.c keep: the memory of the       *)
(* waveforms, the slots and descriptors of the devices, the pins of the    *)
(* SPI devices, the GPIO of the bit-banged buses, the events and the bytes *)
(* of the BSC.  The parts share nothing but this module.                   *)
(***************************************************************************)
EXTENDS Waves, Handles, SpiBus, BitBang, Events, FiniteSetTheorems, SequenceTheorems,
        WellFoundedInduction, TLAPS

(***************************************************************************)
(* Waveforms lie apart and whole, and the DMA engine plays only what was   *)
(* not given back, for any number of control blocks, levels, waveforms and *)
(* sizes.                                                                  *)
(***************************************************************************)
Links == CBs \union {Null}
WaveRecords == [botCB : Nat, botOOL : Nat, topOOL : Nat, numCB : Nat, numBOOL : Nat,
                numTOOL : Nat, deleted : BOOLEAN, shape : Needs]

Typed ==
  /\ wf \in Shapes \union {NoShape}
  /\ DOMAIN waveInfo \subseteq Nat /\ waveInfo \in [DOMAIN waveInfo -> WaveRecords]
  /\ waveOutCount \in 0..MaxCount /\ Ids \subseteq DOMAIN waveInfo
  /\ waveOutBotCB \in 0..NUM_WAVE_CBS
  /\ waveOutBotOOL \in Nat /\ waveOutTopOOL \in Nat
  /\ waveOutBotOOL <= waveOutTopOOL /\ waveOutTopOOL <= NUM_WAVE_OOL
  /\ mem \in [CBs -> [step : Nat, next : Links]]
  /\ waveEndPtr \in Links /\ txDma \in [cb : Links, next : Links]
  /\ waveGone \in BOOLEAN

(* a waveform lies in what has been given out and has room for its steps   *)
Within(w, botCB, botOOL, topOOL) ==
  /\ w.botCB + w.numCB <= botCB
  /\ w.botOOL + w.numBOOL <= botOOL
  /\ topOOL + w.numTOOL <= w.topOOL /\ w.topOOL <= NUM_WAVE_OOL
  /\ w.shape.cb > 1 /\ w.shape.cb <= w.numCB

(* everything of one waveform was given out before everything of another   *)
Before(w, v) ==
  /\ w.botCB + w.numCB <= v.botCB
  /\ w.botOOL + w.numBOOL <= v.botOOL
  /\ v.topOOL + w.numTOOL <= w.topOOL

Placed ==
  /\ \A i \in Ids : Within(waveInfo[i], waveOutBotCB, waveOutBotOOL, waveOutTopOOL)
  /\ \A i, j \in Ids : i < j => Before(waveInfo[i], waveInfo[j])

(* the CBs that play the steps of a waveform, and what m must hold there   *)
Steps(w) == w.botCB..(w.botCB + w.shape.cb - 1)
Linked(w, m) ==
  \A c \in Steps(w) :
    /\ c # TopCB(w) =>
         /\ m[c].step = c - w.botCB + 1
         /\ m[c].next = IF c < w.botCB + w.shape.cb - 1 THEN c + 1 ELSE TopCB(w)
    /\ c = TopCB(w) => m[c].step \in {0, w.shape.cb}

AllLinked == \A i \in Live : Linked(waveInfo[i], mem)
EndsLive == waveEndPtr # Null => \E i \in Live : waveEndPtr = TopCB(waveInfo[i])
AheadLive == \A c \in Ahead : \E i \in Live : c \in Block(waveInfo[i])
Sound == ~waveGone => AllLinked /\ EndsLive /\ AheadLive

IInv == Typed /\ Placed /\ Sound

(***************************************************************************)
(* What follows from the invariant                                         *)
(***************************************************************************)
LEMMA RecordsTyped ==
  ASSUME Typed, NEW i \in DOMAIN waveInfo
  PROVE  /\ waveInfo[i] \in WaveRecords
         /\ waveInfo[i].botCB \in Nat /\ waveInfo[i].numCB \in Nat
         /\ waveInfo[i].botOOL \in Nat /\ waveInfo[i].numBOOL \in Nat
         /\ waveInfo[i].topOOL \in Nat /\ waveInfo[i].numTOOL \in Nat
         /\ waveInfo[i].deleted \in BOOLEAN
         /\ waveInfo[i].shape \in Needs /\ waveInfo[i].shape.cb \in Nat
<1>1. waveInfo[i] \in WaveRecords
  BY DEF Typed
<1>2. QED  BY <1>1 DEF WaveRecords, Needs

(* two waveforms have no CB in common                                      *)
LEMMA BlocksApart ==
  ASSUME Typed, Placed, NEW i \in Ids, NEW j \in Ids, i # j
  PROVE  Block(waveInfo[i]) \intersect Block(waveInfo[j]) = {}
<1>1. i \in DOMAIN waveInfo /\ j \in DOMAIN waveInfo /\ i \in Int /\ j \in Int
  BY DEF Typed, Ids
<1>2. /\ waveInfo[i].botCB \in Nat /\ waveInfo[i].numCB \in Nat
      /\ waveInfo[j].botCB \in Nat /\ waveInfo[j].numCB \in Nat
  BY <1>1, RecordsTyped
<1>3. CASE i < j
  <2>1. waveInfo[i].botCB + waveInfo[i].numCB <= waveInfo[j].botCB
    BY <1>3 DEF Placed, Before
  <2>2. QED  BY <2>1, <1>2 DEF Block, TopCB
<1>4. CASE j < i
  <2>1. waveInfo[j].botCB + waveInfo[j].numCB <= waveInfo[i].botCB
    BY <1>4 DEF Placed, Before
  <2>2. QED  BY <2>1, <1>2 DEF Block, TopCB
<1>5. QED  BY <1>1, <1>3, <1>4

LEMMA BlocksAreCBs ==
  ASSUME Typed, Placed, NEW i \in Ids
  PROVE  /\ Block(waveInfo[i]) \subseteq CBs
         /\ Block(waveInfo[i]) \subseteq 0..(waveOutBotCB - 1)
         /\ TopCB(waveInfo[i]) \in CBs /\ TopCB(waveInfo[i]) \in Block(waveInfo[i])
         /\ waveInfo[i].botCB \in Block(waveInfo[i]) /\ waveInfo[i].botCB + 1 \in Steps(waveInfo[i])
         /\ waveInfo[i].botCB \in Steps(waveInfo[i]) /\ waveInfo[i].botCB # TopCB(waveInfo[i])
         /\ Steps(waveInfo[i]) \subseteq Block(waveInfo[i])
<1>1. i \in DOMAIN waveInfo
  BY DEF Typed
<1>2. /\ waveInfo[i].botCB \in Nat /\ waveInfo[i].numCB \in Nat
      /\ waveInfo[i].shape.cb \in Nat
  BY <1>1, RecordsTyped
<1>3. /\ waveInfo[i].botCB + waveInfo[i].numCB <= waveOutBotCB
      /\ waveInfo[i].shape.cb > 1 /\ waveInfo[i].shape.cb <= waveInfo[i].numCB
  BY DEF Placed, Within
<1>4. waveOutBotCB \in Int /\ waveOutBotCB <= NUM_WAVE_CBS /\ NUM_WAVE_CBS \in Nat
  BY WavesAssumption DEF Typed
<1>5. QED  BY <1>2, <1>3, <1>4 DEF Block, TopCB, Steps, CBs

LEMMA AheadClosed ==
  ASSUME Typed
  PROVE  /\ txDma.cb # Null => txDma.cb \in Ahead
         /\ txDma.next # Null => txDma.next \in Ahead
         /\ \A c \in Ahead : mem[c].next # Null => mem[c].next \in Ahead
         /\ Ahead \subseteq CBs
<1>1. txDma.cb \in Links /\ txDma.next \in Links
  BY DEF Typed
<1>2. \A c \in CBs : mem[c].next \in Links
  BY DEF Typed
<1>3. \A S \in SUBSET CBs : Closed(S) => /\ txDma.cb # Null => txDma.cb \in S
                                         /\ txDma.next # Null => txDma.next \in S
                                         /\ \A c \in S : mem[c].next # Null => mem[c].next \in S
  BY DEF Closed
<1>4. QED  BY <1>1, <1>2, <1>3 DEF Ahead, Links

(* what holds all that is loaded and follows its own links holds all that  *)
(* will be played                                                          *)
LEMMA AheadLeast ==
  ASSUME NEW S \in SUBSET CBs,
         txDma'.cb \in S \union {Null}, txDma'.next \in S \union {Null},
         \A c \in S : mem'[c].next \in S \union {Null}
  PROVE  Ahead' \subseteq S
<1>1. Closed(S)'
  BY DEF Closed
<1>2. QED  BY <1>1 DEF Ahead

LEMMA KeptByInvariant == IInv => WavesKept
<1> SUFFICES ASSUME IInv PROVE WavesKept
  OBVIOUS
<1>0. Typed /\ Placed
  BY DEF IInv
<1>1. WavesTypeOK
  <2>1. \A c \in CBs : mem[c].next \in Links
    BY <1>0 DEF Typed
  <2>2. txDma.cb \in Links
    BY <1>0 DEF Typed
  <2>3. QED  BY <1>0, <2>1, <2>2 DEF Typed, WavesTypeOK, Links
<1>2. BlocksDisjoint
  <2> SUFFICES ASSUME NEW i \in Ids
               PROVE  /\ Block(waveInfo[i]) \subseteq 0..(waveOutBotCB - 1)
                      /\ Outs(waveInfo[i]) \subseteq 0..(waveOutBotOOL - 1)
                      /\ Ins(waveInfo[i]) \subseteq waveOutTopOOL..NUM_WAVE_OOL
                      /\ \A j \in Ids \ {i} :
                           /\ Block(waveInfo[i]) \intersect Block(waveInfo[j]) = {}
                           /\ (Outs(waveInfo[i]) \union Ins(waveInfo[i])) \intersect
                              (Outs(waveInfo[j]) \union Ins(waveInfo[j])) = {}
    BY DEF BlocksDisjoint
  <2>1. \A k \in Ids : /\ k \in Int
                       /\ waveInfo[k].botOOL \in Nat /\ waveInfo[k].numBOOL \in Nat
                       /\ waveInfo[k].topOOL \in Nat /\ waveInfo[k].numTOOL \in Nat
    BY <1>0, RecordsTyped DEF Typed, Ids
  <2>2. \A k \in Ids : /\ waveInfo[k].botOOL + waveInfo[k].numBOOL <= waveOutBotOOL
                       /\ waveOutTopOOL + waveInfo[k].numTOOL <= waveInfo[k].topOOL
                       /\ waveInfo[k].topOOL <= NUM_WAVE_OOL
    BY <1>0 DEF Placed, Within
  <2>3. /\ waveOutBotOOL \in Nat /\ waveOutTopOOL \in Nat /\ waveOutBotOOL <= waveOutTopOOL
        /\ NUM_WAVE_OOL \in Nat
    BY <1>0, WavesAssumption DEF Typed
  <2>4. Outs(waveInfo[i]) \subseteq 0..(waveOutBotOOL - 1)
    BY <2>1, <2>2, <2>3 DEF Outs
  <2>5. Ins(waveInfo[i]) \subseteq waveOutTopOOL..NUM_WAVE_OOL
    BY <2>1, <2>2, <2>3 DEF Ins
  <2>6. ASSUME NEW j \in Ids \ {i}
        PROVE  (Outs(waveInfo[i]) \union Ins(waveInfo[i])) \intersect
                 (Outs(waveInfo[j]) \union Ins(waveInfo[j])) = {}
    <3>1. CASE i < j
      <4>1. /\ waveInfo[i].botOOL + waveInfo[i].numBOOL <= waveInfo[j].botOOL
            /\ waveInfo[j].topOOL + waveInfo[i].numTOOL <= waveInfo[i].topOOL
        BY <1>0, <3>1 DEF Placed, Before
      <4>2. QED  BY <4>1, <2>1, <2>2, <2>3 DEF Outs, Ins
    <3>2. CASE j < i
      <4>1. /\ waveInfo[j].botOOL + waveInfo[j].numBOOL <= waveInfo[i].botOOL
            /\ waveInfo[i].topOOL + waveInfo[j].numTOOL <= waveInfo[j].topOOL
        BY <1>0, <3>2 DEF Placed, Before
      <4>2. QED  BY <4>1, <2>1, <2>2, <2>3 DEF Outs, Ins
    <3>3. QED  BY <2>1, <3>1, <3>2
  <2>7. \A j \in Ids \ {i} : Block(waveInfo[i]) \intersect Block(waveInfo[j]) = {}
    BY <1>0, BlocksApart
  <2>8. QED  BY <1>0, <2>4, <2>5, <2>6, <2>7, BlocksAreCBs
<1>3. WavesIntact
  <2> SUFFICES ASSUME ~waveGone, NEW i \in Live
               PROVE  ExactPad(waveInfo[i]) \/ WholeWave(waveInfo[i])
    BY DEF WavesIntact
  <2> DEFINE w == waveInfo[i]
  <2>1. i \in Ids /\ i \in DOMAIN waveInfo
    BY <1>0 DEF Live, Typed
  <2>2. w.botCB \in Nat /\ w.numCB \in Nat /\ w.shape.cb \in Nat
    BY <1>0, <2>1, RecordsTyped
  <2>3. w.shape.cb > 1 /\ w.shape.cb <= w.numCB
    BY <1>0, <2>1 DEF Placed, Within
  <2>4. Linked(w, mem)
    BY DEF IInv, Sound, AllLinked
  <2> HIDE DEF w
  <2>5. CASE ~(w.numCB = w.shape.cb /\ mem[TopCB(w)].step = 0)
    <3> SUFFICES ASSUME NEW k \in 1..w.shape.cb
                 PROVE  /\ mem[w.botCB + k - 1].step = k
                        /\ k < w.shape.cb => mem[w.botCB + k - 1].next = w.botCB + k - 1 + 1
                        /\ k = w.shape.cb /\ w.botCB + k - 1 # TopCB(w)
                             => mem[w.botCB + k - 1].next = TopCB(w)
      BY DEF WholeWave, w
    <3>1. w.botCB + k - 1 \in Steps(w)
      BY <2>2 DEF Steps
    <3>2. w.botCB + k - 1 = TopCB(w) => k = w.shape.cb /\ w.numCB = w.shape.cb
      BY <2>2, <2>3 DEF TopCB
    <3>3. QED  BY <2>2, <2>3, <2>4, <2>5, <3>1, <3>2 DEF Linked
  <2>6. QED  BY <2>5 DEF ExactPad, w
<1>4. PlaysLiveWaves
  <2> SUFFICES ASSUME ~waveGone, txDma.cb # Null
               PROVE  \E i \in Live : txDma.cb \in Block(waveInfo[i]) /\ gpioWaveTxAt = i
    BY DEF PlaysLiveWaves
  <2>1. txDma.cb \in Ahead
    BY <1>0, AheadClosed
  <2>2. PICK i \in Live : txDma.cb \in Block(waveInfo[i])
    BY <2>1 DEF IInv, Sound, AheadLive
  <2> DEFINE on == {j \in DOMAIN waveInfo : ~waveInfo[j].deleted /\ txDma.cb \in Block(waveInfo[j])}
  <2>3. i \in Ids /\ i \in on /\ i \in Int
    BY <1>0, <2>2 DEF Live, Typed, Ids
  <2>4. ASSUME NEW j \in on PROVE i <= j /\ j \in Int
    <3>1. j \in Nat
      BY <1>0 DEF Typed
    <3>2. CASE j \in Ids
      BY <1>0, <2>2, <2>3, <3>2, BlocksApart
    <3>3. CASE j \notin Ids
      BY <1>0, <2>3, <3>1, <3>3 DEF Ids, Typed
    <3>4. QED  BY <3>1, <3>2, <3>3
  <2>5. (CHOOSE k \in on : \A j \in on : k <= j) = i
    <3>1. \A k \in on : (\A j \in on : k <= j) => k = i
      BY <2>3, <2>4
    <3>2. QED  BY <2>3, <2>4, <3>1
  <2>6. gpioWaveTxAt = i
    BY <2>3, <2>5 DEF gpioWaveTxAt
  <2>7. QED  BY <2>2, <2>6
<1>5. QED  BY <1>1, <1>2, <1>3, <1>4 DEF WavesKept

(***************************************************************************)
(* The invariant holds at the start and every step keeps it                *)
(***************************************************************************)
LEMMA WavesBegin == WavesInit => IInv
<1> SUFFICES ASSUME WavesInit PROVE IInv
  OBVIOUS
<1> USE DEF WavesInit
<1>1. Ids = {} /\ Live = {}
  BY DEF Ids, Live
<1>2. DOMAIN waveInfo = {} /\ waveInfo \in [DOMAIN waveInfo -> WaveRecords]
  OBVIOUS
<1>3. mem \in [CBs -> [step : Nat, next : Links]]
  BY DEF Links
<1>4. txDma \in [cb : Links, next : Links]
  BY DEF Links, TxIdle
<1>5. Typed
  <2>1. waveOutCount \in 0..MaxCount /\ waveOutBotCB \in 0..NUM_WAVE_CBS
    BY WavesAssumption
  <2>2. /\ waveOutBotOOL \in Nat /\ waveOutTopOOL \in Nat
        /\ waveOutBotOOL <= waveOutTopOOL /\ waveOutTopOOL <= NUM_WAVE_OOL
    BY WavesAssumption
  <2>3. wf \in Shapes \union {NoShape} /\ waveEndPtr \in Links /\ waveGone \in BOOLEAN
    BY DEF Links
  <2>4. Ids \subseteq DOMAIN waveInfo /\ DOMAIN waveInfo \subseteq Nat
    BY <1>1, <1>2
  <2>5. QED  BY <1>2, <1>3, <1>4, <2>1, <2>2, <2>3, <2>4 DEF Typed
<1>6. Placed
  BY <1>1 DEF Placed
<1>7. Ahead = {}
  <2>1. Closed({})
    BY DEF Closed, TxIdle
  <2>2. QED  BY <2>1 DEF Ahead
<1>8. QED  BY <1>1, <1>5, <1>6, <1>7 DEF IInv, Sound, AllLinked, EndsLive, AheadLive

(* nothing of the blocks, the CBs and the engine changes                   *)
LEMMA NothingMoves ==
  ASSUME IInv, wf' \in Shapes \union {NoShape},
         UNCHANGED <<waveBlocks, mem, waveEndPtr, txDma, waveGone>>
  PROVE  IInv'
<1>1. Ids' = Ids /\ Live' = Live
  BY DEF waveBlocks, Ids, Live
<1>2. Ahead' = Ahead
  BY DEF Ahead, Closed
<1>3. Typed'
  BY <1>1 DEF IInv, Typed, waveBlocks
<1>4. Placed'
  BY <1>1 DEF IInv, Placed, waveBlocks
<1>5. Sound'
  BY <1>1, <1>2 DEF IInv, Sound, AllLinked, EndsLive, AheadLive, waveBlocks
<1>6. QED  BY <1>3, <1>4, <1>5 DEF IInv

LEMMA ClearStep == IInv /\ gpioWaveClear => IInv'
<1> SUFFICES ASSUME IInv, gpioWaveClear PROVE IInv'
  OBVIOUS
<1> USE DEF gpioWaveClear
<1>1. Ids' = {} /\ Live' = {}
  BY DEF Ids, Live
<1>2. Typed'
  BY <1>1, WavesAssumption DEF IInv, Typed, Links, NoShape
<1>3. Placed'
  BY <1>1 DEF Placed
<1>4. ASSUME ~waveGone' PROVE Ahead' = {}
  <2>1. txDma' = TxIdle
    BY <1>4
  <2>2. Closed({})'
    BY <2>1 DEF Closed, TxIdle
  <2>3. QED  BY <2>2 DEF Ahead
<1>5. QED  BY <1>1, <1>2, <1>3, <1>4 DEF IInv, Sound, AllLinked, EndsLive, AheadLive

(* no block and no link changes, and the engine goes on with what was      *)
(* ahead of it, or with nothing                                            *)
LEMMA EngineStep ==
  ASSUME IInv, UNCHANGED <<wf, waveBlocks, mem, waveGone>>,
         txDma' \in [cb : Links, next : Links],
         txDma'.cb \in Ahead \union {Null}, txDma'.next \in Ahead \union {Null},
         waveEndPtr' \in {waveEndPtr, Null}
  PROVE  IInv'
<1>1. Ids' = Ids /\ Live' = Live
  BY DEF waveBlocks, Ids, Live
<1>2. Ahead' \subseteq Ahead
  <2>1. \A c \in Ahead : mem'[c].next \in Ahead \union {Null}
    BY AheadClosed DEF IInv
  <2>2. Ahead \in SUBSET CBs
    BY AheadClosed DEF IInv
  <2>3. QED  BY <2>1, <2>2, AheadLeast
<1>3. Typed'
  BY <1>1 DEF IInv, Typed, waveBlocks, Links
<1>4. Placed'
  BY <1>1 DEF IInv, Placed, waveBlocks
<1>5. Sound'
  BY <1>1, <1>2 DEF IInv, Sound, AllLinked, EndsLive, AheadLive, waveBlocks
<1>6. QED  BY <1>3, <1>4, <1>5 DEF IInv

LEMMA StopStep == IInv /\ gpioWaveTxStop => IInv'
<1> SUFFICES ASSUME IInv, gpioWaveTxStop PROVE IInv'
  OBVIOUS
<1>1. txDma' = [cb |-> Null, next |-> Null] /\ waveEndPtr' = Null
  BY DEF gpioWaveTxStop, TxIdle
<1>2. txDma' \in [cb : Links, next : Links] /\ txDma'.cb = Null /\ txDma'.next = Null
  BY <1>1 DEF Links
<1>3. UNCHANGED <<wf, waveBlocks, mem, waveGone>>
  BY DEF gpioWaveTxStop
<1>4. QED  BY <1>1, <1>2, <1>3, EngineStep

LEMMA DmaPlays == IInv /\ DmaStep => IInv'
<1> SUFFICES ASSUME IInv, DmaStep PROVE IInv'
  OBVIOUS
<1>1. Typed
  BY DEF IInv
<1>2. txDma.next \in Links /\ \A c \in CBs : mem[c].next \in Links
  BY <1>1 DEF Typed
<1>3. /\ txDma'.cb \in Ahead \union {Null} /\ txDma'.next \in Ahead \union {Null}
      /\ txDma' \in [cb : Links, next : Links]
  <2>1. CASE txDma.next = Null
    <3>1. txDma' = [cb |-> Null, next |-> Null]
      BY <2>1 DEF DmaStep, Load, TxIdle
    <3>2. QED  BY <3>1 DEF Links
  <2>2. CASE txDma.next # Null
    <3>1. txDma' = [cb |-> txDma.next, next |-> mem[txDma.next].next]
      BY <2>2 DEF DmaStep, Load
    <3>2. txDma.next \in Ahead
      BY <1>1, <2>2, AheadClosed
    <3>3. mem[txDma.next].next \in Ahead \union {Null}
      BY <1>1, <3>2, AheadClosed
    <3>4. mem[txDma.next].next \in Links
      BY <1>1, <1>2, <3>2, AheadClosed
    <3>5. QED  BY <1>2, <3>1, <3>2, <3>3, <3>4
  <2>3. QED  BY <2>1, <2>2
<1>4. UNCHANGED <<wf, waveBlocks, mem, waveGone>> /\ waveEndPtr' = waveEndPtr
  BY DEF DmaStep
<1>5. QED  BY <1>3, <1>4, EngineStep

(***************************************************************************)
(* Sending: the last CB of the waveform, and that of the one sent before   *)
(* it, are linked to the waveform's first step                             *)
(***************************************************************************)
Played(w) == Steps(w) \union {TopCB(w)}

LEMMA SendStep ==
  ASSUME IInv, NEW id \in Ids, NEW repeat \in BOOLEAN, NEW sync \in BOOLEAN,
         gpioWaveTxSend(id, repeat, sync)
  PROVE  IInv'
<1> DEFINE w == waveInfo[id]
           first == w.botCB + 1
           top == TopCB(w)
<1>1. /\ Typed /\ Placed /\ id \in Live
      /\ UNCHANGED <<wf, waveBlocks, waveGone>> /\ waveEndPtr' = top
  BY DEF gpioWaveTxSend, IInv
<1>2. /\ top \in CBs /\ first \in CBs /\ w.botCB \in CBs /\ w.botCB # top
      /\ top \in Block(w) /\ first \in Steps(w) /\ w.botCB \in Steps(w)
      /\ Steps(w) \subseteq Block(w) /\ Block(w) \subseteq CBs
  BY <1>1, BlocksAreCBs
<1>3. Ids' = Ids /\ Live' = Live
  BY <1>1 DEF waveBlocks, Ids, Live
<1>4. mem \in [CBs -> [step : Nat, next : Links]] /\ waveEndPtr \in Links
  BY <1>1 DEF Typed
(* what becomes of the links                                               *)
<1>5. /\ mem' \in [CBs -> [step : Nat, next : Links]]
      /\ \A c \in CBs : mem'[c].step = mem[c].step
      /\ \A c \in CBs : c # top /\ c # waveEndPtr => mem'[c] = mem[c]
      /\ \A c \in CBs : c = top \/ c = waveEndPtr => mem'[c].next \in {first, Null, mem[c].next}
      /\ mem'[top].next \in {first, Null}
  <2> DEFINE own == [mem EXCEPT ![top].next = IF repeat THEN first ELSE Null]
             linked == [own EXCEPT ![waveEndPtr].next = first]
  <2>1. mem' = IF sync /\ waveEndPtr # Null THEN linked ELSE own
    BY DEF gpioWaveTxSend
  <2> HIDE DEF first, top, w
  <2>2. /\ own \in [CBs -> [step : Nat, next : Links]]
        /\ \A c \in CBs : own[c].step = mem[c].step
        /\ \A c \in CBs : c # top => own[c] = mem[c]
        /\ own[top].next \in {first, Null}
    BY <1>2, <1>4 DEF Links
  <2>3. CASE sync /\ waveEndPtr # Null
    <3> HIDE DEF own
    <3>1. waveEndPtr \in CBs
      BY <1>4, <2>3 DEF Links
    <3>2. /\ linked \in [CBs -> [step : Nat, next : Links]]
          /\ \A c \in CBs : linked[c].step = own[c].step
          /\ \A c \in CBs : c # waveEndPtr => linked[c] = own[c]
          /\ linked[waveEndPtr].next = first
      BY <1>2, <2>2, <3>1 DEF Links
    <3> HIDE DEF linked
    <3>3. QED  BY <1>2, <2>1, <2>2, <2>3, <3>1, <3>2
  <2>4. CASE ~(sync /\ waveEndPtr # Null)
    <3> HIDE DEF own
    <3>1. mem' = own
      BY <2>1, <2>4
    <3>2. QED  BY <1>2, <2>2, <3>1
  <2>5. QED  BY <2>3, <2>4
<1>6. txDma' = IF sync /\ waveEndPtr # Null /\ txDma.cb # Null THEN txDma
               ELSE [cb |-> w.botCB, next |-> mem'[w.botCB].next]
  BY <1>2 DEF gpioWaveTxSend, Load, CBs, Null
<1>7. Typed'
  <2>1. txDma' \in [cb : Links, next : Links]
    BY <1>1, <1>2, <1>5, <1>6 DEF Typed, Links
  <2>2. waveEndPtr' \in Links
    BY <1>1, <1>2 DEF Links
  <2>3. QED  BY <1>1, <1>3, <1>5, <2>1, <2>2 DEF Typed, waveBlocks
<1>8. Placed'
  BY <1>1, <1>3 DEF Placed, waveBlocks
<1>9. ASSUME ~waveGone' PROVE AllLinked' /\ EndsLive' /\ AheadLive'
  <2>1. AllLinked /\ EndsLive /\ AheadLive
    BY <1>1, <1>9 DEF IInv, Sound
  <2>2. ASSUME NEW i \in Live, NEW c \in Steps(waveInfo[i])
        PROVE  /\ c \in CBs
               /\ c # TopCB(waveInfo[i]) => c # top /\ c # waveEndPtr
    <3>1. i \in Ids
      BY DEF Live
    <3>2. c \in Block(waveInfo[i]) /\ c \in CBs
      BY <1>1, <3>1, BlocksAreCBs
    <3>3. c = top => i = id
      BY <1>1, <1>2, <3>1, <3>2, BlocksApart
    <3>4. ASSUME c = waveEndPtr PROVE c = TopCB(waveInfo[i])
      <4>1. waveEndPtr # Null
        BY <3>2, <3>4 DEF CBs, Null
      <4>2. PICK j \in Live : waveEndPtr = TopCB(waveInfo[j])
        BY <2>1, <4>1 DEF EndsLive
      <4>3. j \in Ids
        BY DEF Live
      <4>4. c \in Block(waveInfo[j])
        BY <1>1, <3>4, <4>2, <4>3, BlocksAreCBs
      <4>5. i = j
        BY <1>1, <3>1, <3>2, <4>3, <4>4, BlocksApart
      <4>6. QED  BY <3>4, <4>2, <4>5
    <3>5. QED  BY <3>2, <3>3, <3>4
  <2>3. \A i \in Live : Linked(waveInfo[i], mem')
    BY <1>5, <2>1, <2>2 DEF AllLinked, Linked
  <2>4. AllLinked'
    BY <1>1, <1>3, <2>3 DEF AllLinked, waveBlocks, Linked, Steps, TopCB
  <2>5. EndsLive'
    BY <1>1, <1>3 DEF EndsLive, waveBlocks, TopCB
  (* the CBs played follow their own links                                 *)
  <2>6. /\ Played(w) \subseteq Block(w)
        /\ \A c \in Played(w) : mem'[c].next \in Played(w) \union {Null}
    <3>1. id \in Live /\ Linked(w, mem')
      BY <1>1, <2>3
    <3>2. ASSUME NEW c \in Steps(w), c # top PROVE mem'[c].next \in Played(w)
      <4>1. id \in DOMAIN waveInfo
        BY <1>1 DEF Typed
      <4>2. w.botCB \in Nat /\ w.shape.cb \in Nat
        BY <1>1, <4>1, RecordsTyped
      <4>3. mem'[c].next = IF c < w.botCB + w.shape.cb - 1 THEN c + 1 ELSE top
        BY <3>1, <3>2 DEF Linked
      <4>4. c < w.botCB + w.shape.cb - 1 => c + 1 \in Steps(w)
        BY <4>2 DEF Steps
      <4>5. QED  BY <4>3, <4>4 DEF Played
    <3>3. mem'[top].next \in Steps(w) \union {Null}
      BY <1>2, <1>5
    <3>4. QED  BY <1>2, <3>2, <3>3 DEF Played
  <2>7. \A c \in Ahead' : c \in Ahead \/ c \in Played(w)
    <3>1. CASE sync /\ waveEndPtr # Null /\ txDma.cb # Null
      <4> DEFINE S == Ahead \union Played(w)
      <4>1. S \in SUBSET CBs
        BY <1>1, <1>2, <2>6, AheadClosed
      <4>2. txDma'.cb \in S \union {Null} /\ txDma'.next \in S \union {Null}
        BY <1>1, <1>6, <3>1, AheadClosed
      <4>3. ASSUME NEW c \in Ahead PROVE mem'[c].next \in S \union {Null}
        <5>1. c \in CBs /\ mem[c].next \in S \union {Null}
          BY <1>1, AheadClosed
        <5>2. first \in S
          BY <1>2 DEF Played
        <5>3. QED  BY <1>5, <5>1, <5>2
      <4>4. \A c \in S : mem'[c].next \in S \union {Null}
        BY <2>6, <4>3
      <4> HIDE DEF S
      <4>5. Ahead' \subseteq S
        BY <4>1, <4>2, <4>4, AheadLeast
      <4>6. QED  BY <4>5 DEF S
    <3>2. CASE ~(sync /\ waveEndPtr # Null /\ txDma.cb # Null)
      <4>1. Played(w) \in SUBSET CBs
        BY <1>2, <2>6
      <4>2. w.botCB \in Played(w)
        BY <1>2 DEF Played
      <4>3. txDma'.cb \in Played(w) \union {Null} /\ txDma'.next \in Played(w) \union {Null}
        BY <1>6, <2>6, <3>2, <4>2
      <4>4. Ahead' \subseteq Played(w)
        BY <2>6, <4>1, <4>3, AheadLeast
      <4>5. QED  BY <4>4
    <3>3. QED  BY <3>1, <3>2
  <2>8. ASSUME NEW c \in Ahead' PROVE \E i \in Live : c \in Block(waveInfo[i])
    <3>1. CASE c \in Ahead
      BY <2>1, <3>1 DEF AheadLive
    <3>2. CASE c \in Played(w)
      BY <1>1, <2>6, <3>2
    <3>3. QED  BY <2>7, <3>1, <3>2
  <2>9. AheadLive'
    BY <1>1, <1>3, <2>8 DEF AheadLive, waveBlocks, Block, TopCB
  <2>10. QED  BY <2>4, <2>5, <2>9
<1>10. QED  BY <1>7, <1>8, <1>9 DEF IInv, Sound

(***************************************************************************)
(* Deleting                                                                *)
(***************************************************************************)
(* a set of naturals that is not empty has a least member                  *)
LEMMA LeastExists ==
  ASSUME NEW T \in SUBSET Nat, T # {}
  PROVE  \E x \in T : \A y \in T : x <= y
<1>1. PICK x \in T : \A y \in T : ~(<<y, x>> \in OpToRel(<, Nat))
  BY WFMin, NatLessThanWellFounded
<1>2. \A y \in T : x <= y
  <2> TAKE y \in T
  <2>1. <<y, x>> \in Nat \X Nat /\ <<y, x>> \notin OpToRel(<, Nat)
    BY <1>1
  <2>2. ~(y < x)
    BY <2>1 DEF OpToRel
  <2>3. QED  BY <2>2
<1>3. QED  BY <1>2

LEMMA DeleteStep ==
  ASSUME IInv, NEW id \in Ids, gpioWaveDelete(id)
  PROVE  IInv'
<1> DEFINE marked == [waveInfo EXCEPT ![id].deleted = TRUE]
           Given(k) == /\ \A j \in k..id : marked[j].deleted
                       /\ k > 0 => ~marked[k - 1].deleted
           top == CHOOSE k \in 0..id : Given(k)
<1>1. /\ Typed /\ Placed /\ id \in Live /\ id \in Nat /\ id < waveOutCount
      /\ id \in DOMAIN waveInfo /\ waveInfo[id] \in WaveRecords /\ ~waveInfo[id].deleted
  BY RecordsTyped DEF gpioWaveDelete, IInv, Live, Ids, Typed
<1>2. /\ waveInfo' = marked /\ UNCHANGED <<wf, mem, waveEndPtr, txDma>>
      /\ waveGone' = (waveGone \/ waveEndPtr = TopCB(waveInfo[id])
                        \/ Ahead \intersect Block(waveInfo[id]) # {})
      /\ IF id = waveOutCount - 1
           THEN /\ waveOutCount' = top
                /\ waveOutBotCB' = marked[top].botCB
                /\ waveOutBotOOL' = marked[top].botOOL
                /\ waveOutTopOOL' = marked[top].topOOL
           ELSE UNCHANGED <<waveOutCount, waveOutBotCB, waveOutBotOOL, waveOutTopOOL>>
  BY DEF gpioWaveDelete
(* the records, but for the mark, stay as they were                        *)
<1>3. /\ DOMAIN marked = DOMAIN waveInfo /\ marked \in [DOMAIN waveInfo -> WaveRecords]
      /\ marked[id].deleted
      /\ \A i \in DOMAIN waveInfo : i # id => marked[i] = waveInfo[i]
      /\ \A i \in DOMAIN waveInfo :
           /\ marked[i].botCB = waveInfo[i].botCB /\ marked[i].numCB = waveInfo[i].numCB
           /\ marked[i].botOOL = waveInfo[i].botOOL /\ marked[i].numBOOL = waveInfo[i].numBOOL
           /\ marked[i].topOOL = waveInfo[i].topOOL /\ marked[i].numTOOL = waveInfo[i].numTOOL
           /\ marked[i].shape = waveInfo[i].shape
  <2> DEFINE r == [waveInfo[id] EXCEPT !.deleted = TRUE]
  <2>1. /\ r \in WaveRecords /\ r.deleted
        /\ r.botCB = waveInfo[id].botCB /\ r.numCB = waveInfo[id].numCB
        /\ r.botOOL = waveInfo[id].botOOL /\ r.numBOOL = waveInfo[id].numBOOL
        /\ r.topOOL = waveInfo[id].topOOL /\ r.numTOOL = waveInfo[id].numTOOL
        /\ r.shape = waveInfo[id].shape
    BY <1>1 DEF WaveRecords
  <2>2. marked = [waveInfo EXCEPT ![id] = r]
    OBVIOUS
  <2>3. waveInfo \in [DOMAIN waveInfo -> WaveRecords]
    BY <1>1 DEF Typed
  <2> HIDE DEF r, marked
  <2>4. QED  BY <1>1, <2>1, <2>2, <2>3
<1> HIDE DEF marked
(* what is given back                                                      *)
<1>4. ASSUME id = waveOutCount - 1
      PROVE  /\ top \in Ids /\ top <= id /\ top \in DOMAIN waveInfo
             /\ \A j \in top..id : marked[j].deleted
  <2> DEFINE T == {k \in 0..id : \A j \in k..id : marked[j].deleted}
  <2>1. id \in T /\ T \in SUBSET Nat
    BY <1>1, <1>3
  <2>2. PICK k \in T : \A m \in T : k <= m
    BY <2>1, LeastExists
  <2>3. Given(k)
    <3>1. ASSUME k > 0, marked[k - 1].deleted PROVE FALSE
      <4>1. k - 1 \in T
        BY <1>1, <3>1
      <4>2. QED  BY <2>1, <2>2, <4>1
    <3>2. QED  BY <3>1
  <2>4. top \in 0..id /\ Given(top)
    BY <2>3
  <2>5. QED  BY <1>1, <2>4 DEF Ids, Typed
<1>5. /\ Ids' \subseteq Ids /\ waveOutCount' \in 0..MaxCount
      /\ \A i \in Ids : i \notin Ids' => id = waveOutCount - 1 /\ i >= top /\ i <= id
      /\ id = waveOutCount - 1 => \A i \in Ids' : i < top
  <2>1. waveOutCount \in Nat /\ MaxCount \in Nat /\ waveOutCount <= MaxCount
    BY <1>1, WavesAssumption DEF Typed
  <2>2. CASE id = waveOutCount - 1
    <3>1. waveOutCount' = top /\ top \in Ids
      BY <1>2, <1>4, <2>2
    <3> HIDE DEF top
    <3>2. QED  BY <1>1, <2>1, <2>2, <3>1 DEF Ids
  <2>3. CASE id # waveOutCount - 1
    <3>1. waveOutCount' = waveOutCount
      BY <1>2, <2>3
    <3>2. QED  BY <2>1, <2>3, <3>1 DEF Ids
  <2>4. QED  BY <2>2, <2>3
<1> HIDE DEF top
<1>6. Live' = Live \ {id}
  <2>1. \A i \in Ids : i \notin Ids' => marked[i].deleted
    BY <1>1, <1>4, <1>5 DEF Ids, Typed
  <2>2. \A i \in Ids : i \in DOMAIN waveInfo
    BY <1>1 DEF Typed
  <2>3. QED  BY <1>2, <1>3, <1>5, <2>1, <2>2 DEF Live
<1>7. \A i \in Ids : i \in DOMAIN waveInfo /\ i \in Int
  BY <1>1 DEF Typed, Ids
<1>8. Typed'
  <2>1. DOMAIN waveInfo' \subseteq Nat /\ waveInfo' \in [DOMAIN waveInfo' -> WaveRecords]
    BY <1>1, <1>2, <1>3 DEF Typed
  <2>2. Ids' \subseteq DOMAIN waveInfo'
    BY <1>2, <1>3, <1>5, <1>7
  <2>3. /\ waveOutBotCB' \in 0..NUM_WAVE_CBS
        /\ waveOutBotOOL' \in Nat /\ waveOutTopOOL' \in Nat
        /\ waveOutBotOOL' <= waveOutTopOOL' /\ waveOutTopOOL' <= NUM_WAVE_OOL
    <3>1. CASE id = waveOutCount - 1
      <4>1. /\ waveInfo[top].botCB \in Nat /\ waveInfo[top].botOOL \in Nat
            /\ waveInfo[top].topOOL \in Nat /\ waveInfo[top].numCB \in Nat
            /\ waveInfo[top].numBOOL \in Nat /\ waveInfo[top].numTOOL \in Nat
        BY <1>1, <1>4, <3>1, RecordsTyped
      <4>2. /\ waveInfo[top].botCB + waveInfo[top].numCB <= waveOutBotCB
            /\ waveInfo[top].botOOL + waveInfo[top].numBOOL <= waveOutBotOOL
            /\ waveOutTopOOL + waveInfo[top].numTOOL <= waveInfo[top].topOOL
            /\ waveInfo[top].topOOL <= NUM_WAVE_OOL
        BY <1>1, <1>4, <3>1 DEF Placed, Within
      <4>3. /\ waveOutBotCB' = waveInfo[top].botCB
            /\ waveOutBotOOL' = waveInfo[top].botOOL
            /\ waveOutTopOOL' = waveInfo[top].topOOL
        BY <1>2, <1>3, <1>4, <3>1
      <4>4. QED  BY <1>1, <4>1, <4>2, <4>3, WavesAssumption DEF Typed
    <3>2. CASE id # waveOutCount - 1
      BY <1>1, <1>2, <3>2 DEF Typed
    <3>3. QED  BY <3>1, <3>2
  <2>4. waveGone' \in BOOLEAN
    BY <1>2
  <2>5. QED  BY <1>1, <1>2, <1>5, <2>1, <2>2, <2>3, <2>4 DEF Typed
<1>9. Placed'
  <2>1. ASSUME NEW i \in Ids', NEW j \in Ids', i < j
        PROVE  Before(waveInfo'[i], waveInfo'[j])
    <3>1. i \in Ids /\ j \in Ids
      BY <1>5
    <3>2. Before(waveInfo[i], waveInfo[j])
      BY <1>1, <2>1, <3>1 DEF Placed
    <3>3. QED  BY <1>2, <1>3, <1>7, <3>1, <3>2 DEF Before
  <2>2. ASSUME NEW i \in Ids'
        PROVE  Within(waveInfo'[i], waveOutBotCB', waveOutBotOOL', waveOutTopOOL')
    <3>1. i \in Ids
      BY <1>5
    <3>2. Within(waveInfo[i], waveOutBotCB, waveOutBotOOL, waveOutTopOOL)
      BY <1>1, <3>1 DEF Placed
    <3>3. Within(waveInfo'[i], waveOutBotCB, waveOutBotOOL, waveOutTopOOL)
      BY <1>2, <1>3, <1>7, <3>1, <3>2 DEF Within
    <3>4. CASE id = waveOutCount - 1
      <4>1. i < top
        BY <1>5, <3>4
      <4>2. Before(waveInfo[i], waveInfo[top])
        BY <1>1, <1>4, <3>1, <3>4, <4>1 DEF Placed
      <4>3. /\ waveOutBotCB' = waveInfo[top].botCB
            /\ waveOutBotOOL' = waveInfo[top].botOOL
            /\ waveOutTopOOL' = waveInfo[top].topOOL
        BY <1>2, <1>3, <1>4, <3>4
      <4>4. Before(waveInfo'[i], waveInfo[top])
        BY <1>2, <1>3, <1>7, <3>1, <4>2 DEF Before
      <4>5. QED  BY <3>3, <4>3, <4>4 DEF Before, Within
    <3>5. CASE id # waveOutCount - 1
      BY <1>2, <3>3, <3>5
    <3>6. QED  BY <3>4, <3>5
  <2>3. QED  BY <2>1, <2>2 DEF Placed
<1>10. ASSUME ~waveGone' PROVE AllLinked' /\ EndsLive' /\ AheadLive'
  <2>1. /\ ~waveGone /\ waveEndPtr # TopCB(waveInfo[id])
        /\ Ahead \intersect Block(waveInfo[id]) = {}
    BY <1>2, <1>10
  <2>2. AllLinked /\ EndsLive /\ AheadLive
    BY <2>1 DEF IInv, Sound
  <2>3. \A i \in Live' : i \in Live /\ i # id /\ waveInfo'[i] = waveInfo[i]
    BY <1>2, <1>3, <1>6, <1>7 DEF Live
  <2>4. \A i \in Live : i # id => i \in Live' /\ waveInfo'[i] = waveInfo[i]
    BY <1>2, <1>3, <1>6, <1>7 DEF Live
  <2>5. AllLinked'
    BY <1>2, <2>2, <2>3 DEF AllLinked
  <2>6. EndsLive'
    BY <1>2, <2>1, <2>2, <2>4 DEF EndsLive
  <2>7. Ahead' = Ahead
    BY <1>2 DEF Ahead, Closed
  <2>8. ASSUME NEW c \in Ahead PROVE \E i \in Live' : c \in Block(waveInfo'[i])
    <3>1. PICK i \in Live : c \in Block(waveInfo[i])
      BY <2>2 DEF AheadLive
    <3>2. i # id
      BY <2>1, <3>1
    <3>3. QED  BY <2>4, <3>1, <3>2
  <2>9. AheadLive'
    BY <2>7, <2>8 DEF AheadLive
  <2>10. QED  BY <2>5, <2>6, <2>9
<1>11. QED  BY <1>8, <1>9, <1>10 DEF IInv, Sound

(***************************************************************************)
(* Creating: the block of a deleted waveform of the same size, or the next *)
(* that was never given out                                                *)
(***************************************************************************)
LEMMA CreateStep ==
  ASSUME IInv, NEW n \in Needs, NEW padded \in BOOLEAN,
         wf.cb <= n.cb, padded \/ wf.cb = n.cb,
         waveOutCount < MaxCount, Create(n, padded)
  PROVE  IInv'
<1> DEFINE fresh == [botCB |-> waveOutBotCB, botOOL |-> waveOutBotOOL, topOOL |-> waveOutTopOOL,
                     numCB |-> n.cb, numBOOL |-> n.bool, numTOOL |-> n.tool,
                     deleted |-> FALSE, shape |-> wf]
           used == [waveInfo[Reused(n)] EXCEPT !.deleted = FALSE, !.shape = wf]
           w == IF Fits(n) # {} THEN used ELSE fresh
           id == IF Fits(n) # {} THEN Reused(n) ELSE waveOutCount
<1>1. /\ Typed /\ Placed /\ wf # NoShape
      /\ IF Fits(n) # {}
           THEN /\ waveInfo' = [waveInfo EXCEPT ![Reused(n)] = w]
                /\ UNCHANGED <<waveOutCount, waveOutBotCB, waveOutBotOOL, waveOutTopOOL>>
           ELSE /\ Spare(n)
                /\ waveInfo' = [i \in DOMAIN waveInfo \union {waveOutCount} |->
                                  IF i = waveOutCount THEN w ELSE waveInfo[i]]
                /\ waveOutCount' = waveOutCount + 1
                /\ waveOutBotCB' = waveOutBotCB + n.cb
                /\ waveOutBotOOL' = waveOutBotOOL + n.bool
                /\ waveOutTopOOL' = waveOutTopOOL - n.tool
      /\ mem' = wave2Cbs(w.botCB, wf, n.cb, padded)
      /\ wf' = NoShape
      /\ UNCHANGED <<waveEndPtr, txDma, waveGone>>
  BY DEF Create, IInv
<1>2. /\ wf \in Needs /\ wf.cb \in Nat /\ wf.cb > 1
      /\ n.cb \in Nat /\ n.bool \in Nat /\ n.tool \in Nat
  BY <1>1, WavesAssumption DEF Typed, Needs
<1>3. \A i \in Ids : i \in DOMAIN waveInfo /\ i \in Nat
  BY <1>1 DEF Typed, Ids
(* either way w is the record of the new waveform                          *)
<1>4. ASSUME Fits(n) # {}
      PROVE  /\ id \in Ids /\ id \in DOMAIN waveInfo
             /\ waveInfo[id].deleted /\ waveInfo[id].numCB = n.cb
             /\ w \in WaveRecords /\ ~w.deleted /\ w.shape = wf
             /\ w.botCB = waveInfo[id].botCB /\ w.numCB = waveInfo[id].numCB
             /\ w.botOOL = waveInfo[id].botOOL /\ w.numBOOL = waveInfo[id].numBOOL
             /\ w.topOOL = waveInfo[id].topOOL /\ w.numTOOL = waveInfo[id].numTOOL
  <2>1. Fits(n) \in SUBSET Nat
    BY <1>3 DEF Fits
  <2>2. \E i \in Fits(n) : \A j \in Fits(n) : i <= j
    BY <1>4, <2>1, LeastExists
  <2>3. Reused(n) \in Fits(n)
    BY <2>2 DEF Reused
  <2>4. /\ id = Reused(n) /\ id \in Ids /\ id \in DOMAIN waveInfo
        /\ waveInfo[id].deleted /\ waveInfo[id].numCB = n.cb
    BY <1>3, <1>4, <2>3 DEF Fits
  <2>5. waveInfo[id] \in WaveRecords
    BY <1>1, <2>4, RecordsTyped
  <2>6. w = [waveInfo[id] EXCEPT !.deleted = FALSE, !.shape = wf]
    BY <1>4
  <2> HIDE DEF w, id
  <2>7. QED  BY <1>2, <2>4, <2>5, <2>6 DEF WaveRecords
<1>5. ASSUME Fits(n) = {}
      PROVE  /\ id = waveOutCount
             /\ w \in WaveRecords /\ ~w.deleted /\ w.shape = wf
             /\ w.botCB = waveOutBotCB /\ w.numCB = n.cb
             /\ w.botOOL = waveOutBotOOL /\ w.numBOOL = n.bool
             /\ w.topOOL = waveOutTopOOL /\ w.numTOOL = n.tool
             /\ n.cb + waveOutBotCB <= NUM_WAVE_CBS
             /\ n.bool + waveOutBotOOL <= waveOutTopOOL - n.tool
  <2>1. w = fresh /\ id = waveOutCount
    BY <1>5
  <2>2. fresh \in WaveRecords
    BY <1>1, <1>2 DEF WaveRecords, Typed
  <2>3. Spare(n)
    BY <1>1, <1>5
  <2>4. QED  BY <2>1, <2>2, <2>3 DEF Spare
<1>6. id \in Nat /\ id \notin Live
  BY <1>1, <1>3, <1>4, <1>5 DEF Live, Typed, Ids
<1>7. /\ DOMAIN waveInfo' = DOMAIN waveInfo \union {id}
      /\ waveInfo' \in [DOMAIN waveInfo \union {id} -> WaveRecords]
      /\ waveInfo'[id] = w
      /\ \A i \in DOMAIN waveInfo : i # id => waveInfo'[i] = waveInfo[i]
  <2>1. waveInfo \in [DOMAIN waveInfo -> WaveRecords]
    BY <1>1 DEF Typed
  <2>2. CASE Fits(n) # {}
    <3>1. waveInfo' = [waveInfo EXCEPT ![id] = w]
      BY <1>1, <2>2
    <3>2. id \in DOMAIN waveInfo /\ w \in WaveRecords
      BY <1>4, <2>2
    <3> HIDE DEF w, id
    <3>3. QED  BY <2>1, <3>1, <3>2
  <2>3. CASE Fits(n) = {}
    <3>1. waveInfo' = [i \in DOMAIN waveInfo \union {id} |-> IF i = id THEN w ELSE waveInfo[i]]
      BY <1>1, <2>3
    <3>2. w \in WaveRecords
      BY <1>5, <2>3
    <3> HIDE DEF w, id
    <3>3. QED  BY <2>1, <3>1, <3>2
  <2>4. QED  BY <2>2, <2>3
<1>8. /\ waveOutCount' \in 0..MaxCount /\ Ids' = Ids \union {id}
      /\ waveOutBotCB' \in 0..NUM_WAVE_CBS /\ waveOutBotCB <= waveOutBotCB'
      /\ waveOutBotOOL' \in Nat /\ waveOutBotOOL <= waveOutBotOOL'
      /\ waveOutTopOOL' \in Nat /\ waveOutTopOOL' <= waveOutTopOOL
      /\ waveOutBotOOL' <= waveOutTopOOL'
  <2>1. CASE Fits(n) # {}
    BY <1>1, <1>4, <2>1 DEF Typed, Ids
  <2>2. CASE Fits(n) = {}
    <3>1. /\ waveOutCount' = waveOutCount + 1 /\ id = waveOutCount
          /\ waveOutBotCB' = waveOutBotCB + n.cb
          /\ waveOutBotOOL' = waveOutBotOOL + n.bool
          /\ waveOutTopOOL' = waveOutTopOOL - n.tool
          /\ n.cb + waveOutBotCB <= NUM_WAVE_CBS
          /\ n.bool + waveOutBotOOL <= waveOutTopOOL - n.tool
      BY <1>1, <1>5, <2>2
    <3>2. /\ waveOutCount \in Nat /\ MaxCount \in Nat /\ waveOutBotCB \in Nat
          /\ NUM_WAVE_CBS \in Nat /\ waveOutBotOOL \in Nat /\ waveOutTopOOL \in Nat
      BY <1>1, WavesAssumption DEF Typed
    <3>3. Ids' = Ids \union {id}
      BY <3>1, <3>2 DEF Ids
    <3> HIDE DEF id
    <3>4. QED  BY <1>2, <3>1, <3>2, <3>3
  <2>3. QED  BY <2>1, <2>2
<1> HIDE DEF w, id, fresh, used
<1>9. /\ w.botCB \in Nat /\ w.numCB \in Nat /\ w.numCB = n.cb /\ w.shape = wf /\ ~w.deleted
      /\ w.botOOL \in Nat /\ w.numBOOL \in Nat /\ w.topOOL \in Nat /\ w.numTOOL \in Nat
      /\ w \in WaveRecords
  BY <1>4, <1>5 DEF WaveRecords
<1>10. Within(w, waveOutBotCB', waveOutBotOOL', waveOutTopOOL')
  <2>1. CASE Fits(n) # {}
    <3>1. Within(waveInfo[id], waveOutBotCB, waveOutBotOOL, waveOutTopOOL)
      BY <1>1, <1>4, <2>1 DEF Placed
    <3>2. QED  BY <1>1, <1>2, <1>4, <1>9, <2>1, <3>1 DEF Within
  <2>2. CASE Fits(n) = {}
    BY <1>1, <1>2, <1>5, <1>9, <2>2, WavesAssumption DEF Within, Typed
  <2>3. QED  BY <2>1, <2>2
(* it lies apart from every other waveform                                 *)
<1>11. ASSUME NEW i \in Ids, i # id
       PROVE  /\ i < id => Before(waveInfo[i], w)
              /\ id < i => Before(w, waveInfo[i])
              /\ i < id \/ id < i
  <2>1. CASE Fits(n) # {}
    <3>1. id \in Ids
      BY <1>4, <2>1
    <3>2. /\ i < id => Before(waveInfo[i], waveInfo[id])
          /\ id < i => Before(waveInfo[id], waveInfo[i])
      BY <1>1, <3>1 DEF Placed
    <3>3. QED  BY <1>3, <1>4, <1>6, <1>11, <2>1, <3>2 DEF Before
  <2>2. CASE Fits(n) = {}
    <3>1. Within(waveInfo[i], waveOutBotCB, waveOutBotOOL, waveOutTopOOL)
      BY <1>1 DEF Placed
    <3>2. i < id /\ i \in Nat
      BY <1>1, <1>5, <2>2 DEF Ids, Typed
    <3>3. Before(waveInfo[i], w)
      BY <1>5, <2>2, <3>1 DEF Within, Before
    <3>4. QED  BY <1>6, <3>2, <3>3
  <2>3. QED  BY <2>1, <2>2
<1>12. ASSUME NEW i \in Ids, i # id
       PROVE  Block(waveInfo[i]) \intersect Block(w) = {}
  <2>1. waveInfo[i].botCB \in Nat /\ waveInfo[i].numCB \in Nat
    BY <1>1, <1>3, RecordsTyped
  <2>2. \/ waveInfo[i].botCB + waveInfo[i].numCB <= w.botCB
        \/ w.botCB + w.numCB <= waveInfo[i].botCB
    BY <1>11, <1>12 DEF Before
  <2>3. QED  BY <1>9, <2>1, <2>2 DEF Block, TopCB
<1>13. Typed'
  <2>1. mem' \in [CBs -> [step : Nat, next : Links]]
    <3>1. ASSUME NEW c \in CBs
          PROVE  mem'[c] \in [step : Nat, next : Links]
      <4>1. mem[c] \in [step : Nat, next : Links]
        BY <1>1 DEF Typed
      <4>2. w.botCB + n.cb <= NUM_WAVE_CBS /\ c \in Int /\ NUM_WAVE_CBS \in Nat
        BY <1>8, <1>9, <1>10, WavesAssumption DEF Within, CBs
      <4>3. CASE padded /\ c = w.botCB + n.cb - 1
        BY <1>1, <4>3 DEF wave2Cbs, Links
      <4>4. CASE /\ c \in w.botCB..(w.botCB + wf.cb - 1)
                 /\ ~(padded /\ c = w.botCB + n.cb - 1)
        <5> DEFINE to == IF c < w.botCB + wf.cb - 1 THEN c + 1
                         ELSE IF padded THEN w.botCB + n.cb - 1 ELSE Null
        <5>1. mem'[c] = [step |-> c - w.botCB + 1, next |-> to]
          BY <1>1, <4>4 DEF wave2Cbs
        <5>2. to \in Links
          BY <1>2, <1>9, <4>2, <4>4 DEF Links, CBs
        <5>3. c - w.botCB + 1 \in Nat
          BY <1>2, <1>9, <4>2, <4>4
        <5> HIDE DEF to
        <5>4. QED  BY <5>1, <5>2, <5>3
      <4>5. CASE /\ ~(padded /\ c = w.botCB + n.cb - 1)
                 /\ c \notin w.botCB..(w.botCB + wf.cb - 1)
        BY <1>1, <4>1, <4>5 DEF wave2Cbs
      <4>6. QED  BY <4>3, <4>4, <4>5
    <3>2. mem' = [c \in CBs |-> mem'[c]]
      BY <1>1 DEF wave2Cbs
    <3>3. QED  BY <3>1, <3>2
  <2>2. wf' \in Shapes \union {NoShape}
    BY <1>1
  <2>3. Ids' \subseteq DOMAIN waveInfo' /\ DOMAIN waveInfo' \subseteq Nat
    BY <1>1, <1>3, <1>6, <1>7, <1>8 DEF Typed
  <2>4. waveInfo' \in [DOMAIN waveInfo' -> WaveRecords]
    BY <1>7
  <2>5. waveOutTopOOL' <= NUM_WAVE_OOL
    BY <1>1, <1>8, WavesAssumption DEF Typed
  <2>6. waveEndPtr' \in Links /\ txDma' \in [cb : Links, next : Links] /\ waveGone' \in BOOLEAN
    BY <1>1 DEF Typed
  <2>7. QED  BY <1>8, <2>1, <2>2, <2>3, <2>4, <2>5, <2>6 DEF Typed
<1>14. Placed'
  <2>1. ASSUME NEW i \in Ids'
        PROVE  Within(waveInfo'[i], waveOutBotCB', waveOutBotOOL', waveOutTopOOL')
    <3>1. CASE i = id
      BY <1>7, <1>10, <3>1
    <3>2. CASE i # id
      <4>1. i \in Ids /\ i \in DOMAIN waveInfo /\ waveInfo'[i] = waveInfo[i]
        BY <1>3, <1>7, <1>8, <3>2
      <4>2. Within(waveInfo[i], waveOutBotCB, waveOutBotOOL, waveOutTopOOL)
        BY <1>1, <4>1 DEF Placed
      <4>3. /\ waveInfo[i].botCB \in Nat /\ waveInfo[i].numCB \in Nat
            /\ waveInfo[i].botOOL \in Nat /\ waveInfo[i].numBOOL \in Nat
            /\ waveInfo[i].topOOL \in Nat /\ waveInfo[i].numTOOL \in Nat
        BY <1>1, <4>1, RecordsTyped
      <4>4. QED  BY <1>1, <1>8, <4>1, <4>2, <4>3 DEF Within, Typed
    <3>3. QED  BY <3>1, <3>2
  <2>2. ASSUME NEW i \in Ids', NEW j \in Ids', i < j
        PROVE  Before(waveInfo'[i], waveInfo'[j])
    <3>0. i # j /\ \A k \in Ids' : k # id => k \in Ids /\ waveInfo'[k] = waveInfo[k]
      BY <1>3, <1>6, <1>7, <1>8, <2>2
    <3>1. CASE i = id
      BY <1>7, <1>11, <2>2, <3>0, <3>1
    <3>2. CASE j = id
      BY <1>7, <1>11, <2>2, <3>0, <3>2
    <3>3. CASE i # id /\ j # id
      BY <1>1, <2>2, <3>0, <3>3 DEF Placed
    <3>4. QED  BY <3>1, <3>2, <3>3
  <2>3. QED  BY <2>1, <2>2 DEF Placed
<1>15. ASSUME ~waveGone' PROVE AllLinked' /\ EndsLive' /\ AheadLive'
  <2>1. AllLinked /\ EndsLive /\ AheadLive
    BY <1>1, <1>15 DEF IInv, Sound
  <2>2. /\ Live' = Live \union {id}
        /\ \A i \in Live : i \in Ids /\ i # id /\ i \in Live' /\ waveInfo'[i] = waveInfo[i]
    BY <1>3, <1>6, <1>7, <1>8, <1>9 DEF Live
  <2>3. \A c \in CBs : c \notin Block(w) => mem'[c] = mem[c]
    <3> SUFFICES ASSUME NEW c \in CBs, c \notin Block(w) PROVE mem'[c] = mem[c]
      OBVIOUS
    <3>1. c \in Int /\ c # w.botCB + n.cb - 1 /\ c \notin w.botCB..(w.botCB + wf.cb - 1)
      BY <1>2, <1>9 DEF Block, TopCB, CBs
    <3>2. QED  BY <1>1, <3>1 DEF wave2Cbs
  <2>4. \A i \in Live : Linked(waveInfo[i], mem')
    <3> SUFFICES ASSUME NEW i \in Live, NEW c \in Steps(waveInfo[i]) PROVE mem'[c] = mem[c]
      BY <2>1 DEF AllLinked, Linked
    <3>1. c \in Block(waveInfo[i]) /\ c \in CBs
      BY <1>1, <2>2, BlocksAreCBs
    <3>2. QED  BY <1>12, <2>2, <2>3, <3>1
  <2>5. Linked(w, mem')
    <3> SUFFICES ASSUME NEW c \in Steps(w)
                 PROVE  /\ c # TopCB(w) =>
                             /\ mem'[c].step = c - w.botCB + 1
                             /\ mem'[c].next = IF c < w.botCB + w.shape.cb - 1 THEN c + 1
                                               ELSE TopCB(w)
                        /\ c = TopCB(w) => mem'[c].step \in {0, w.shape.cb}
      BY DEF Linked
    <3>1. /\ c \in w.botCB..(w.botCB + wf.cb - 1) /\ TopCB(w) = w.botCB + n.cb - 1
          /\ w.shape.cb = wf.cb
      BY <1>9 DEF Steps, TopCB
    <3>2. c \in CBs
      BY <1>2, <1>8, <1>9, <1>10, <3>1, WavesAssumption DEF Within, CBs
    <3>3. CASE padded /\ c = TopCB(w)
      <4>1. mem'[c] = [step |-> 0, next |-> Null]
        BY <1>1, <3>1, <3>2, <3>3 DEF wave2Cbs
      <4>2. QED  BY <3>3, <4>1
    <3>4. CASE ~(padded /\ c = TopCB(w))
      <4>1. mem'[c] = [step |-> c - w.botCB + 1,
                       next |-> IF c < w.botCB + wf.cb - 1 THEN c + 1
                                ELSE IF padded THEN TopCB(w) ELSE Null]
        BY <1>1, <3>1, <3>2, <3>4 DEF wave2Cbs
      <4>2. c = TopCB(w) => c - w.botCB + 1 = wf.cb
        BY <1>2, <1>9, <3>1
      <4>3. ~padded => wf.cb = n.cb
        OBVIOUS
      <4>4. c # TopCB(w) /\ ~(c < w.botCB + wf.cb - 1) => padded
        BY <1>2, <1>9, <3>1, <4>3
      <4>5. QED  BY <3>1, <4>1, <4>2, <4>4
    <3>5. QED  BY <3>3, <3>4
  <2>6. AllLinked'
    <3>1. \A i \in Live' : Linked(waveInfo'[i], mem')
      BY <1>7, <2>2, <2>4, <2>5
    <3>2. QED  BY <3>1 DEF AllLinked, Linked
  <2>7. EndsLive'
    BY <1>1, <2>1, <2>2 DEF EndsLive
  <2>8. \A c \in Ahead : c \notin Block(w) /\ c \in CBs
    BY <1>1, <1>12, <2>1, <2>2, AheadClosed DEF AheadLive
  <2>9. Ahead' \subseteq Ahead
    <3>1. \A c \in Ahead : mem'[c].next \in Ahead \union {Null}
      BY <1>1, <2>3, <2>8, AheadClosed
    <3>2. txDma'.cb \in Ahead \union {Null} /\ txDma'.next \in Ahead \union {Null}
      BY <1>1, AheadClosed
    <3>3. Ahead \in SUBSET CBs
      BY <2>8
    <3>4. QED  BY <3>1, <3>2, <3>3, AheadLeast
  <2>10. AheadLive'
    BY <2>1, <2>2, <2>9 DEF AheadLive
  <2>11. QED  BY <2>6, <2>7, <2>10
<1>16. QED  BY <1>13, <1>14, <1>15 DEF IInv, Sound

LEMMA WavesStep == IInv /\ [WavesNext]_wavesVars => IInv'
<1> SUFFICES ASSUME IInv, [WavesNext]_wavesVars PROVE IInv'
  OBVIOUS
<1>0. wf \in Shapes \union {NoShape}
  BY DEF IInv, Typed
<1>1. CASE WaveAdd
  BY <1>1, NothingMoves DEF WaveAdd
<1>2. CASE gpioWaveAddNew
  BY <1>2, NothingMoves DEF gpioWaveAddNew
<1>3. CASE gpioWaveClear
  BY <1>3, ClearStep
<1>4. CASE gpioWaveTxStop
  BY <1>4, StopStep
<1>5. CASE DmaStep
  BY <1>5, DmaPlays
<1>6. CASE waveOutCount < MaxCount /\ gpioWaveCreate
  <2>1. wf \in Needs /\ wf.cb <= wf.cb /\ Create(wf, FALSE)
    BY <1>0, <1>6, WavesAssumption DEF gpioWaveCreate, Create, Needs
  <2>2. QED  BY <1>6, <2>1, CreateStep
<1>7. CASE waveOutCount < MaxCount /\ \E n \in PadSizes : gpioWaveCreatePad(n)
  <2>1. PICK n \in PadSizes : gpioWaveCreatePad(n)
    BY <1>7
  <2>2. n \in Needs /\ wf.cb <= n.cb /\ Create(n, TRUE)
    BY <2>1, WavesAssumption DEF gpioWaveCreatePad
  <2>3. QED  BY <1>7, <2>2, CreateStep
<1>8. CASE \E id \in Ids : gpioWaveDelete(id)
  BY <1>8, DeleteStep
<1>9. CASE \E id \in Ids, repeat, sync \in BOOLEAN : gpioWaveTxSend(id, repeat, sync)
  BY <1>9, SendStep
<1>10. CASE UNCHANGED wavesVars
  BY <1>0, <1>10, NothingMoves DEF wavesVars, waveBlocks
<1>11. QED
  BY <1>1, <1>2, <1>3, <1>4, <1>5, <1>6, <1>7, <1>8, <1>9, <1>10 DEF WavesNext

(* Waveforms lie apart and whole, and the DMA engine plays only waveforms  *)
(* that were not given back: gpioWaveCreate, gpioWaveCreatePad,            *)
(* gpioWaveDelete, gpioWaveClear and gpioWaveTxSend in any order, for any  *)
(* memory and any waveforms, until one on the air is deleted or cleared.   *)
THEOREM WavesKeptAlways == WavesSpec => []WavesKept
<1>1. WavesInit => IInv
  BY WavesBegin
<1>2. IInv /\ [WavesNext]_wavesVars => IInv'
  BY WavesStep
<1>3. IInv => WavesKept
  BY KeptByInvariant
<1>4. QED  BY <1>1, <1>2, <1>3, PTL DEF WavesSpec

(***************************************************************************)
(* Handles: whom the slots and the descriptors belong to                   *)
(***************************************************************************)
SlotRecords == [state : {CLOSED, RESERVED, OPENED}, fd : Descriptors \cup {NoFd}]
CallPlaces == {"idle", "opening", "retrying", "configuring", "recording", "publishing",
               "closing", "forgetting", "freeing", "using"}
CallRecords == [at : CallPlaces, handle : Handle \cup {Nobody}, fd : Descriptors \cup {NoFd}]

(* places in a call: its slot is reserved; being closed; the descriptor is *)
(* in the call's hands, in the slot, or nowhere                            *)
Building == {"opening", "retrying", "configuring", "recording", "publishing"}
Closing  == {"closing", "forgetting", "freeing"}
InHand   == {"configuring", "recording"}
InSlot   == {"publishing", "closing"}
Nowhere  == {"opening", "retrying", "forgetting", "freeing"}

CallsHold ==
  \A c \in Callers :
    /\ call[c].at # "idle" => call[c].handle \in Handle
    /\ call[c].at \in Building => table[call[c].handle].state = RESERVED
    /\ call[c].at \in Closing => /\ table[call[c].handle].state = OPENED
                                 /\ \A d \in Callers : call[c].handle \notin mine[d]
    /\ call[c].at \in InHand => call[c].fd \in Descriptors /\ files[call[c].fd] = call[c].handle
    /\ call[c].at \notin InHand => call[c].fd = NoFd
    /\ call[c].at \in InSlot => /\ table[call[c].handle].fd \in Descriptors
                                /\ files[table[call[c].handle].fd] = call[c].handle
    /\ call[c].at \in Nowhere => \A d \in Descriptors : files[d] # call[c].handle

CallsApart ==
  \A c, d \in Callers : /\ c # d
                        /\ call[c].at \in Building \cup Closing
                        /\ call[d].at \in Building \cup Closing
                        => call[c].handle # call[d].handle

OneDescriptorEach ==
  \A d, e \in Descriptors : files[d] # Nobody /\ files[d] = files[e] => d = e

HandlesInv == HandlesKept /\ CallsHold /\ CallsApart /\ OneDescriptorEach

LEMMA HandlesApart ==
  /\ Nobody \notin Handle /\ NoFd \notin Descriptors
  /\ CLOSED # RESERVED /\ CLOSED # OPENED /\ RESERVED # OPENED
<1>1. Nobody \notin Handle
  BY HandlesAssumption DEF Nobody, Handle
<1>2. NoFd \notin Descriptors
  BY HandlesAssumption DEF NoFd
<1> QED
  BY <1>1, <1>2 DEF CLOSED, RESERVED, OPENED

(* One entry of a table is set.                                            *)
TableSet(h, state, fd) ==
  /\ table' \in [Handle -> SlotRecords] /\ table'[h].state = state /\ table'[h].fd = fd
  /\ \A g \in Handle : g # h => table'[g] = table[g]
FileSet(d, h) ==
  /\ files' \in [Descriptors -> Handle \cup {Nobody}] /\ files'[d] = h
  /\ \A e \in Descriptors : e # d => files'[e] = files[e]
CallSet(c, place, h, fd) ==
  /\ call' \in [Callers -> CallRecords]
  /\ call'[c].at = place /\ call'[c].handle = h /\ call'[c].fd = fd
  /\ \A d \in Callers : d # c => call'[d] = call[d]

LEMMA StateAt ==
  ASSUME HandlesTypeOK, NEW h \in Handle, NEW state \in {CLOSED, RESERVED, OPENED},
         table' = [table EXCEPT ![h].state = state]
  PROVE  TableSet(h, state, table[h].fd)
<1> DEFINE r == [table[h] EXCEPT !.state = state]
<1>1. table \in [Handle -> SlotRecords]
  BY DEF HandlesTypeOK, SlotRecords
<1>2. r \in SlotRecords /\ r.state = state /\ r.fd = table[h].fd
  BY <1>1 DEF SlotRecords
<1>3. table' = [table EXCEPT ![h] = r]
  OBVIOUS
<1> HIDE DEF r
<1> QED
  BY <1>1, <1>2, <1>3 DEF TableSet
LEMMA FdAt ==
  ASSUME HandlesTypeOK, NEW h \in Handle, NEW fd \in Descriptors \cup {NoFd},
         table' = [table EXCEPT ![h].fd = fd]
  PROVE  TableSet(h, table[h].state, fd)
<1> DEFINE r == [table[h] EXCEPT !.fd = fd]
<1>1. table \in [Handle -> SlotRecords]
  BY DEF HandlesTypeOK, SlotRecords
<1>2. r \in SlotRecords /\ r.state = table[h].state /\ r.fd = fd
  BY <1>1 DEF SlotRecords
<1>3. table' = [table EXCEPT ![h] = r]
  OBVIOUS
<1> HIDE DEF r
<1> QED
  BY <1>1, <1>2, <1>3 DEF TableSet
LEMMA FileAt ==
  ASSUME HandlesTypeOK, NEW d \in Descriptors, NEW h \in Handle \cup {Nobody},
         files' = [files EXCEPT ![d] = h]
  PROVE  FileSet(d, h)
BY DEF HandlesTypeOK, FileSet
LEMMA CallAt ==
  ASSUME HandlesTypeOK, NEW c \in Callers, NEW r \in CallRecords, call' = [call EXCEPT ![c] = r]
  PROVE  CallSet(c, r.at, r.handle, r.fd)
BY DEF HandlesTypeOK, CallRecords, CallPlaces, CallSet
LEMMA CallEnds ==
  ASSUME HandlesTypeOK, NEW c \in Callers, call' = [call EXCEPT ![c] = NoCall]
  PROVE  CallSet(c, "idle", Nobody, NoFd)
<1>1. NoCall \in CallRecords /\ NoCall.at = "idle" /\ NoCall.handle = Nobody /\ NoCall.fd = NoFd
  BY DEF NoCall, CallRecords, CallPlaces
<1> QED
  BY <1>1, CallAt
LEMMA CallBegins ==
  ASSUME HandlesTypeOK, NEW c \in Callers, NEW h \in Handle, NEW place \in CallPlaces,
         call' = [call EXCEPT ![c] = [at |-> place, handle |-> h, fd |-> NoFd]]
  PROVE  CallSet(c, place, h, NoFd)
<1> DEFINE r == [at |-> place, handle |-> h, fd |-> NoFd]
<1>1. r \in CallRecords /\ r.at = place /\ r.handle = h /\ r.fd = NoFd
  BY DEF CallRecords
<1> HIDE DEF r
<1> QED
  BY <1>1, CallAt DEF r
LEMMA CallGoesOn ==
  ASSUME HandlesTypeOK, NEW c \in Callers, NEW place \in CallPlaces,
         call' = [call EXCEPT ![c].at = place]
  PROVE  CallSet(c, place, call[c].handle, call[c].fd)
<1> DEFINE r == [call[c] EXCEPT !.at = place]
<1>1. call[c] \in CallRecords
  BY DEF HandlesTypeOK, CallRecords, CallPlaces
<1>2. r \in CallRecords /\ r.at = place /\ r.handle = call[c].handle /\ r.fd = call[c].fd
  BY <1>1 DEF CallRecords
<1>3. call' = [call EXCEPT ![c] = r]
  OBVIOUS
<1> HIDE DEF r
<1> QED
  BY <1>2, <1>3, CallAt
LEMMA CallTakes ==
  ASSUME HandlesTypeOK, NEW c \in Callers, NEW place \in CallPlaces,
         NEW fd \in Descriptors \cup {NoFd},
         call' = [call EXCEPT ![c].at = place, ![c].fd = fd]
  PROVE  CallSet(c, place, call[c].handle, fd)
<1> DEFINE r == [call[c] EXCEPT !.at = place, !.fd = fd]
<1>1. call[c] \in CallRecords
  BY DEF HandlesTypeOK, CallRecords, CallPlaces
<1>2. r \in CallRecords /\ r.at = place /\ r.handle = call[c].handle /\ r.fd = fd
  BY <1>1 DEF CallRecords
<1>3. call' = [call EXCEPT ![c] = r]
  OBVIOUS
<1> HIDE DEF r
<1> QED
  BY <1>2, <1>3, CallAt

LEMMA HandlesBegin == HandlesInit => HandlesInv
<1> SUFFICES ASSUME HandlesInit PROVE HandlesInv
  OBVIOUS
<1>1. HandlesTypeOK
  BY DEF HandlesInit, HandlesTypeOK, NoCall
<1>2. /\ \A c \in Callers : call[c].at = "idle" /\ call[c].fd = NoFd /\ mine[c] = {}
      /\ \A d \in Descriptors : files[d] = Nobody
  BY DEF HandlesInit, NoCall
<1> QED
  BY <1>1, <1>2 DEF HandlesInv, HandlesKept, HandlesReachTheirFiles, NoDescriptorLost, CallsHold,
     CallsApart, OneDescriptorEach, Building, Closing, InHand, InSlot, Nowhere

LEMMA ReserveKeeps ==
  ASSUME HandlesInv, NEW c \in Callers, NEW k \in Kinds, NEW i \in 0 .. SlotsPerKind - 1, call[c] = NoCall, i \in ClosedSlots(k),
         table' = [table EXCEPT ![<<k, i>>].state = RESERVED],
         call' = [call EXCEPT ![c] = [at |-> "opening", handle |-> <<k, i>>, fd |-> NoFd]],
         UNCHANGED <<files, mine>>
  PROVE  HandlesInv'
<1>t. HandlesTypeOK
  BY DEF HandlesInv, HandlesKept
<1>h. call[c].at # "idle" => call[c].handle \in Handle
  BY DEF HandlesInv, CallsHold
<1>1. /\ call[c].at = "idle" /\ files' = files /\ mine' = mine
      /\ <<k, i>> \in Handle /\ table[<<k, i>>].state = CLOSED
      /\ TableSet(<<k, i>>, RESERVED, table[<<k, i>>].fd)
      /\ CallSet(c, "opening", <<k, i>>, NoFd)
  <2>1. call[c].at = "idle" /\ files' = files /\ mine' = mine
    BY DEF NoCall
  <2>2. <<k, i>> \in Handle /\ table[<<k, i>>].state = CLOSED
    BY DEF Handle, ClosedSlots
  <2>3. TableSet(<<k, i>>, RESERVED, table[<<k, i>>].fd)
    BY <1>t, <2>2, StateAt
  <2>4. CallSet(c, "opening", <<k, i>>, NoFd)
    BY <1>t, <2>2, CallBegins DEF CallPlaces
  <2> QED
    BY <2>1, <2>2, <2>3, <2>4
<1>2. HandlesTypeOK'
  BY <1>t, <1>1 DEF HandlesTypeOK, TableSet, FileSet, CallSet, SlotRecords, CallRecords, CallPlaces
<1>3. CallsHold'
  BY <1>t, <1>h, <1>1, <1>2, HandlesApart DEF HandlesInv, HandlesKept, HandlesReachTheirFiles, NoDescriptorLost,
     CallsHold, CallsApart, OneDescriptorEach, TableSet, FileSet, CallSet, Building, Closing,
     InHand, InSlot, Nowhere
<1>4. CallsApart'
  BY <1>t, <1>h, <1>1, <1>2, HandlesApart DEF HandlesInv, HandlesKept, HandlesReachTheirFiles, NoDescriptorLost,
     CallsHold, CallsApart, OneDescriptorEach, TableSet, FileSet, CallSet, Building, Closing,
     InHand, InSlot, Nowhere
<1>5. OneDescriptorEach'
  BY <1>t, <1>h, <1>1, <1>2, HandlesApart DEF HandlesInv, HandlesKept, HandlesReachTheirFiles, NoDescriptorLost,
     CallsHold, CallsApart, OneDescriptorEach, TableSet, FileSet, CallSet, Building, Closing,
     InHand, InSlot, Nowhere
<1>6. HandlesReachTheirFiles'
  BY <1>t, <1>h, <1>1, <1>2, HandlesApart DEF HandlesInv, HandlesKept, HandlesReachTheirFiles, NoDescriptorLost,
     CallsHold, CallsApart, OneDescriptorEach, TableSet, FileSet, CallSet, Building, Closing,
     InHand, InSlot, Nowhere
<1>7. NoDescriptorLost'
  BY <1>t, <1>h, <1>1, <1>2, HandlesApart DEF HandlesInv, HandlesKept, HandlesReachTheirFiles, NoDescriptorLost,
     CallsHold, CallsApart, OneDescriptorEach, TableSet, FileSet, CallSet, Building, Closing,
     InHand, InSlot, Nowhere
<1> QED
  BY <1>2, <1>3, <1>4, <1>5, <1>6, <1>7 DEF HandlesInv, HandlesKept

LEMMA GiveUpKeeps ==
  ASSUME HandlesInv, NEW c \in Callers, call[c].at \in {"opening", "retrying"}, GiveUp(c), UNCHANGED <<files, mine>>
  PROVE  HandlesInv'
<1>t. HandlesTypeOK
  BY DEF HandlesInv, HandlesKept
<1>h. call[c].at # "idle" => call[c].handle \in Handle
  BY DEF HandlesInv, CallsHold
<1>1. /\ call[c].at \in Nowhere /\ call[c].at \in Building /\ call[c].handle \in Handle /\ files' = files /\ mine' = mine
      /\ TableSet(call[c].handle, CLOSED, table[call[c].handle].fd)
      /\ CallSet(c, "idle", Nobody, NoFd)
  <2>1. call[c].at \in Nowhere /\ call[c].at \in Building /\ call[c].handle \in Handle /\ files' = files /\ mine' = mine
    BY <1>h DEF Nowhere, Building
  <2>2. TableSet(call[c].handle, CLOSED, table[call[c].handle].fd)
    BY <1>t, <2>1, StateAt DEF GiveUp
  <2>3. CallSet(c, "idle", Nobody, NoFd)
    BY <1>t, CallEnds DEF GiveUp
  <2> QED
    BY <2>1, <2>2, <2>3
<1>2. HandlesTypeOK'
  BY <1>t, <1>1 DEF HandlesTypeOK, TableSet, FileSet, CallSet, SlotRecords, CallRecords, CallPlaces
<1>3. CallsHold'
  BY <1>t, <1>h, <1>1, <1>2, HandlesApart DEF HandlesInv, HandlesKept, HandlesReachTheirFiles, NoDescriptorLost,
     CallsHold, CallsApart, OneDescriptorEach, TableSet, FileSet, CallSet, Building, Closing,
     InHand, InSlot, Nowhere
<1>4. CallsApart'
  BY <1>t, <1>h, <1>1, <1>2, HandlesApart DEF HandlesInv, HandlesKept, HandlesReachTheirFiles, NoDescriptorLost,
     CallsHold, CallsApart, OneDescriptorEach, TableSet, FileSet, CallSet, Building, Closing,
     InHand, InSlot, Nowhere
<1>5. OneDescriptorEach'
  BY <1>t, <1>h, <1>1, <1>2, HandlesApart DEF HandlesInv, HandlesKept, HandlesReachTheirFiles, NoDescriptorLost,
     CallsHold, CallsApart, OneDescriptorEach, TableSet, FileSet, CallSet, Building, Closing,
     InHand, InSlot, Nowhere
<1>6. HandlesReachTheirFiles'
  <2> SUFFICES ASSUME NEW x \in Callers, NEW h \in mine'[x]
               PROVE  /\ table'[h].state = OPENED
                      /\ table'[h].fd # NoFd /\ files'[table'[h].fd] = h
                      /\ \A d \in Callers \ {x} : h \notin mine'[d]
    BY DEF HandlesReachTheirFiles
  <2>1. h \in Handle /\ h \in mine[x] /\ mine' = mine
    BY <1>t, <1>1 DEF HandlesTypeOK
  <2>2. /\ table[h].state = OPENED /\ table[h].fd # NoFd /\ files[table[h].fd] = h
        /\ \A d \in Callers \ {x} : h \notin mine[d]
    BY <2>1 DEF HandlesInv, HandlesKept, HandlesReachTheirFiles
  <2>3. table[h].fd \in Descriptors
    BY <1>t, <2>1, <2>2 DEF HandlesTypeOK
  <2>4. h # call[c].handle
    BY <1>1, <2>1, <2>2, HandlesApart DEF HandlesInv, CallsHold, Building, Closing
  <2>5. table'[h] = table[h]
    BY <1>1, <2>1, <2>4 DEF TableSet
  <2>6. files'[table[h].fd] = files[table[h].fd]
    BY <1>1, <2>1, <2>2, <2>3, <2>4, HandlesApart DEF FileSet
  <2> QED
    BY <2>1, <2>2, <2>5, <2>6
<1>7. NoDescriptorLost'
  <2> SUFFICES ASSUME NEW d \in Descriptors, files'[d] # Nobody
               PROVE  \/ table'[files'[d]].fd = d /\ table'[files'[d]].state # CLOSED
                      \/ \E b \in Callers : call'[b].fd = d /\ call'[b].handle = files'[d]
    BY DEF NoDescriptorLost
  <2>1. files'[d] = files[d] /\ files[d] \in Handle
    BY <1>t, <1>1 DEF HandlesTypeOK
  <2>2. \/ table[files[d]].fd = d /\ table[files[d]].state # CLOSED
        \/ \E b \in Callers : call[b].fd = d /\ call[b].handle = files[d]
    BY <2>1 DEF HandlesInv, HandlesKept, NoDescriptorLost
  <2>3. CASE files[d] = call[c].handle
    BY <1>1, <2>1, <2>3, HandlesApart DEF HandlesInv, CallsHold, OneDescriptorEach, TableSet,
       Building, InHand, InSlot, Nowhere
  <2>4. CASE files[d] # call[c].handle
    <3>1. table'[files[d]] = table[files[d]]
      BY <1>1, <2>1, <2>4 DEF TableSet
    <3>2. \A b \in Callers : call[b].handle = files[d] => call'[b] = call[b]
      BY <1>1, <2>4 DEF CallSet
    <3> QED
      BY <2>1, <2>2, <3>1, <3>2
  <2> QED
    BY <2>3, <2>4
<1> QED
  BY <1>2, <1>3, <1>4, <1>5, <1>6, <1>7 DEF HandlesInv, HandlesKept

LEMMA OpensKeeps ==
  ASSUME HandlesInv, NEW c \in Callers, NEW free \in Descriptors, call[c].at \in {"opening", "retrying"}, files[free] = Nobody,
         files' = [files EXCEPT ![free] = call[c].handle],
         call' = [call EXCEPT ![c].at = "configuring", ![c].fd = free],
         UNCHANGED <<table, mine>>
  PROVE  HandlesInv'
<1>t. HandlesTypeOK
  BY DEF HandlesInv, HandlesKept
<1>h. call[c].at # "idle" => call[c].handle \in Handle
  BY DEF HandlesInv, CallsHold
<1>1. /\ call[c].at \in Nowhere /\ call[c].at \in Building /\ call[c].handle \in Handle /\ table' = table /\ mine' = mine
      /\ FileSet(free, call[c].handle)
      /\ CallSet(c, "configuring", call[c].handle, free)
  <2>1. call[c].at \in Nowhere /\ call[c].at \in Building /\ call[c].handle \in Handle /\ table' = table /\ mine' = mine
    BY <1>h DEF Nowhere, Building
  <2>2. FileSet(free, call[c].handle)
    BY <1>t, <2>1, FileAt
  <2>3. CallSet(c, "configuring", call[c].handle, free)
    BY <1>t, CallTakes DEF CallPlaces
  <2> QED
    BY <2>1, <2>2, <2>3
<1>2. HandlesTypeOK'
  BY <1>t, <1>1 DEF HandlesTypeOK, TableSet, FileSet, CallSet, SlotRecords, CallRecords, CallPlaces
<1>3. CallsHold'
  BY <1>t, <1>h, <1>1, <1>2, HandlesApart DEF HandlesInv, HandlesKept, HandlesReachTheirFiles, NoDescriptorLost,
     CallsHold, CallsApart, OneDescriptorEach, TableSet, FileSet, CallSet, Building, Closing,
     InHand, InSlot, Nowhere
<1>4. CallsApart'
  BY <1>t, <1>h, <1>1, <1>2, HandlesApart DEF HandlesInv, HandlesKept, HandlesReachTheirFiles, NoDescriptorLost,
     CallsHold, CallsApart, OneDescriptorEach, TableSet, FileSet, CallSet, Building, Closing,
     InHand, InSlot, Nowhere
<1>5. OneDescriptorEach'
  BY <1>t, <1>h, <1>1, <1>2, HandlesApart DEF HandlesInv, HandlesKept, HandlesReachTheirFiles, NoDescriptorLost,
     CallsHold, CallsApart, OneDescriptorEach, TableSet, FileSet, CallSet, Building, Closing,
     InHand, InSlot, Nowhere
<1>6. HandlesReachTheirFiles'
  <2> SUFFICES ASSUME NEW x \in Callers, NEW h \in mine'[x]
               PROVE  /\ table'[h].state = OPENED
                      /\ table'[h].fd # NoFd /\ files'[table'[h].fd] = h
                      /\ \A d \in Callers \ {x} : h \notin mine'[d]
    BY DEF HandlesReachTheirFiles
  <2>1. h \in Handle /\ h \in mine[x] /\ mine' = mine
    BY <1>t, <1>1 DEF HandlesTypeOK
  <2>2. /\ table[h].state = OPENED /\ table[h].fd # NoFd /\ files[table[h].fd] = h
        /\ \A d \in Callers \ {x} : h \notin mine[d]
    BY <2>1 DEF HandlesInv, HandlesKept, HandlesReachTheirFiles
  <2>3. table[h].fd \in Descriptors
    BY <1>t, <2>1, <2>2 DEF HandlesTypeOK
  <2>4. h # call[c].handle
    BY <1>1, <2>1, <2>2, HandlesApart DEF HandlesInv, CallsHold, Building, Closing
  <2>5. table'[h] = table[h]
    BY <1>1, <2>1, <2>4 DEF TableSet
  <2>6. files'[table[h].fd] = files[table[h].fd]
    BY <1>1, <2>1, <2>2, <2>3, <2>4, HandlesApart DEF FileSet
  <2> QED
    BY <2>1, <2>2, <2>5, <2>6
<1>7. NoDescriptorLost'
  BY <1>t, <1>h, <1>1, <1>2, HandlesApart DEF HandlesInv, HandlesKept, HandlesReachTheirFiles, NoDescriptorLost,
     CallsHold, CallsApart, OneDescriptorEach, TableSet, FileSet, CallSet, Building, Closing,
     InHand, InSlot, Nowhere
<1> QED
  BY <1>2, <1>3, <1>4, <1>5, <1>6, <1>7 DEF HandlesInv, HandlesKept

LEMMA RetryKeeps ==
  ASSUME HandlesInv, NEW c \in Callers, call[c].at = "opening", call' = [call EXCEPT ![c].at = "retrying"],
         UNCHANGED <<table, files, mine>>
  PROVE  HandlesInv'
<1>t. HandlesTypeOK
  BY DEF HandlesInv, HandlesKept
<1>h. call[c].at # "idle" => call[c].handle \in Handle
  BY DEF HandlesInv, CallsHold
<1>1. /\ call[c].handle \in Handle /\ table' = table /\ files' = files /\ mine' = mine
      /\ CallSet(c, "retrying", call[c].handle, call[c].fd)
  <2>1. call[c].handle \in Handle /\ table' = table /\ files' = files /\ mine' = mine
    BY <1>h
  <2>2. CallSet(c, "retrying", call[c].handle, call[c].fd)
    BY <1>t, CallGoesOn DEF CallPlaces
  <2> QED
    BY <2>1, <2>2
<1>2. HandlesTypeOK'
  BY <1>t, <1>1 DEF HandlesTypeOK, TableSet, FileSet, CallSet, SlotRecords, CallRecords, CallPlaces
<1>3. CallsHold'
  BY <1>t, <1>h, <1>1, <1>2, HandlesApart DEF HandlesInv, HandlesKept, HandlesReachTheirFiles, NoDescriptorLost,
     CallsHold, CallsApart, OneDescriptorEach, TableSet, FileSet, CallSet, Building, Closing,
     InHand, InSlot, Nowhere
<1>4. CallsApart'
  BY <1>t, <1>h, <1>1, <1>2, HandlesApart DEF HandlesInv, HandlesKept, HandlesReachTheirFiles, NoDescriptorLost,
     CallsHold, CallsApart, OneDescriptorEach, TableSet, FileSet, CallSet, Building, Closing,
     InHand, InSlot, Nowhere
<1>5. OneDescriptorEach'
  BY <1>t, <1>h, <1>1, <1>2, HandlesApart DEF HandlesInv, HandlesKept, HandlesReachTheirFiles, NoDescriptorLost,
     CallsHold, CallsApart, OneDescriptorEach, TableSet, FileSet, CallSet, Building, Closing,
     InHand, InSlot, Nowhere
<1>6. HandlesReachTheirFiles'
  BY <1>t, <1>h, <1>1, <1>2, HandlesApart DEF HandlesInv, HandlesKept, HandlesReachTheirFiles, NoDescriptorLost,
     CallsHold, CallsApart, OneDescriptorEach, TableSet, FileSet, CallSet, Building, Closing,
     InHand, InSlot, Nowhere
<1>7. NoDescriptorLost'
  BY <1>t, <1>h, <1>1, <1>2, HandlesApart DEF HandlesInv, HandlesKept, HandlesReachTheirFiles, NoDescriptorLost,
     CallsHold, CallsApart, OneDescriptorEach, TableSet, FileSet, CallSet, Building, Closing,
     InHand, InSlot, Nowhere
<1> QED
  BY <1>2, <1>3, <1>4, <1>5, <1>6, <1>7 DEF HandlesInv, HandlesKept

LEMMA RefusedKeeps ==
  ASSUME HandlesInv, NEW c \in Callers, call[c].at = "configuring", Refused(c)
  PROVE  HandlesInv'
<1>t. HandlesTypeOK
  BY DEF HandlesInv, HandlesKept
<1>h. call[c].at # "idle" => call[c].handle \in Handle
  BY DEF HandlesInv, CallsHold
<1>1. /\ call[c].at \in InHand /\ call[c].at \in Building /\ call[c].handle \in Handle /\ mine' = mine
      /\ call[c].fd \in Descriptors /\ files[call[c].fd] = call[c].handle
      /\ FileSet(call[c].fd, Nobody)
      /\ TableSet(call[c].handle, CLOSED, table[call[c].handle].fd)
      /\ CallSet(c, "idle", Nobody, NoFd)
  <2>1. call[c].at \in InHand /\ call[c].at \in Building /\ call[c].handle \in Handle /\ mine' = mine
    BY <1>h DEF InHand, Building, Refused
  <2>2. call[c].fd \in Descriptors /\ files[call[c].fd] = call[c].handle
    BY <2>1 DEF HandlesInv, CallsHold
  <2>3. FileSet(call[c].fd, Nobody)
    BY <1>t, <2>2, FileAt DEF Refused
  <2>4. TableSet(call[c].handle, CLOSED, table[call[c].handle].fd)
    BY <1>t, <2>1, StateAt DEF Refused, GiveUp
  <2>5. CallSet(c, "idle", Nobody, NoFd)
    BY <1>t, CallEnds DEF Refused, GiveUp
  <2> QED
    BY <2>1, <2>2, <2>3, <2>4, <2>5
<1>2. HandlesTypeOK'
  BY <1>t, <1>1 DEF HandlesTypeOK, TableSet, FileSet, CallSet, SlotRecords, CallRecords, CallPlaces
<1>3. CallsHold'
  BY <1>t, <1>h, <1>1, <1>2, HandlesApart DEF HandlesInv, HandlesKept, HandlesReachTheirFiles, NoDescriptorLost,
     CallsHold, CallsApart, OneDescriptorEach, TableSet, FileSet, CallSet, Building, Closing,
     InHand, InSlot, Nowhere
<1>4. CallsApart'
  BY <1>t, <1>h, <1>1, <1>2, HandlesApart DEF HandlesInv, HandlesKept, HandlesReachTheirFiles, NoDescriptorLost,
     CallsHold, CallsApart, OneDescriptorEach, TableSet, FileSet, CallSet, Building, Closing,
     InHand, InSlot, Nowhere
<1>5. OneDescriptorEach'
  BY <1>t, <1>h, <1>1, <1>2, HandlesApart DEF HandlesInv, HandlesKept, HandlesReachTheirFiles, NoDescriptorLost,
     CallsHold, CallsApart, OneDescriptorEach, TableSet, FileSet, CallSet, Building, Closing,
     InHand, InSlot, Nowhere
<1>6. HandlesReachTheirFiles'
  <2> SUFFICES ASSUME NEW x \in Callers, NEW h \in mine'[x]
               PROVE  /\ table'[h].state = OPENED
                      /\ table'[h].fd # NoFd /\ files'[table'[h].fd] = h
                      /\ \A d \in Callers \ {x} : h \notin mine'[d]
    BY DEF HandlesReachTheirFiles
  <2>1. h \in Handle /\ h \in mine[x] /\ mine' = mine
    BY <1>t, <1>1 DEF HandlesTypeOK
  <2>2. /\ table[h].state = OPENED /\ table[h].fd # NoFd /\ files[table[h].fd] = h
        /\ \A d \in Callers \ {x} : h \notin mine[d]
    BY <2>1 DEF HandlesInv, HandlesKept, HandlesReachTheirFiles
  <2>3. table[h].fd \in Descriptors
    BY <1>t, <2>1, <2>2 DEF HandlesTypeOK
  <2>4. h # call[c].handle
    BY <1>1, <2>1, <2>2, HandlesApart DEF HandlesInv, CallsHold, Building, Closing
  <2>5. table'[h] = table[h]
    BY <1>1, <2>1, <2>4 DEF TableSet
  <2>6. files'[table[h].fd] = files[table[h].fd]
    BY <1>1, <2>1, <2>2, <2>3, <2>4, HandlesApart DEF FileSet
  <2> QED
    BY <2>1, <2>2, <2>5, <2>6
<1>7. NoDescriptorLost'
  BY <1>t, <1>h, <1>1, <1>2, HandlesApart DEF HandlesInv, HandlesKept, HandlesReachTheirFiles, NoDescriptorLost,
     CallsHold, CallsApart, OneDescriptorEach, TableSet, FileSet, CallSet, Building, Closing,
     InHand, InSlot, Nowhere
<1> QED
  BY <1>2, <1>3, <1>4, <1>5, <1>6, <1>7 DEF HandlesInv, HandlesKept

LEMMA ConfiguredKeeps ==
  ASSUME HandlesInv, NEW c \in Callers, call[c].at = "configuring", call' = [call EXCEPT ![c].at = "recording"],
         UNCHANGED <<table, files, mine>>
  PROVE  HandlesInv'
<1>t. HandlesTypeOK
  BY DEF HandlesInv, HandlesKept
<1>h. call[c].at # "idle" => call[c].handle \in Handle
  BY DEF HandlesInv, CallsHold
<1>1. /\ call[c].handle \in Handle /\ table' = table /\ files' = files /\ mine' = mine
      /\ CallSet(c, "recording", call[c].handle, call[c].fd)
  <2>1. call[c].handle \in Handle /\ table' = table /\ files' = files /\ mine' = mine
    BY <1>h
  <2>2. CallSet(c, "recording", call[c].handle, call[c].fd)
    BY <1>t, CallGoesOn DEF CallPlaces
  <2> QED
    BY <2>1, <2>2
<1>2. HandlesTypeOK'
  BY <1>t, <1>1 DEF HandlesTypeOK, TableSet, FileSet, CallSet, SlotRecords, CallRecords, CallPlaces
<1>3. CallsHold'
  BY <1>t, <1>h, <1>1, <1>2, HandlesApart DEF HandlesInv, HandlesKept, HandlesReachTheirFiles, NoDescriptorLost,
     CallsHold, CallsApart, OneDescriptorEach, TableSet, FileSet, CallSet, Building, Closing,
     InHand, InSlot, Nowhere
<1>4. CallsApart'
  BY <1>t, <1>h, <1>1, <1>2, HandlesApart DEF HandlesInv, HandlesKept, HandlesReachTheirFiles, NoDescriptorLost,
     CallsHold, CallsApart, OneDescriptorEach, TableSet, FileSet, CallSet, Building, Closing,
     InHand, InSlot, Nowhere
<1>5. OneDescriptorEach'
  BY <1>t, <1>h, <1>1, <1>2, HandlesApart DEF HandlesInv, HandlesKept, HandlesReachTheirFiles, NoDescriptorLost,
     CallsHold, CallsApart, OneDescriptorEach, TableSet, FileSet, CallSet, Building, Closing,
     InHand, InSlot, Nowhere
<1>6. HandlesReachTheirFiles'
  BY <1>t, <1>h, <1>1, <1>2, HandlesApart DEF HandlesInv, HandlesKept, HandlesReachTheirFiles, NoDescriptorLost,
     CallsHold, CallsApart, OneDescriptorEach, TableSet, FileSet, CallSet, Building, Closing,
     InHand, InSlot, Nowhere
<1>7. NoDescriptorLost'
  BY <1>t, <1>h, <1>1, <1>2, HandlesApart DEF HandlesInv, HandlesKept, HandlesReachTheirFiles, NoDescriptorLost,
     CallsHold, CallsApart, OneDescriptorEach, TableSet, FileSet, CallSet, Building, Closing,
     InHand, InSlot, Nowhere
<1> QED
  BY <1>2, <1>3, <1>4, <1>5, <1>6, <1>7 DEF HandlesInv, HandlesKept

LEMMA RecordKeeps ==
  ASSUME HandlesInv, NEW c \in Callers, Record(c)
  PROVE  HandlesInv'
<1>t. HandlesTypeOK
  BY DEF HandlesInv, HandlesKept
<1>h. call[c].at # "idle" => call[c].handle \in Handle
  BY DEF HandlesInv, CallsHold
<1>1. /\ call[c].at = "recording" /\ files' = files /\ mine' = mine
      /\ call[c].handle \in Handle /\ call[c].fd \in Descriptors /\ files[call[c].fd] = call[c].handle
      /\ TableSet(call[c].handle, table[call[c].handle].state, call[c].fd)
      /\ CallSet(c, "publishing", call[c].handle, NoFd)
  <2>1. call[c].at = "recording" /\ files' = files /\ mine' = mine
    BY DEF Record
  <2>2. call[c].handle \in Handle /\ call[c].fd \in Descriptors /\ files[call[c].fd] = call[c].handle
    BY <1>h, <2>1 DEF HandlesInv, CallsHold, InHand
  <2>3. TableSet(call[c].handle, table[call[c].handle].state, call[c].fd)
    BY <1>t, <2>2, FdAt DEF Record
  <2>4. CallSet(c, "publishing", call[c].handle, NoFd)
    BY <1>t, CallTakes DEF Record, CallPlaces
  <2> QED
    BY <2>1, <2>2, <2>3, <2>4
<1>2. HandlesTypeOK'
  BY <1>t, <1>1 DEF HandlesTypeOK, TableSet, FileSet, CallSet, SlotRecords, CallRecords, CallPlaces
<1>3. CallsHold'
  BY <1>t, <1>h, <1>1, <1>2, HandlesApart DEF HandlesInv, HandlesKept, HandlesReachTheirFiles, NoDescriptorLost,
     CallsHold, CallsApart, OneDescriptorEach, TableSet, FileSet, CallSet, Building, Closing,
     InHand, InSlot, Nowhere
<1>4. CallsApart'
  BY <1>t, <1>h, <1>1, <1>2, HandlesApart DEF HandlesInv, HandlesKept, HandlesReachTheirFiles, NoDescriptorLost,
     CallsHold, CallsApart, OneDescriptorEach, TableSet, FileSet, CallSet, Building, Closing,
     InHand, InSlot, Nowhere
<1>5. OneDescriptorEach'
  BY <1>t, <1>h, <1>1, <1>2, HandlesApart DEF HandlesInv, HandlesKept, HandlesReachTheirFiles, NoDescriptorLost,
     CallsHold, CallsApart, OneDescriptorEach, TableSet, FileSet, CallSet, Building, Closing,
     InHand, InSlot, Nowhere
<1>6. HandlesReachTheirFiles'
  <2> SUFFICES ASSUME NEW x \in Callers, NEW h \in mine'[x]
               PROVE  /\ table'[h].state = OPENED
                      /\ table'[h].fd # NoFd /\ files'[table'[h].fd] = h
                      /\ \A d \in Callers \ {x} : h \notin mine'[d]
    BY DEF HandlesReachTheirFiles
  <2>1. h \in Handle /\ h \in mine[x] /\ mine' = mine
    BY <1>t, <1>1 DEF HandlesTypeOK
  <2>2. /\ table[h].state = OPENED /\ table[h].fd # NoFd /\ files[table[h].fd] = h
        /\ \A d \in Callers \ {x} : h \notin mine[d]
    BY <2>1 DEF HandlesInv, HandlesKept, HandlesReachTheirFiles
  <2>3. table[h].fd \in Descriptors
    BY <1>t, <2>1, <2>2 DEF HandlesTypeOK
  <2>4. h # call[c].handle
    BY <1>1, <2>1, <2>2, HandlesApart DEF HandlesInv, CallsHold, Building, Closing
  <2>5. table'[h] = table[h]
    BY <1>1, <2>1, <2>4 DEF TableSet
  <2>6. files'[table[h].fd] = files[table[h].fd]
    BY <1>1, <2>1, <2>2, <2>3, <2>4, HandlesApart DEF FileSet
  <2> QED
    BY <2>1, <2>2, <2>5, <2>6
<1>7. NoDescriptorLost'
  <2> SUFFICES ASSUME NEW d \in Descriptors, files'[d] # Nobody
               PROVE  \/ table'[files'[d]].fd = d /\ table'[files'[d]].state # CLOSED
                      \/ \E b \in Callers : call'[b].fd = d /\ call'[b].handle = files'[d]
    BY DEF NoDescriptorLost
  <2>1. files'[d] = files[d] /\ files[d] \in Handle
    BY <1>t, <1>1 DEF HandlesTypeOK
  <2>2. \/ table[files[d]].fd = d /\ table[files[d]].state # CLOSED
        \/ \E b \in Callers : call[b].fd = d /\ call[b].handle = files[d]
    BY <2>1 DEF HandlesInv, HandlesKept, NoDescriptorLost
  <2>3. CASE files[d] = call[c].handle
    BY <1>1, <2>1, <2>3, HandlesApart DEF HandlesInv, CallsHold, OneDescriptorEach, TableSet,
       Building, InHand, InSlot, Nowhere
  <2>4. CASE files[d] # call[c].handle
    <3>1. table'[files[d]] = table[files[d]]
      BY <1>1, <2>1, <2>4 DEF TableSet
    <3>2. \A b \in Callers : call[b].handle = files[d] => call'[b] = call[b]
      BY <1>1, <2>4 DEF CallSet
    <3> QED
      BY <2>1, <2>2, <3>1, <3>2
  <2> QED
    BY <2>3, <2>4
<1> QED
  BY <1>2, <1>3, <1>4, <1>5, <1>6, <1>7 DEF HandlesInv, HandlesKept

LEMMA PublishKeeps ==
  ASSUME HandlesInv, NEW c \in Callers, Publish(c)
  PROVE  HandlesInv'
<1>t. HandlesTypeOK
  BY DEF HandlesInv, HandlesKept
<1>h. call[c].at # "idle" => call[c].handle \in Handle
  BY DEF HandlesInv, CallsHold
<1>1. /\ call[c].at = "publishing" /\ call[c].handle \in Handle /\ files' = files
      /\ mine' \in [Callers -> SUBSET Handle] /\ mine'[c] = mine[c] \cup {call[c].handle} /\ \A d \in Callers : d # c => mine'[d] = mine[d]
      /\ TableSet(call[c].handle, OPENED, table[call[c].handle].fd)
      /\ CallSet(c, "idle", Nobody, NoFd)
  <2>1. call[c].at = "publishing" /\ call[c].handle \in Handle /\ files' = files
    BY <1>h DEF Publish
  <2>2. mine' \in [Callers -> SUBSET Handle] /\ mine'[c] = mine[c] \cup {call[c].handle} /\ \A d \in Callers : d # c => mine'[d] = mine[d]
    BY <1>t, <2>1 DEF Publish, HandlesTypeOK
  <2>3. TableSet(call[c].handle, OPENED, table[call[c].handle].fd)
    BY <1>t, <2>1, StateAt DEF Publish
  <2>4. CallSet(c, "idle", Nobody, NoFd)
    BY <1>t, CallEnds DEF Publish
  <2> QED
    BY <2>1, <2>2, <2>3, <2>4
<1>2. HandlesTypeOK'
  BY <1>t, <1>1 DEF HandlesTypeOK, TableSet, FileSet, CallSet, SlotRecords, CallRecords, CallPlaces
<1>3. CallsHold'
  BY <1>t, <1>h, <1>1, <1>2, HandlesApart DEF HandlesInv, HandlesKept, HandlesReachTheirFiles, NoDescriptorLost,
     CallsHold, CallsApart, OneDescriptorEach, TableSet, FileSet, CallSet, Building, Closing,
     InHand, InSlot, Nowhere
<1>4. CallsApart'
  BY <1>t, <1>h, <1>1, <1>2, HandlesApart DEF HandlesInv, HandlesKept, HandlesReachTheirFiles, NoDescriptorLost,
     CallsHold, CallsApart, OneDescriptorEach, TableSet, FileSet, CallSet, Building, Closing,
     InHand, InSlot, Nowhere
<1>5. OneDescriptorEach'
  BY <1>t, <1>h, <1>1, <1>2, HandlesApart DEF HandlesInv, HandlesKept, HandlesReachTheirFiles, NoDescriptorLost,
     CallsHold, CallsApart, OneDescriptorEach, TableSet, FileSet, CallSet, Building, Closing,
     InHand, InSlot, Nowhere
<1>6. HandlesReachTheirFiles'
  BY <1>t, <1>h, <1>1, <1>2, HandlesApart DEF HandlesInv, HandlesKept, HandlesReachTheirFiles, NoDescriptorLost,
     CallsHold, CallsApart, OneDescriptorEach, TableSet, FileSet, CallSet, Building, Closing,
     InHand, InSlot, Nowhere
<1>7. NoDescriptorLost'
  <2> SUFFICES ASSUME NEW d \in Descriptors, files'[d] # Nobody
               PROVE  \/ table'[files'[d]].fd = d /\ table'[files'[d]].state # CLOSED
                      \/ \E b \in Callers : call'[b].fd = d /\ call'[b].handle = files'[d]
    BY DEF NoDescriptorLost
  <2>1. files'[d] = files[d] /\ files[d] \in Handle
    BY <1>t, <1>1 DEF HandlesTypeOK
  <2>2. \/ table[files[d]].fd = d /\ table[files[d]].state # CLOSED
        \/ \E b \in Callers : call[b].fd = d /\ call[b].handle = files[d]
    BY <2>1 DEF HandlesInv, HandlesKept, NoDescriptorLost
  <2>3. CASE files[d] = call[c].handle
    BY <1>1, <2>1, <2>3, HandlesApart DEF HandlesInv, CallsHold, OneDescriptorEach, TableSet,
       Building, InHand, InSlot, Nowhere
  <2>4. CASE files[d] # call[c].handle
    <3>1. table'[files[d]] = table[files[d]]
      BY <1>1, <2>1, <2>4 DEF TableSet
    <3>2. \A b \in Callers : call[b].handle = files[d] => call'[b] = call[b]
      BY <1>1, <2>4 DEF CallSet
    <3> QED
      BY <2>1, <2>2, <3>1, <3>2
  <2> QED
    BY <2>3, <2>4
<1> QED
  BY <1>2, <1>3, <1>4, <1>5, <1>6, <1>7 DEF HandlesInv, HandlesKept

LEMMA CloseHandleKeeps ==
  ASSUME HandlesInv, NEW c \in Callers, NEW h \in Handle, CloseHandle(c, h)
  PROVE  HandlesInv'
<1>t. HandlesTypeOK
  BY DEF HandlesInv, HandlesKept
<1>h. call[c].at # "idle" => call[c].handle \in Handle
  BY DEF HandlesInv, CallsHold
<1>1. /\ call[c].at = "idle" /\ h \in mine[c] /\ table[h].state = OPENED /\ table' = table /\ files' = files
      /\ mine' \in [Callers -> SUBSET Handle] /\ mine'[c] = mine[c] \ {h} /\ \A d \in Callers : d # c => mine'[d] = mine[d]
      /\ table[h].fd \in Descriptors
      /\ CallSet(c, "closing", h, NoFd)
  <2>1. call[c].at = "idle" /\ h \in mine[c] /\ table[h].state = OPENED /\ table' = table /\ files' = files
    BY DEF CloseHandle, NoCall
  <2>2. mine' \in [Callers -> SUBSET Handle] /\ mine'[c] = mine[c] \ {h} /\ \A d \in Callers : d # c => mine'[d] = mine[d]
    BY <1>t DEF CloseHandle, HandlesTypeOK
  <2>3. table[h].fd \in Descriptors
    BY <1>t, <2>1 DEF HandlesInv, HandlesKept, HandlesReachTheirFiles, HandlesTypeOK
  <2>4. CallSet(c, "closing", h, NoFd)
    BY <1>t, CallBegins DEF CloseHandle, CallPlaces
  <2> QED
    BY <2>1, <2>2, <2>3, <2>4
<1>2. HandlesTypeOK'
  BY <1>t, <1>1 DEF HandlesTypeOK, TableSet, FileSet, CallSet, SlotRecords, CallRecords, CallPlaces
<1>3. CallsHold'
  BY <1>t, <1>h, <1>1, <1>2, HandlesApart DEF HandlesInv, HandlesKept, HandlesReachTheirFiles, NoDescriptorLost,
     CallsHold, CallsApart, OneDescriptorEach, TableSet, FileSet, CallSet, Building, Closing,
     InHand, InSlot, Nowhere
<1>4. CallsApart'
  BY <1>t, <1>h, <1>1, <1>2, HandlesApart DEF HandlesInv, HandlesKept, HandlesReachTheirFiles, NoDescriptorLost,
     CallsHold, CallsApart, OneDescriptorEach, TableSet, FileSet, CallSet, Building, Closing,
     InHand, InSlot, Nowhere
<1>5. OneDescriptorEach'
  BY <1>t, <1>h, <1>1, <1>2, HandlesApart DEF HandlesInv, HandlesKept, HandlesReachTheirFiles, NoDescriptorLost,
     CallsHold, CallsApart, OneDescriptorEach, TableSet, FileSet, CallSet, Building, Closing,
     InHand, InSlot, Nowhere
<1>6. HandlesReachTheirFiles'
  BY <1>t, <1>h, <1>1, <1>2, HandlesApart DEF HandlesInv, HandlesKept, HandlesReachTheirFiles, NoDescriptorLost,
     CallsHold, CallsApart, OneDescriptorEach, TableSet, FileSet, CallSet, Building, Closing,
     InHand, InSlot, Nowhere
<1>7. NoDescriptorLost'
  BY <1>t, <1>h, <1>1, <1>2, HandlesApart DEF HandlesInv, HandlesKept, HandlesReachTheirFiles, NoDescriptorLost,
     CallsHold, CallsApart, OneDescriptorEach, TableSet, FileSet, CallSet, Building, Closing,
     InHand, InSlot, Nowhere
<1> QED
  BY <1>2, <1>3, <1>4, <1>5, <1>6, <1>7 DEF HandlesInv, HandlesKept

LEMMA CloseFileKeeps ==
  ASSUME HandlesInv, NEW c \in Callers, CloseFile(c)
  PROVE  HandlesInv'
<1>t. HandlesTypeOK
  BY DEF HandlesInv, HandlesKept
<1>h. call[c].at # "idle" => call[c].handle \in Handle
  BY DEF HandlesInv, CallsHold
<1>1. /\ call[c].at = "closing" /\ call[c].handle \in Handle /\ table' = table /\ mine' = mine
      /\ table[call[c].handle].fd \in Descriptors /\ files[table[call[c].handle].fd] = call[c].handle
      /\ FileSet(table[call[c].handle].fd, Nobody)
      /\ CallSet(c, "forgetting", call[c].handle, call[c].fd)
  <2>1. call[c].at = "closing" /\ call[c].handle \in Handle /\ table' = table /\ mine' = mine
    BY <1>h DEF CloseFile
  <2>2. table[call[c].handle].fd \in Descriptors /\ files[table[call[c].handle].fd] = call[c].handle
    BY <2>1 DEF HandlesInv, CallsHold, InSlot
  <2>3. FileSet(table[call[c].handle].fd, Nobody)
    BY <1>t, <2>2, FileAt, HandlesAssumption DEF CloseFile
  <2>4. CallSet(c, "forgetting", call[c].handle, call[c].fd)
    BY <1>t, CallGoesOn DEF CloseFile, CallPlaces
  <2> QED
    BY <2>1, <2>2, <2>3, <2>4
<1>2. HandlesTypeOK'
  BY <1>t, <1>1 DEF HandlesTypeOK, TableSet, FileSet, CallSet, SlotRecords, CallRecords, CallPlaces
<1>3. CallsHold'
  BY <1>t, <1>h, <1>1, <1>2, HandlesApart DEF HandlesInv, HandlesKept, HandlesReachTheirFiles, NoDescriptorLost,
     CallsHold, CallsApart, OneDescriptorEach, TableSet, FileSet, CallSet, Building, Closing,
     InHand, InSlot, Nowhere
<1>4. CallsApart'
  BY <1>t, <1>h, <1>1, <1>2, HandlesApart DEF HandlesInv, HandlesKept, HandlesReachTheirFiles, NoDescriptorLost,
     CallsHold, CallsApart, OneDescriptorEach, TableSet, FileSet, CallSet, Building, Closing,
     InHand, InSlot, Nowhere
<1>5. OneDescriptorEach'
  BY <1>t, <1>h, <1>1, <1>2, HandlesApart DEF HandlesInv, HandlesKept, HandlesReachTheirFiles, NoDescriptorLost,
     CallsHold, CallsApart, OneDescriptorEach, TableSet, FileSet, CallSet, Building, Closing,
     InHand, InSlot, Nowhere
<1>6. HandlesReachTheirFiles'
  <2> SUFFICES ASSUME NEW x \in Callers, NEW h \in mine'[x]
               PROVE  /\ table'[h].state = OPENED
                      /\ table'[h].fd # NoFd /\ files'[table'[h].fd] = h
                      /\ \A d \in Callers \ {x} : h \notin mine'[d]
    BY DEF HandlesReachTheirFiles
  <2>1. h \in Handle /\ h \in mine[x] /\ mine' = mine
    BY <1>t, <1>1 DEF HandlesTypeOK
  <2>2. /\ table[h].state = OPENED /\ table[h].fd # NoFd /\ files[table[h].fd] = h
        /\ \A d \in Callers \ {x} : h \notin mine[d]
    BY <2>1 DEF HandlesInv, HandlesKept, HandlesReachTheirFiles
  <2>3. table[h].fd \in Descriptors
    BY <1>t, <2>1, <2>2 DEF HandlesTypeOK
  <2>4. h # call[c].handle
    BY <1>1, <2>1, <2>2, HandlesApart DEF HandlesInv, CallsHold, Building, Closing
  <2>5. table'[h] = table[h]
    BY <1>1, <2>1, <2>4 DEF TableSet
  <2>6. files'[table[h].fd] = files[table[h].fd]
    BY <1>1, <2>1, <2>2, <2>3, <2>4, HandlesApart DEF FileSet
  <2> QED
    BY <2>1, <2>2, <2>5, <2>6
<1>7. NoDescriptorLost'
  BY <1>t, <1>h, <1>1, <1>2, HandlesApart DEF HandlesInv, HandlesKept, HandlesReachTheirFiles, NoDescriptorLost,
     CallsHold, CallsApart, OneDescriptorEach, TableSet, FileSet, CallSet, Building, Closing,
     InHand, InSlot, Nowhere
<1> QED
  BY <1>2, <1>3, <1>4, <1>5, <1>6, <1>7 DEF HandlesInv, HandlesKept

LEMMA ForgetKeeps ==
  ASSUME HandlesInv, NEW c \in Callers, Forget(c)
  PROVE  HandlesInv'
<1>t. HandlesTypeOK
  BY DEF HandlesInv, HandlesKept
<1>h. call[c].at # "idle" => call[c].handle \in Handle
  BY DEF HandlesInv, CallsHold
<1>1. /\ call[c].at = "forgetting" /\ call[c].handle \in Handle /\ files' = files /\ mine' = mine
      /\ TableSet(call[c].handle, table[call[c].handle].state, NoFd)
      /\ CallSet(c, "freeing", call[c].handle, call[c].fd)
  <2>1. call[c].at = "forgetting" /\ call[c].handle \in Handle /\ files' = files /\ mine' = mine
    BY <1>h DEF Forget
  <2>2. TableSet(call[c].handle, table[call[c].handle].state, NoFd)
    BY <1>t, <2>1, FdAt DEF Forget
  <2>3. CallSet(c, "freeing", call[c].handle, call[c].fd)
    BY <1>t, CallGoesOn DEF Forget, CallPlaces
  <2> QED
    BY <2>1, <2>2, <2>3
<1>2. HandlesTypeOK'
  BY <1>t, <1>1 DEF HandlesTypeOK, TableSet, FileSet, CallSet, SlotRecords, CallRecords, CallPlaces
<1>3. CallsHold'
  BY <1>t, <1>h, <1>1, <1>2, HandlesApart DEF HandlesInv, HandlesKept, HandlesReachTheirFiles, NoDescriptorLost,
     CallsHold, CallsApart, OneDescriptorEach, TableSet, FileSet, CallSet, Building, Closing,
     InHand, InSlot, Nowhere
<1>4. CallsApart'
  BY <1>t, <1>h, <1>1, <1>2, HandlesApart DEF HandlesInv, HandlesKept, HandlesReachTheirFiles, NoDescriptorLost,
     CallsHold, CallsApart, OneDescriptorEach, TableSet, FileSet, CallSet, Building, Closing,
     InHand, InSlot, Nowhere
<1>5. OneDescriptorEach'
  BY <1>t, <1>h, <1>1, <1>2, HandlesApart DEF HandlesInv, HandlesKept, HandlesReachTheirFiles, NoDescriptorLost,
     CallsHold, CallsApart, OneDescriptorEach, TableSet, FileSet, CallSet, Building, Closing,
     InHand, InSlot, Nowhere
<1>6. HandlesReachTheirFiles'
  <2> SUFFICES ASSUME NEW x \in Callers, NEW h \in mine'[x]
               PROVE  /\ table'[h].state = OPENED
                      /\ table'[h].fd # NoFd /\ files'[table'[h].fd] = h
                      /\ \A d \in Callers \ {x} : h \notin mine'[d]
    BY DEF HandlesReachTheirFiles
  <2>1. h \in Handle /\ h \in mine[x] /\ mine' = mine
    BY <1>t, <1>1 DEF HandlesTypeOK
  <2>2. /\ table[h].state = OPENED /\ table[h].fd # NoFd /\ files[table[h].fd] = h
        /\ \A d \in Callers \ {x} : h \notin mine[d]
    BY <2>1 DEF HandlesInv, HandlesKept, HandlesReachTheirFiles
  <2>3. table[h].fd \in Descriptors
    BY <1>t, <2>1, <2>2 DEF HandlesTypeOK
  <2>4. h # call[c].handle
    BY <1>1, <2>1, <2>2, HandlesApart DEF HandlesInv, CallsHold, Building, Closing
  <2>5. table'[h] = table[h]
    BY <1>1, <2>1, <2>4 DEF TableSet
  <2>6. files'[table[h].fd] = files[table[h].fd]
    BY <1>1, <2>1, <2>2, <2>3, <2>4, HandlesApart DEF FileSet
  <2> QED
    BY <2>1, <2>2, <2>5, <2>6
<1>7. NoDescriptorLost'
  <2> SUFFICES ASSUME NEW d \in Descriptors, files'[d] # Nobody
               PROVE  \/ table'[files'[d]].fd = d /\ table'[files'[d]].state # CLOSED
                      \/ \E b \in Callers : call'[b].fd = d /\ call'[b].handle = files'[d]
    BY DEF NoDescriptorLost
  <2>1. files'[d] = files[d] /\ files[d] \in Handle
    BY <1>t, <1>1 DEF HandlesTypeOK
  <2>2. \/ table[files[d]].fd = d /\ table[files[d]].state # CLOSED
        \/ \E b \in Callers : call[b].fd = d /\ call[b].handle = files[d]
    BY <2>1 DEF HandlesInv, HandlesKept, NoDescriptorLost
  <2>3. CASE files[d] = call[c].handle
    BY <1>1, <2>1, <2>3, HandlesApart DEF HandlesInv, CallsHold, OneDescriptorEach, TableSet,
       Building, InHand, InSlot, Nowhere
  <2>4. CASE files[d] # call[c].handle
    <3>1. table'[files[d]] = table[files[d]]
      BY <1>1, <2>1, <2>4 DEF TableSet
    <3>2. \A b \in Callers : call[b].handle = files[d] => call'[b] = call[b]
      BY <1>1, <2>4 DEF CallSet
    <3> QED
      BY <2>1, <2>2, <3>1, <3>2
  <2> QED
    BY <2>3, <2>4
<1> QED
  BY <1>2, <1>3, <1>4, <1>5, <1>6, <1>7 DEF HandlesInv, HandlesKept

LEMMA FreeKeeps ==
  ASSUME HandlesInv, NEW c \in Callers, Free(c)
  PROVE  HandlesInv'
<1>t. HandlesTypeOK
  BY DEF HandlesInv, HandlesKept
<1>h. call[c].at # "idle" => call[c].handle \in Handle
  BY DEF HandlesInv, CallsHold
<1>1. /\ call[c].at = "freeing" /\ call[c].handle \in Handle /\ files' = files /\ mine' = mine
      /\ TableSet(call[c].handle, CLOSED, table[call[c].handle].fd)
      /\ CallSet(c, "idle", Nobody, NoFd)
  <2>1. call[c].at = "freeing" /\ call[c].handle \in Handle /\ files' = files /\ mine' = mine
    BY <1>h DEF Free
  <2>2. TableSet(call[c].handle, CLOSED, table[call[c].handle].fd)
    BY <1>t, <2>1, StateAt DEF Free
  <2>3. CallSet(c, "idle", Nobody, NoFd)
    BY <1>t, CallEnds DEF Free
  <2> QED
    BY <2>1, <2>2, <2>3
<1>2. HandlesTypeOK'
  BY <1>t, <1>1 DEF HandlesTypeOK, TableSet, FileSet, CallSet, SlotRecords, CallRecords, CallPlaces
<1>3. CallsHold'
  BY <1>t, <1>h, <1>1, <1>2, HandlesApart DEF HandlesInv, HandlesKept, HandlesReachTheirFiles, NoDescriptorLost,
     CallsHold, CallsApart, OneDescriptorEach, TableSet, FileSet, CallSet, Building, Closing,
     InHand, InSlot, Nowhere
<1>4. CallsApart'
  BY <1>t, <1>h, <1>1, <1>2, HandlesApart DEF HandlesInv, HandlesKept, HandlesReachTheirFiles, NoDescriptorLost,
     CallsHold, CallsApart, OneDescriptorEach, TableSet, FileSet, CallSet, Building, Closing,
     InHand, InSlot, Nowhere
<1>5. OneDescriptorEach'
  BY <1>t, <1>h, <1>1, <1>2, HandlesApart DEF HandlesInv, HandlesKept, HandlesReachTheirFiles, NoDescriptorLost,
     CallsHold, CallsApart, OneDescriptorEach, TableSet, FileSet, CallSet, Building, Closing,
     InHand, InSlot, Nowhere
<1>6. HandlesReachTheirFiles'
  <2> SUFFICES ASSUME NEW x \in Callers, NEW h \in mine'[x]
               PROVE  /\ table'[h].state = OPENED
                      /\ table'[h].fd # NoFd /\ files'[table'[h].fd] = h
                      /\ \A d \in Callers \ {x} : h \notin mine'[d]
    BY DEF HandlesReachTheirFiles
  <2>1. h \in Handle /\ h \in mine[x] /\ mine' = mine
    BY <1>t, <1>1 DEF HandlesTypeOK
  <2>2. /\ table[h].state = OPENED /\ table[h].fd # NoFd /\ files[table[h].fd] = h
        /\ \A d \in Callers \ {x} : h \notin mine[d]
    BY <2>1 DEF HandlesInv, HandlesKept, HandlesReachTheirFiles
  <2>3. table[h].fd \in Descriptors
    BY <1>t, <2>1, <2>2 DEF HandlesTypeOK
  <2>4. h # call[c].handle
    BY <1>1, <2>1, <2>2, HandlesApart DEF HandlesInv, CallsHold, Building, Closing
  <2>5. table'[h] = table[h]
    BY <1>1, <2>1, <2>4 DEF TableSet
  <2>6. files'[table[h].fd] = files[table[h].fd]
    BY <1>1, <2>1, <2>2, <2>3, <2>4, HandlesApart DEF FileSet
  <2> QED
    BY <2>1, <2>2, <2>5, <2>6
<1>7. NoDescriptorLost'
  <2> SUFFICES ASSUME NEW d \in Descriptors, files'[d] # Nobody
               PROVE  \/ table'[files'[d]].fd = d /\ table'[files'[d]].state # CLOSED
                      \/ \E b \in Callers : call'[b].fd = d /\ call'[b].handle = files'[d]
    BY DEF NoDescriptorLost
  <2>1. files'[d] = files[d] /\ files[d] \in Handle
    BY <1>t, <1>1 DEF HandlesTypeOK
  <2>2. \/ table[files[d]].fd = d /\ table[files[d]].state # CLOSED
        \/ \E b \in Callers : call[b].fd = d /\ call[b].handle = files[d]
    BY <2>1 DEF HandlesInv, HandlesKept, NoDescriptorLost
  <2>3. CASE files[d] = call[c].handle
    BY <1>1, <2>1, <2>3, HandlesApart DEF HandlesInv, CallsHold, OneDescriptorEach, TableSet,
       Building, InHand, InSlot, Nowhere
  <2>4. CASE files[d] # call[c].handle
    <3>1. table'[files[d]] = table[files[d]]
      BY <1>1, <2>1, <2>4 DEF TableSet
    <3>2. \A b \in Callers : call[b].handle = files[d] => call'[b] = call[b]
      BY <1>1, <2>4 DEF CallSet
    <3> QED
      BY <2>1, <2>2, <3>1, <3>2
  <2> QED
    BY <2>3, <2>4
<1> QED
  BY <1>2, <1>3, <1>4, <1>5, <1>6, <1>7 DEF HandlesInv, HandlesKept

LEMMA UseHandleKeeps ==
  ASSUME HandlesInv, NEW c \in Callers, NEW h \in Handle, UseHandle(c, h)
  PROVE  HandlesInv'
<1>t. HandlesTypeOK
  BY DEF HandlesInv, HandlesKept
<1>h. call[c].at # "idle" => call[c].handle \in Handle
  BY DEF HandlesInv, CallsHold
<1>1. /\ call[c].at = "idle" /\ table' = table /\ files' = files /\ mine' = mine
      /\ CallSet(c, "using", h, NoFd)
  <2>1. call[c].at = "idle" /\ table' = table /\ files' = files /\ mine' = mine
    BY DEF UseHandle, NoCall
  <2>2. CallSet(c, "using", h, NoFd)
    BY <1>t, CallBegins DEF UseHandle, CallPlaces
  <2> QED
    BY <2>1, <2>2
<1>2. HandlesTypeOK'
  BY <1>t, <1>1 DEF HandlesTypeOK, TableSet, FileSet, CallSet, SlotRecords, CallRecords, CallPlaces
<1>3. CallsHold'
  BY <1>t, <1>h, <1>1, <1>2, HandlesApart DEF HandlesInv, HandlesKept, HandlesReachTheirFiles, NoDescriptorLost,
     CallsHold, CallsApart, OneDescriptorEach, TableSet, FileSet, CallSet, Building, Closing,
     InHand, InSlot, Nowhere
<1>4. CallsApart'
  BY <1>t, <1>h, <1>1, <1>2, HandlesApart DEF HandlesInv, HandlesKept, HandlesReachTheirFiles, NoDescriptorLost,
     CallsHold, CallsApart, OneDescriptorEach, TableSet, FileSet, CallSet, Building, Closing,
     InHand, InSlot, Nowhere
<1>5. OneDescriptorEach'
  BY <1>t, <1>h, <1>1, <1>2, HandlesApart DEF HandlesInv, HandlesKept, HandlesReachTheirFiles, NoDescriptorLost,
     CallsHold, CallsApart, OneDescriptorEach, TableSet, FileSet, CallSet, Building, Closing,
     InHand, InSlot, Nowhere
<1>6. HandlesReachTheirFiles'
  BY <1>t, <1>h, <1>1, <1>2, HandlesApart DEF HandlesInv, HandlesKept, HandlesReachTheirFiles, NoDescriptorLost,
     CallsHold, CallsApart, OneDescriptorEach, TableSet, FileSet, CallSet, Building, Closing,
     InHand, InSlot, Nowhere
<1>7. NoDescriptorLost'
  BY <1>t, <1>h, <1>1, <1>2, HandlesApart DEF HandlesInv, HandlesKept, HandlesReachTheirFiles, NoDescriptorLost,
     CallsHold, CallsApart, OneDescriptorEach, TableSet, FileSet, CallSet, Building, Closing,
     InHand, InSlot, Nowhere
<1> QED
  BY <1>2, <1>3, <1>4, <1>5, <1>6, <1>7 DEF HandlesInv, HandlesKept

LEMMA TransferredKeeps ==
  ASSUME HandlesInv, NEW c \in Callers, Transferred(c)
  PROVE  HandlesInv'
<1>t. HandlesTypeOK
  BY DEF HandlesInv, HandlesKept
<1>h. call[c].at # "idle" => call[c].handle \in Handle
  BY DEF HandlesInv, CallsHold
<1>1. /\ call[c].at = "using" /\ table' = table /\ files' = files /\ mine' = mine
      /\ CallSet(c, "idle", Nobody, NoFd)
  <2>1. call[c].at = "using" /\ table' = table /\ files' = files /\ mine' = mine
    BY DEF Transferred
  <2>2. CallSet(c, "idle", Nobody, NoFd)
    BY <1>t, CallEnds DEF Transferred
  <2> QED
    BY <2>1, <2>2
<1>2. HandlesTypeOK'
  BY <1>t, <1>1 DEF HandlesTypeOK, TableSet, FileSet, CallSet, SlotRecords, CallRecords, CallPlaces
<1>3. CallsHold'
  BY <1>t, <1>h, <1>1, <1>2, HandlesApart DEF HandlesInv, HandlesKept, HandlesReachTheirFiles, NoDescriptorLost,
     CallsHold, CallsApart, OneDescriptorEach, TableSet, FileSet, CallSet, Building, Closing,
     InHand, InSlot, Nowhere
<1>4. CallsApart'
  BY <1>t, <1>h, <1>1, <1>2, HandlesApart DEF HandlesInv, HandlesKept, HandlesReachTheirFiles, NoDescriptorLost,
     CallsHold, CallsApart, OneDescriptorEach, TableSet, FileSet, CallSet, Building, Closing,
     InHand, InSlot, Nowhere
<1>5. OneDescriptorEach'
  BY <1>t, <1>h, <1>1, <1>2, HandlesApart DEF HandlesInv, HandlesKept, HandlesReachTheirFiles, NoDescriptorLost,
     CallsHold, CallsApart, OneDescriptorEach, TableSet, FileSet, CallSet, Building, Closing,
     InHand, InSlot, Nowhere
<1>6. HandlesReachTheirFiles'
  BY <1>t, <1>h, <1>1, <1>2, HandlesApart DEF HandlesInv, HandlesKept, HandlesReachTheirFiles, NoDescriptorLost,
     CallsHold, CallsApart, OneDescriptorEach, TableSet, FileSet, CallSet, Building, Closing,
     InHand, InSlot, Nowhere
<1>7. NoDescriptorLost'
  BY <1>t, <1>h, <1>1, <1>2, HandlesApart DEF HandlesInv, HandlesKept, HandlesReachTheirFiles, NoDescriptorLost,
     CallsHold, CallsApart, OneDescriptorEach, TableSet, FileSet, CallSet, Building, Closing,
     InHand, InSlot, Nowhere
<1> QED
  BY <1>2, <1>3, <1>4, <1>5, <1>6, <1>7 DEF HandlesInv, HandlesKept

LEMMA HandlesStep == HandlesInv /\ [HandlesNext]_handleVars => HandlesInv'
<1> SUFFICES ASSUME HandlesInv, [HandlesNext]_handleVars PROVE HandlesInv'
  OBVIOUS
<1>1. ASSUME NEW c \in Callers, NEW k \in Kinds, Reserve(c, k) PROVE HandlesInv'
  BY <1>1, ReserveKeeps DEF Reserve, Lowest
<1>2. ASSUME NEW c \in Callers, OpenDevice(c) PROVE HandlesInv'
  <2>1. call[c].at \in {"opening", "retrying"}
    BY <1>2 DEF OpenDevice
  <2>2. CASE Opens(c)
    BY <2>1, <2>2, OpensKeeps DEF Opens, Lowest, FreeDescriptors
  <2>3. CASE GiveUp(c) /\ UNCHANGED <<files, mine>>
    BY <2>1, <2>3, GiveUpKeeps
  <2>4. CASE /\ call[c].at = "opening" /\ call' = [call EXCEPT ![c].at = "retrying"]
             /\ UNCHANGED <<table, files, mine>>
    BY <2>4, RetryKeeps
  <2> QED
    BY <1>2, <2>2, <2>3, <2>4 DEF OpenDevice
<1>3. ASSUME NEW c \in Callers, Configure(c) PROVE HandlesInv'
  BY <1>3, RefusedKeeps, ConfiguredKeeps DEF Configure
<1>4. ASSUME NEW c \in Callers, NEW h \in Handle, CloseHandle(c, h) \/ UseHandle(c, h)
      PROVE  HandlesInv'
  BY <1>4, CloseHandleKeeps, UseHandleKeeps
<1>5. ASSUME NEW c \in Callers,
             Record(c) \/ Publish(c) \/ CloseFile(c) \/ Forget(c) \/ Free(c) \/ Transferred(c)
      PROVE  HandlesInv'
  BY <1>5, RecordKeeps, PublishKeeps, CloseFileKeeps, ForgetKeeps, FreeKeeps, TransferredKeeps
<1>6. CASE UNCHANGED handleVars
  BY <1>6 DEF handleVars, HandlesInv, HandlesKept, HandlesTypeOK, HandlesReachTheirFiles,
     NoDescriptorLost, CallsHold, CallsApart, OneDescriptorEach
<1> QED
  BY <1>1, <1>2, <1>3, <1>4, <1>5, <1>6 DEF HandlesNext

(* A handle reaches the file that was opened for it, and nothing stays     *)
(* open without one, on every way out of i2cOpen, serOpen, fileOpen and    *)
(* the closes, for any number of callers, slots and descriptors.           *)
THEOREM HandlesKeptAlways == HandlesSpec => []HandlesKept
<1>1. HandlesInit => HandlesInv
  BY HandlesBegin
<1>2. HandlesInv /\ [HandlesNext]_handleVars => HandlesInv'
  BY HandlesStep
<1>3. HandlesInv => HandlesKept
  BY DEF HandlesInv
<1> QED
  BY <1>1, <1>2, <1>3, PTL DEF HandlesSpec

-----------------------------------------------------------------------------
(***************************************************************************)
(* The pins of the SPI devices follow the handles, for any users, slots    *)
(* and flags.                                                              *)
(***************************************************************************)
At(u, places) == doing[u].at \in places
On(u, d) == doing[u].flags.device = d
Busy(u, d) == ~At(u, {"rest"}) /\ On(u, d)

(* the slots a thread has to itself: its handles and that of its call      *)
OwnSlots(u) ==
  held[u] \cup (IF At(u, {"recording", "publishing", "marking"}) THEN {doing[u].slot} ELSE {})

SlotsOwned ==
  \A u \in Users :
    /\ \A v \in Users \ {u} : OwnSlots(u) \cap OwnSlots(v) = {}
    /\ \A s \in held[u] : spiInfo[s].state = "OPENED"
    /\ At(u, {"recording", "publishing", "marking", "counting", "restoring"}) =>
         doing[u].slot \in SpiSlot
    /\ At(u, {"recording", "publishing"}) => spiInfo[doing[u].slot].state = "RESERVED"
    /\ At(u, {"publishing", "marking"}) => spiInfo[doing[u].slot].flags = doing[u].flags
    /\ At(u, {"marking"}) =>
         /\ spiInfo[doing[u].slot].state = "OPENED"
         /\ doing[u].slot \notin held[u]

(* a close that overlaps nothing finds its slot as it left it, and comes to *)
(* restore the modes only where nothing is open                            *)
ClosesAlone ==
  ~crossed =>
    \A u \in Users :
      /\ At(u, SpiClosing) => \A v \in Users \ {u} : At(v, {"rest"})
      /\ At(u, {"counting"}) => spiInfo[doing[u].slot].flags = doing[u].flags
      /\ At(u, {"restoring"}) => ~AnyOpen(doing[u].flags.device)

(* who has put the pins in SPI mode or found them so goes on with them so  *)
OpenInSpiMode ==
  ~crossed =>
    /\ \A s \in SpiSlot : spiInfo[s].state = "OPENED" =>
                            mode[<<spiInfo[s].flags.device, "bus">>] = "spi"
    /\ \A u \in Users : At(u, {"reserving", "recording", "publishing"}) =>
                          mode[<<doing[u].flags.device, "bus">>] = "spi"

(* calls on a device that came one at a time saved the modes it began with, *)
(* and leave them set over only while they need to                         *)
OneOn(d) ==
  /\ \A u, v \in Users : Busy(u, d) /\ Busy(v, d) => u = v
  /\ saved[<<d, "bus">>] = "gpio"
  /\ \A u \in Users : Busy(u, d) /\ At(u, {"saving", "setting"}) => ~AnyOpen(d)
  /\ (/\ ~AnyOpen(d)
      /\ \A u \in Users : Busy(u, d) => At(u, {"asking", "saving", "setting", "marking"}))
     => mode[<<d, "bus">>] = "gpio"

OneAtATime == ~crossed => \A d \in Devices \ disturbed : OneOn(d)

SpiInv == SpiTypeOK /\ SlotsOwned /\ ClosesAlone /\ OpenInSpiMode /\ OneAtATime

LEMMA SpiInvImplies ==
  ASSUME SpiInv
  PROVE  SpiModesKept
<1>1. HeldBusInSpiMode
  BY DEF SpiInv, SpiTypeOK, SlotsOwned, OpenInSpiMode, HeldBusInSpiMode
<1>2. LastCloseRestoresBus
  <2> SUFFICES ASSUME NEW d \in Devices \ disturbed, ~crossed, ~AnyOpen(d),
                      \A u \in Users : doing[u].flags.device # d \/ doing[u] = Resting
               PROVE  mode[<<d, "bus">>] = "gpio"
    BY DEF LastCloseRestoresBus
  <2>1. \A u \in Users : ~Busy(u, d)
    BY DEF Busy, On, At, Resting
  <2> QED
    BY <2>1 DEF SpiInv, OneAtATime, OneOn
<1>3. SpiHandlesDistinct
  BY DEF SpiInv, SlotsOwned, OwnSlots, SpiHandlesDistinct
<1> QED
  BY <1>1, <1>2, <1>3 DEF SpiInv, SpiModesKept

LEMMA SpiInvHolds ==
  SpiInit => SpiInv
<1> SUFFICES ASSUME SpiInit
             PROVE  SpiInv
  OBVIOUS
<1>1. SpiTypeOK
  BY DEF SpiInit, SpiTypeOK, Flags, NoFlags, Devices, Resting
<1>2. SlotsOwned
  BY DEF SpiInit, SlotsOwned, OwnSlots, At, Resting
<1>3. ClosesAlone
  BY DEF SpiInit, ClosesAlone, SpiClosing, At, Resting
<1>4. OpenInSpiMode
  BY DEF SpiInit, OpenInSpiMode, At, Resting
<1>5. OneAtATime
  BY DEF SpiInit, OneAtATime, OneOn, At, Busy, Resting, Groups
<1> QED
  BY <1>1, <1>2, <1>3, <1>4, <1>5 DEF SpiInv



(* what one thread may do                                                  *)
SpiStep(u) ==
  \/ \E f \in [device : Devices, resvd : Resvds] : spiOpen(u, f)
  \/ AskFirst(u) \/ SaveModes(u) \/ SetModes(u)
  \/ ReserveSlot(u) \/ RecordFlags(u) \/ PublishSlot(u)
  \/ \E s \in SpiSlot : spiClose(u, s)
  \/ MarkClosed(u) \/ AskLast(u) \/ spiTerm(u)

SpiCall == [at : {"rest"} \cup SpiOpening \cup SpiClosing, flags : Flags,
            slot : SpiSlot \cup {NoSlot}]

LEMMA RestingTyped ==
  Resting \in SpiCall
BY DEF SpiCall, Resting, NoFlags, Flags, Devices

LEMMA FlagsTyped ==
  [device : Devices, resvd : Resvds] \subseteq Flags
BY SpiAssumption DEF Flags

(* a reservation takes a closed slot and is recorded as the thread's       *)
LEMMA SlotReserved ==
  ASSUME SpiInv, NEW u \in Users, ReserveSlot(u), Unused # {}
  PROVE  \E s \in SpiSlot :
           /\ spiInfo[s].state = "CLOSED"
           /\ spiInfo' = [spiInfo EXCEPT ![s].state = "RESERVED"]
           /\ doing' = [doing EXCEPT ![u] = [at |-> "recording", slot |-> s,
                                            flags |-> doing[u].flags]]
BY DEF ReserveSlot, Unused

LEMMA SpiTypesKept ==
  ASSUME SpiInv, NEW u \in Users, SpiStep(u)
  PROVE  SpiTypeOK'
<1>1. CASE \E f \in [device : Devices, resvd : Resvds] : spiOpen(u, f)
  <2> PICK f \in [device : Devices, resvd : Resvds] : spiOpen(u, f)
    BY <1>1
  <2> DEFINE after == [at |-> "asking", flags |-> f, slot |-> NoSlot]
  <2>1. f \in Flags /\ after \in SpiCall /\ f.device \in Devices
    <3>1. f \in Flags
      BY FlagsTyped
    <3> QED
      BY <3>1 DEF SpiCall, SpiOpening, Flags
  <2>2. doing' = [doing EXCEPT ![u] = after]
    BY DEF spiOpen
  <2>3. doing' \in [Users -> SpiCall]
    <3> HIDE DEF after
    <3> QED BY <2>1, <2>2 DEF SpiInv, SpiTypeOK, SpiCall
  <2>4. crossed' \in BOOLEAN /\ disturbed' \subseteq Devices
    BY <2>1 DEF spiOpen, NoteOverlap, SpiInv, SpiTypeOK
  <2> QED
    BY <2>3, <2>4 DEF spiOpen, SpiInv, SpiTypeOK, SpiCall
<1>2. CASE AskFirst(u)
  BY <1>2 DEF AskFirst, SpiGoes, SpiInv, SpiTypeOK, SpiOpening, SpiClosing
<1>3. CASE SaveModes(u)
  BY <1>3 DEF SaveModes, SpiGoes, SpiInv, SpiTypeOK, SpiOpening, SpiClosing
<1>4. CASE SetModes(u)
  BY <1>4 DEF SetModes, SpiGoes, Touched, SpiInv, SpiTypeOK, SpiOpening, SpiClosing
<1>5. CASE ReserveSlot(u)
  <2>1. CASE Unused = {}
    <3>1. doing' = [doing EXCEPT ![u] = Resting]
      BY <1>5, <2>1 DEF ReserveSlot
    <3>2. doing' \in [Users -> SpiCall]
      BY <3>1, RestingTyped DEF SpiInv, SpiTypeOK, SpiCall
    <3>3. doing[u].flags.device \in Devices
      BY DEF SpiInv, SpiTypeOK, Flags
    <3> QED
      BY <1>5, <2>1, <3>2, <3>3 DEF ReserveSlot, SpiInv, SpiTypeOK, SpiCall
  <2>2. CASE Unused # {}
    <3> PICK s \in SpiSlot :
               /\ spiInfo' = [spiInfo EXCEPT ![s].state = "RESERVED"]
               /\ doing' = [doing EXCEPT ![u] = [at |-> "recording", slot |-> s,
                                                flags |-> doing[u].flags]]
      BY <1>5, <2>2, SlotReserved
    <3> DEFINE after == [at |-> "recording", slot |-> s, flags |-> doing[u].flags]
    <3>1. after \in SpiCall
      BY DEF SpiInv, SpiTypeOK, SpiCall, SpiOpening
    <3>2. doing' \in [Users -> SpiCall]
      <4> HIDE DEF after
      <4>1. doing' = [doing EXCEPT ![u] = after]
        BY DEF after
      <4> QED BY <3>1, <4>1 DEF SpiInv, SpiTypeOK, SpiCall
    <3>3. spiInfo' \in [SpiSlot -> [state : {"CLOSED", "RESERVED", "OPENED"}, flags : Flags]]
      BY DEF SpiInv, SpiTypeOK
    <3> QED
      BY <1>5, <2>2, <3>2, <3>3 DEF ReserveSlot, SpiInv, SpiTypeOK, SpiCall
  <2> QED
    BY <2>1, <2>2
<1>6. CASE RecordFlags(u)
  BY <1>6 DEF RecordFlags, SpiGoes, SpiInv, SpiTypeOK, SlotsOwned, At, SpiOpening, SpiClosing
<1>7. CASE PublishSlot(u)
  <2>1. doing' \in [Users -> SpiCall]
    BY <1>7, RestingTyped DEF PublishSlot, SpiInv, SpiTypeOK, SpiCall
  <2>2. doing[u].slot \in SpiSlot
    BY <1>7 DEF PublishSlot, SpiInv, SlotsOwned, At
  <2>3. held' \in [Users -> SUBSET SpiSlot]
    BY <1>7, <2>2 DEF PublishSlot, SpiInv, SpiTypeOK
  <2>4. spiInfo' \in [SpiSlot -> [state : {"CLOSED", "RESERVED", "OPENED"}, flags : Flags]]
    BY <1>7, <2>2 DEF PublishSlot, SpiInv, SpiTypeOK
  <2> QED
    BY <1>7, <2>1, <2>3, <2>4 DEF PublishSlot, SpiInv, SpiTypeOK, SpiCall
<1>8. CASE \E s \in SpiSlot : spiClose(u, s)
  <2> PICK s \in SpiSlot : spiClose(u, s)
    BY <1>8
  <2> DEFINE after == [at |-> "marking", slot |-> s, flags |-> spiInfo[s].flags]
  <2>1. spiInfo[s].flags \in Flags /\ spiInfo[s].flags.device \in Devices
    BY DEF SpiInv, SpiTypeOK, Flags
  <2>2. after \in SpiCall
    BY <2>1 DEF SpiCall, SpiClosing
  <2>3. doing' = [doing EXCEPT ![u] = after]
    BY DEF spiClose
  <2>4. doing' \in [Users -> SpiCall]
    <3> HIDE DEF after
    <3> QED BY <2>2, <2>3 DEF SpiInv, SpiTypeOK, SpiCall
  <2>5. crossed' \in BOOLEAN /\ disturbed' \subseteq Devices
    BY <2>1 DEF spiClose, NoteOverlap, SpiInv, SpiTypeOK
  <2> QED
    BY <2>4, <2>5 DEF spiClose, SpiInv, SpiTypeOK, SpiCall
<1>9. CASE MarkClosed(u)
  BY <1>9 DEF MarkClosed, SpiGoes, SpiInv, SpiTypeOK, SlotsOwned, At, SpiOpening, SpiClosing
<1>10. CASE AskLast(u)
  <2> DEFINE flags == spiInfo[doing[u].slot].flags
             after == [at |-> "restoring", slot |-> doing[u].slot, flags |-> flags]
  <2>1. doing[u].slot \in SpiSlot
    BY <1>10 DEF AskLast, SpiInv, SlotsOwned, At
  <2>2. flags \in Flags
    BY <2>1 DEF SpiInv, SpiTypeOK
  <2>3. after \in SpiCall
    BY <2>1, <2>2 DEF SpiCall, SpiClosing
  <2>4. \/ doing' = [doing EXCEPT ![u] = Resting]
        \/ doing' = [doing EXCEPT ![u] = after]
    BY <1>10 DEF AskLast
  <2>5. doing' \in [Users -> SpiCall]
    <3> HIDE DEF after
    <3> QED BY <2>3, <2>4, <2>2, RestingTyped DEF SpiInv, SpiTypeOK, SpiCall
  <2> QED
    BY <1>10, <2>5 DEF AskLast, SpiInv, SpiTypeOK, SpiCall
<1>11. CASE spiTerm(u)
  <2>1. doing' \in [Users -> SpiCall]
    BY <1>11, RestingTyped DEF spiTerm, SpiInv, SpiTypeOK, SpiCall
  <2>2. mode' \in [Devices \X Groups -> {"gpio", "spi"}]
    BY <1>11 DEF spiTerm, SpiInv, SpiTypeOK
  <2> QED
    BY <1>11, <2>1, <2>2 DEF spiTerm, SpiInv, SpiTypeOK, SpiCall
<1> QED
  BY <1>1, <1>2, <1>3, <1>4, <1>5, <1>6, <1>7, <1>8, <1>9, <1>10, <1>11 DEF SpiStep

LEMMA SlotsStayOwned ==
  ASSUME SpiInv, NEW u \in Users, SpiStep(u)
  PROVE  SlotsOwned'
<1> USE DEF SpiInv, SpiTypeOK, SlotsOwned, OwnSlots, At
<1>1. CASE \E f \in [device : Devices, resvd : Resvds] : spiOpen(u, f)
  BY <1>1 DEF spiOpen, NoteOverlap
<1>2. CASE AskFirst(u)
  BY <1>2 DEF AskFirst, SpiGoes
<1>3. CASE SaveModes(u)
  BY <1>3 DEF SaveModes, SpiGoes
<1>4. CASE SetModes(u)
  BY <1>4 DEF SetModes, SpiGoes, Touched
<1>5. CASE ReserveSlot(u)
  <2>1. CASE Unused = {}
    BY <1>5, <2>1 DEF ReserveSlot, Resting
  <2>2. CASE Unused # {}
    <3>1. PICK s \in SpiSlot :
               /\ spiInfo[s].state = "CLOSED"
               /\ spiInfo' = [spiInfo EXCEPT ![s].state = "RESERVED"]
               /\ doing' = [doing EXCEPT ![u] = [at |-> "recording", slot |-> s,
                                                flags |-> doing[u].flags]]
      BY <1>5, <2>2, SlotReserved
    <3>2. \A v \in Users : s \notin OwnSlots(v)
      BY <3>1
    <3>3. held' = held
      BY <1>5 DEF ReserveSlot
    <3>4. /\ doing'[u].at = "recording" /\ doing'[u].slot = s
          /\ \A v \in Users \ {u} : doing'[v] = doing[v]
      BY <3>1
    <3>5. /\ spiInfo'[s].state = "RESERVED"
          /\ \A r \in SpiSlot \ {s} : spiInfo'[r] = spiInfo[r]
      BY <3>1
    <3>6. doing[u].at = "reserving"
      BY <1>5 DEF ReserveSlot
    <3>7. /\ OwnSlots(u)' = OwnSlots(u) \cup {s}
          /\ \A v \in Users \ {u} : OwnSlots(v)' = OwnSlots(v)
      BY <3>3, <3>4, <3>6
    <3>8. \A v, w \in Users : v # w => OwnSlots(v)' \cap OwnSlots(w)' = {}
      <4> HIDE DEF OwnSlots
      <4> QED BY <3>2, <3>7
    <3>9. \A v \in Users : \A r \in held'[v] : spiInfo'[r].state = "OPENED"
      BY <3>1, <3>3, <3>5
    <3>10. ASSUME NEW v \in Users \ {u}
           PROVE  /\ At(v, {"recording", "publishing"})' => spiInfo'[doing'[v].slot].state = "RESERVED"
                  /\ At(v, {"publishing", "marking"})' =>
                       spiInfo'[doing'[v].slot].flags = doing'[v].flags
                  /\ At(v, {"marking"})' =>
                       /\ spiInfo'[doing'[v].slot].state = "OPENED"
                       /\ doing'[v].slot \notin held'[v]
      BY <3>1, <3>3, <3>4, <3>5
    <3> QED
      BY <3>4, <3>5, <3>8, <3>9, <3>10
  <2> QED
    BY <2>1, <2>2
<1>6. CASE RecordFlags(u)
  BY <1>6 DEF RecordFlags, SpiGoes
<1>7. CASE PublishSlot(u)
  BY <1>7 DEF PublishSlot, Resting
<1>8. CASE \E s \in SpiSlot : spiClose(u, s)
  BY <1>8 DEF spiClose, NoteOverlap
<1>9. CASE MarkClosed(u)
  BY <1>9 DEF MarkClosed, SpiGoes
<1>10. CASE AskLast(u)
  BY <1>10 DEF AskLast, Resting
<1>11. CASE spiTerm(u)
  BY <1>11 DEF spiTerm, Resting, Touched
<1> QED
  BY <1>1, <1>2, <1>3, <1>4, <1>5, <1>6, <1>7, <1>8, <1>9, <1>10, <1>11 DEF SpiStep

LEMMA ClosesStayAlone ==
  ASSUME SpiInv, NEW u \in Users, SpiStep(u)
  PROVE  ClosesAlone'
<1> USE DEF SpiInv, SpiTypeOK, SpiOpening, SpiClosing, ClosesAlone, SlotsOwned, AnyOpen, At
<1>1. CASE \E f \in [device : Devices, resvd : Resvds] : spiOpen(u, f)
  <2>1. \A v \in Users \ {u} : doing'[v] = doing[v]
    BY <1>1 DEF spiOpen
  <2>2. doing'[u].at = "asking" /\ spiInfo' = spiInfo
    BY <1>1 DEF spiOpen
  <2>3. ~crossed' => ~crossed /\ \A v \in Users \ {u} : doing[v].at \notin SpiClosing
    BY <1>1 DEF spiOpen, NoteOverlap
  <2> QED
    BY <2>1, <2>2, <2>3
<1>2. CASE AskFirst(u)
  BY <1>2 DEF AskFirst, SpiGoes
<1>3. CASE SaveModes(u)
  BY <1>3 DEF SaveModes, SpiGoes
<1>4. CASE SetModes(u)
  BY <1>4 DEF SetModes, SpiGoes, Touched
<1>5. CASE ReserveSlot(u)
  BY <1>5 DEF ReserveSlot, Resting, Unused
<1>6. CASE RecordFlags(u)
  BY <1>6 DEF RecordFlags, SpiGoes
<1>7. CASE PublishSlot(u)
  BY <1>7 DEF PublishSlot, Resting
<1>8. CASE \E s \in SpiSlot : spiClose(u, s)
  <2>1. \A v \in Users \ {u} : doing'[v] = doing[v]
    BY <1>8 DEF spiClose
  <2>2. doing'[u].at = "marking"
    BY <1>8 DEF spiClose
  <2>3. ~crossed' => \A v \in Users \ {u} : doing[v].at = "rest"
    BY <1>8 DEF spiClose, NoteOverlap
  <2> QED
    BY <2>1, <2>2, <2>3
<1>9. CASE MarkClosed(u)
  BY <1>9 DEF MarkClosed, SpiGoes
<1>10. CASE AskLast(u)
  BY <1>10 DEF AskLast, Resting
<1>11. CASE spiTerm(u)
  BY <1>11 DEF spiTerm, Resting, Touched
<1> QED
  BY <1>1, <1>2, <1>3, <1>4, <1>5, <1>6, <1>7, <1>8, <1>9, <1>10, <1>11 DEF SpiStep

LEMMA OpenStaysInSpiMode ==
  ASSUME SpiInv, NEW u \in Users, SpiStep(u)
  PROVE  OpenInSpiMode'
<1> USE DEF SpiInv, SpiTypeOK, SpiOpening, SpiClosing, ClosesAlone, OpenInSpiMode, SlotsOwned, AnyOpen, At
<1>1. CASE \E f \in [device : Devices, resvd : Resvds] : spiOpen(u, f)
  BY <1>1 DEF spiOpen, NoteOverlap
<1>2. CASE AskFirst(u)
  BY <1>2 DEF AskFirst, SpiGoes
<1>3. CASE SaveModes(u)
  BY <1>3 DEF SaveModes, SpiGoes
<1>4. CASE SetModes(u)
  <2>1. \A d \in Devices : mode[<<d, "bus">>] = "spi" => mode'[<<d, "bus">>] = "spi"
    BY <1>4 DEF SetModes, Groups
  <2>2. mode'[<<doing[u].flags.device, "bus">>] = "spi"
    <3>1. <<doing[u].flags.device, "bus">> \in Touched(doing[u].flags)
      BY DEF Touched, Groups
    <3>2. <<doing[u].flags.device, "bus">> \in DOMAIN mode
      BY DEF Flags, Groups
    <3> QED BY <1>4, <3>1, <3>2 DEF SetModes
  <2>3. /\ \A v \in Users \ {u} : doing'[v] = doing[v]
        /\ doing'[u].at = "reserving" /\ doing'[u].flags = doing[u].flags
        /\ spiInfo' = spiInfo /\ crossed' = crossed
    BY <1>4 DEF SetModes, SpiGoes
  <2>4. /\ \A v \in Users : doing[v].flags.device \in Devices
        /\ \A r \in SpiSlot : spiInfo[r].flags.device \in Devices
    BY DEF Flags
  <2>5. \A r \in SpiSlot :
          ~crossed /\ spiInfo[r].state = "OPENED" => mode'[<<spiInfo[r].flags.device, "bus">>] = "spi"
    BY <2>1, <2>4
  <2>6. ASSUME NEW v \in Users \ {u}, ~crossed, At(v, {"reserving", "recording", "publishing"})
        PROVE  mode'[<<doing[v].flags.device, "bus">>] = "spi"
    BY <2>1, <2>4, <2>6
  <2> HIDE DEF SpiInv, SpiTypeOK
  <2> QED
    BY <2>2, <2>3, <2>5, <2>6
<1>5. CASE ReserveSlot(u)
  <2>1. CASE Unused = {}
    BY <1>5, <2>1 DEF ReserveSlot, Resting
  <2>2. CASE Unused # {}
    <3>1. PICK s \in SpiSlot :
               /\ spiInfo[s].state = "CLOSED"
               /\ spiInfo' = [spiInfo EXCEPT ![s].state = "RESERVED"]
               /\ doing' = [doing EXCEPT ![u] = [at |-> "recording", slot |-> s,
                                                flags |-> doing[u].flags]]
      BY <1>5, <2>2, SlotReserved
    <3>2. /\ \A v \in Users \ {u} : doing'[v] = doing[v]
          /\ doing'[u].flags = doing[u].flags /\ doing[u].at = "reserving"
      BY <1>5, <3>1 DEF ReserveSlot
    <3>3. \A r \in SpiSlot : spiInfo'[r].state = "OPENED" => spiInfo'[r] = spiInfo[r]
      BY <3>1
    <3>4. mode' = mode /\ crossed' = crossed
      BY <1>5 DEF ReserveSlot
    <3> QED
      BY <3>2, <3>3, <3>4
  <2> QED
    BY <2>1, <2>2
<1>6. CASE RecordFlags(u)
  BY <1>6 DEF RecordFlags, SpiGoes
<1>7. CASE PublishSlot(u)
  BY <1>7 DEF PublishSlot, Resting
<1>8. CASE \E s \in SpiSlot : spiClose(u, s)
  BY <1>8 DEF spiClose, NoteOverlap
<1>9. CASE MarkClosed(u)
  BY <1>9 DEF MarkClosed, SpiGoes
<1>10. CASE AskLast(u)
  BY <1>10 DEF AskLast, Resting
<1>11. CASE spiTerm(u)
  <2> SUFFICES ASSUME ~crossed
               PROVE  OpenInSpiMode'
    BY <1>11 DEF spiTerm
  <2>1. \A v \in Users : doing'[v].at = "rest"
    BY <1>11 DEF spiTerm, Resting
  <2>2. \A d \in Devices : d # doing[u].flags.device => mode'[<<d, "bus">>] = mode[<<d, "bus">>]
    BY <1>11 DEF spiTerm, Touched, Groups
  <2>3. \A r \in SpiSlot : spiInfo[r].state = "OPENED" =>
          spiInfo[r].flags.device \in Devices \ {doing[u].flags.device}
    BY <1>11 DEF spiTerm, Flags
  <2>4. \A r \in SpiSlot : spiInfo[r].state = "OPENED" =>
          mode'[<<spiInfo[r].flags.device, "bus">>] = "spi"
    BY <2>2, <2>3
  <2>5. spiInfo' = spiInfo
    BY <1>11 DEF spiTerm
  <2> HIDE DEF SpiInv, SpiTypeOK
  <2> QED
    BY <2>1, <2>4, <2>5
<1> QED
  BY <1>1, <1>2, <1>3, <1>4, <1>5, <1>6, <1>7, <1>8, <1>9, <1>10, <1>11 DEF SpiStep

(* the device a call is on stays its own; nobody else's calls are disturbed *)
LEMMA OthersKeep ==
  ASSUME SpiInv, NEW u \in Users, SpiStep(u)
  PROVE  /\ \A v \in Users \ {u} : doing'[v] = doing[v]
         /\ crossed => crossed'
         /\ disturbed \subseteq disturbed'
<1> USE DEF SpiInv, SpiTypeOK
<1>1. CASE \E f \in [device : Devices, resvd : Resvds] : spiOpen(u, f)
  BY <1>1 DEF spiOpen, NoteOverlap
<1>2. CASE \E s \in SpiSlot : spiClose(u, s)
  BY <1>2 DEF spiClose, NoteOverlap
<1>3. CASE AskFirst(u)
  BY <1>3 DEF AskFirst, SpiGoes
<1>4. CASE SaveModes(u)
  BY <1>4 DEF SaveModes, SpiGoes
<1>5. CASE SetModes(u)
  BY <1>5 DEF SetModes, SpiGoes
<1>6. CASE ReserveSlot(u)
  BY <1>6 DEF ReserveSlot
<1>7. CASE RecordFlags(u)
  BY <1>7 DEF RecordFlags, SpiGoes
<1>8. CASE PublishSlot(u)
  BY <1>8 DEF PublishSlot
<1>9. CASE MarkClosed(u)
  BY <1>9 DEF MarkClosed, SpiGoes
<1>10. CASE AskLast(u)
  BY <1>10 DEF AskLast
<1>11. CASE spiTerm(u)
  BY <1>11 DEF spiTerm
<1> QED
  BY <1>1, <1>2, <1>3, <1>4, <1>5, <1>6, <1>7, <1>8, <1>9, <1>10, <1>11 DEF SpiStep

LEMMA StaysOneAtATime ==
  ASSUME SpiInv, NEW u \in Users, SpiStep(u)
  PROVE  OneAtATime'
<1> SUFFICES ASSUME ~crossed', NEW d \in Devices \ disturbed'
             PROVE  OneOn(d)'
  BY DEF OneAtATime
<1> DEFINE Same == /\ (AnyOpen(d)' <=> AnyOpen(d))
                   /\ saved'[<<d, "bus">>] = saved[<<d, "bus">>]
                   /\ mode'[<<d, "bus">>] = mode[<<d, "bus">>]
           Goes(f, to) == doing'[u].at = to /\ doing'[u].flags = f
<1>1. ~crossed /\ d \notin disturbed
  BY OthersKeep
<1>2. OneOn(d)
  BY <1>1 DEF SpiInv, OneAtATime
<1>3. \A v \in Users \ {u} : doing'[v] = doing[v]
  BY OthersKeep
<1>4. CASE \E f \in [device : Devices, resvd : Resvds] : spiOpen(u, f)
  <2> PICK f \in [device : Devices, resvd : Resvds] : spiOpen(u, f)
    BY <1>4
  <2>1. Same /\ Goes(f, "asking")
    BY DEF spiOpen, AnyOpen, SpiInv, SpiTypeOK
  <2>2. f.device = d => \A v \in Users \ {u} : ~Busy(v, d)
    BY DEF spiOpen, NoteOverlap, Busy, On, At
  <2>3. doing[u].at = "rest"
    BY DEF spiOpen, Resting
  <2> QED
    BY <1>2, <1>3, <2>1, <2>2, <2>3 DEF OneOn, Busy, On, At
<1>5. CASE AskFirst(u)
  <2>1. Same /\ \E at \in {"reserving", "saving"} :
                  Goes(doing[u].flags, at) /\ (at = "saving" <=> ~AnyOpen(doing[u].flags.device))
    <3>1. Same
      BY <1>5 DEF AskFirst, AnyOpen
    <3>2. doing' = [doing EXCEPT ![u].at = IF AnyOpen(doing[u].flags.device)
                                           THEN "reserving" ELSE "saving"]
      BY <1>5 DEF AskFirst, SpiGoes
    <3> HIDE DEF Same
    <3>3. CASE AnyOpen(doing[u].flags.device)
      BY <3>1, <3>2, <3>3 DEF SpiInv, SpiTypeOK
    <3>4. CASE ~AnyOpen(doing[u].flags.device)
      BY <3>1, <3>2, <3>4 DEF SpiInv, SpiTypeOK
    <3> QED
      BY <3>3, <3>4
  <2>2. doing[u].at = "asking"
    BY <1>5 DEF AskFirst
  <2> QED
    BY <1>2, <1>3, <2>1, <2>2 DEF OneOn, Busy, On, At
<1>6. CASE SaveModes(u)
  <2>1. /\ (AnyOpen(d)' <=> AnyOpen(d)) /\ mode'[<<d, "bus">>] = mode[<<d, "bus">>]
        /\ Goes(doing[u].flags, "setting")
    BY <1>6 DEF SaveModes, SpiGoes, AnyOpen, SpiInv, SpiTypeOK
  <2>2. saved'[<<d, "bus">>] = IF d = doing[u].flags.device THEN mode[<<d, "bus">>]
                               ELSE saved[<<d, "bus">>]
    BY <1>6 DEF SaveModes, SpiInv, SpiTypeOK, Groups
  <2>3. doing[u].at = "saving"
    BY <1>6 DEF SaveModes
  <2> QED
    BY <1>2, <1>3, <2>1, <2>2, <2>3 DEF OneOn, Busy, On, At
<1>7. CASE SetModes(u)
  <2>1. /\ (AnyOpen(d)' <=> AnyOpen(d)) /\ saved'[<<d, "bus">>] = saved[<<d, "bus">>]
        /\ Goes(doing[u].flags, "reserving")
    BY <1>7 DEF SetModes, SpiGoes, AnyOpen, SpiInv, SpiTypeOK
  <2>2. d # doing[u].flags.device => mode'[<<d, "bus">>] = mode[<<d, "bus">>]
    BY <1>7 DEF SetModes, Touched, SpiInv, SpiTypeOK, Groups
  <2>3. doing[u].at = "setting"
    BY <1>7 DEF SetModes
  <2> QED
    BY <1>2, <1>3, <2>1, <2>2, <2>3 DEF OneOn, Busy, On, At
<1>8. CASE ReserveSlot(u)
  <2>1. doing[u].at = "reserving" /\ saved' = saved /\ mode' = mode
    BY <1>8 DEF ReserveSlot
  <2>2. CASE Unused = {}
    <3>1. doing'[u].at = "rest" /\ spiInfo' = spiInfo /\ d # doing[u].flags.device
      BY <1>8, <2>2 DEF ReserveSlot, Resting, SpiInv, SpiTypeOK
    <3>2. AnyOpen(d)' <=> AnyOpen(d)
      BY <3>1 DEF AnyOpen
    <3> QED
      BY <1>2, <1>3, <2>1, <3>1, <3>2 DEF OneOn, Busy, On, At
  <2>3. CASE Unused # {}
    <3>1. PICK s \in SpiSlot :
               /\ spiInfo[s].state = "CLOSED"
               /\ spiInfo' = [spiInfo EXCEPT ![s].state = "RESERVED"]
               /\ doing' = [doing EXCEPT ![u] = [at |-> "recording", slot |-> s,
                                                flags |-> doing[u].flags]]
      BY <1>8, <2>3, SlotReserved
    <3>2. Goes(doing[u].flags, "recording")
      BY <3>1 DEF SpiInv, SpiTypeOK
    <3>3. AnyOpen(d)' <=> AnyOpen(d)
      BY <3>1 DEF AnyOpen, SpiInv, SpiTypeOK
    <3> QED
      BY <1>2, <1>3, <2>1, <3>2, <3>3 DEF OneOn, Busy, On, At
  <2> QED
    BY <2>2, <2>3
<1>9. CASE RecordFlags(u)
  <2>1. doing[u].at = "recording" /\ saved' = saved /\ mode' = mode
    BY <1>9 DEF RecordFlags
  <2>2. Goes(doing[u].flags, "publishing")
    BY <1>9 DEF RecordFlags, SpiGoes, SpiInv, SpiTypeOK
  <2>3. AnyOpen(d)' <=> AnyOpen(d)
    <3>1. doing[u].slot \in SpiSlot /\ spiInfo[doing[u].slot].state = "RESERVED"
      BY <2>1 DEF SpiInv, SlotsOwned, At
    <3> QED
      BY <1>9, <3>1 DEF RecordFlags, AnyOpen, SpiInv, SpiTypeOK
  <2> QED
    BY <1>2, <1>3, <2>1, <2>2, <2>3 DEF OneOn, Busy, On, At
<1>10. CASE PublishSlot(u)
  <2>1. doing[u].at = "publishing" /\ saved' = saved /\ mode' = mode
    BY <1>10 DEF PublishSlot
  <2>2. doing'[u].at = "rest"
    BY <1>10 DEF PublishSlot, Resting, SpiInv, SpiTypeOK
  <2>3. AnyOpen(d)' <=> AnyOpen(d) \/ doing[u].flags.device = d
    <3>1. /\ doing[u].slot \in SpiSlot /\ spiInfo[doing[u].slot].state = "RESERVED"
          /\ spiInfo[doing[u].slot].flags = doing[u].flags
      BY <2>1 DEF SpiInv, SlotsOwned, At
    <3> QED
      BY <1>10, <3>1 DEF PublishSlot, AnyOpen, SpiInv, SpiTypeOK
  <2> QED
    BY <1>2, <1>3, <2>1, <2>2, <2>3 DEF OneOn, Busy, On, At
<1>11. CASE \E s \in SpiSlot : spiClose(u, s)
  <2> PICK s \in SpiSlot : spiClose(u, s)
    BY <1>11
  <2>1. Same /\ Goes(spiInfo[s].flags, "marking")
    BY DEF spiClose, AnyOpen, SpiInv, SpiTypeOK
  <2>2. spiInfo[s].flags.device = d => AnyOpen(d) /\ \A v \in Users \ {u} : ~Busy(v, d)
    BY DEF spiClose, NoteOverlap, AnyOpen, Busy, On, At
  <2>3. doing[u].at = "rest"
    BY DEF spiClose, Resting
  <2> QED
    BY <1>2, <1>3, <2>1, <2>2, <2>3 DEF OneOn, Busy, On, At
<1>12. CASE MarkClosed(u)
  <2>1. doing[u].at = "marking" /\ saved' = saved /\ mode' = mode
    BY <1>12 DEF MarkClosed
  <2>2. Goes(doing[u].flags, "counting")
    BY <1>12 DEF MarkClosed, SpiGoes, SpiInv, SpiTypeOK
  <2>3. /\ AnyOpen(d)' => AnyOpen(d)
        /\ d # doing[u].flags.device => (AnyOpen(d)' <=> AnyOpen(d))
    <3>1. doing[u].slot \in SpiSlot /\ spiInfo[doing[u].slot].flags = doing[u].flags
      BY <2>1 DEF SpiInv, SlotsOwned, At
    <3> QED
      BY <1>12, <3>1 DEF MarkClosed, AnyOpen, SpiInv, SpiTypeOK
  <2> QED
    BY <1>2, <1>3, <2>1, <2>2, <2>3 DEF OneOn, Busy, On, At
<1>13. CASE AskLast(u)
  <2>1. doing[u].at = "counting"
    BY <1>13 DEF AskLast
  <2>2. spiInfo[doing[u].slot].flags = doing[u].flags
    BY <1>1, <2>1 DEF SpiInv, ClosesAlone, At
  <2>3. Same
    BY <1>13 DEF AskLast, AnyOpen
  <2>4. \/ doing'[u].at = "rest" /\ AnyOpen(doing[u].flags.device)
        \/ Goes(doing[u].flags, "restoring")
    <3>1. CASE AnyOpen(doing[u].flags.device)
      BY <1>13, <2>2, <3>1 DEF AskLast, Resting, SpiInv, SpiTypeOK
    <3>2. CASE ~AnyOpen(doing[u].flags.device)
      BY <1>13, <2>2, <3>2 DEF AskLast, SpiInv, SpiTypeOK
    <3> QED
      BY <3>1, <3>2
  <2> QED
    BY <1>2, <1>3, <2>1, <2>3, <2>4 DEF OneOn, Busy, On, At
<1>14. CASE spiTerm(u)
  <2>1. doing[u].at = "restoring" /\ saved' = saved /\ spiInfo' = spiInfo
    BY <1>14 DEF spiTerm
  <2>2. doing'[u].at = "rest"
    BY <1>14 DEF spiTerm, Resting, SpiInv, SpiTypeOK
  <2>3. AnyOpen(d)' <=> AnyOpen(d)
    BY <2>1 DEF AnyOpen
  <2>4. mode'[<<d, "bus">>] = IF d = doing[u].flags.device THEN saved[<<d, "bus">>]
                              ELSE mode[<<d, "bus">>]
    BY <1>14 DEF spiTerm, Touched, SpiInv, SpiTypeOK, Groups
  <2> QED
    BY <1>2, <1>3, <2>1, <2>2, <2>3, <2>4 DEF OneOn, Busy, On, At
<1> QED
  BY <1>4, <1>5, <1>6, <1>7, <1>8, <1>9, <1>10, <1>11, <1>12, <1>13, <1>14 DEF SpiStep

(* SpiModesKept: the handles of SPI are distinct, the pins of a device are  *)
(* in SPI mode while one of its handles is held, and as they were before    *)
(* when none is.                                                            *)
THEOREM SpiModesKeptAlways == SpiSpec => []SpiModesKept
<1>1. SpiInv /\ [SpiNext]_spiVars => SpiInv'
  <2> SUFFICES ASSUME SpiInv, [SpiNext]_spiVars
               PROVE  SpiInv'
    OBVIOUS
  <2>1. CASE SpiNext
    <3> PICK u \in Users : SpiStep(u)
      BY <2>1 DEF SpiNext, SpiStep
    <3> QED
      BY SpiTypesKept, SlotsStayOwned, ClosesStayAlone, OpenStaysInSpiMode, StaysOneAtATime
         DEF SpiInv
  <2>2. CASE UNCHANGED spiVars
    <3> USE <2>2 DEF spiVars, At, AnyOpen
    <3>1. SpiTypeOK' /\ SlotsOwned' /\ OpenInSpiMode'
      BY DEF SpiInv, SpiTypeOK, SlotsOwned, OwnSlots, OpenInSpiMode
    <3>2. ClosesAlone'
      BY DEF SpiInv, ClosesAlone
    <3>3. OneAtATime'
      <4> SUFFICES ASSUME ~crossed', NEW d \in Devices \ disturbed'
                   PROVE  OneOn(d)'
        BY DEF OneAtATime
      <4>1. OneOn(d)
        BY DEF SpiInv, OneAtATime
      <4>2. /\ AnyOpen(d)' <=> AnyOpen(d)
            /\ saved' = saved /\ mode' = mode /\ doing' = doing
        OBVIOUS
      <4> HIDE DEF AnyOpen
      <4> QED
        BY <4>1, <4>2 DEF OneOn, Busy, On
    <3> QED
      BY <3>1, <3>2, <3>3 DEF SpiInv
  <2> QED
    BY <2>1, <2>2
<1> QED
  BY <1>1, SpiInvHolds, SpiInvImplies, PTL DEF SpiSpec

-----------------------------------------------------------------------------
(***************************************************************************)
(* Every GPIO is on one of the bit-banged buses, and gets its mode back,   *)
(* for any GPIO and any calls that open a bus.                             *)
(***************************************************************************)
Uses == {"none", "serial", "I2C_SDA", "I2C_SCL", "SPI_CS", "SPI_SCLK", "SPI_MISO", "SPI_MOSI"}
PinModes == {"in", "out", "alt"}
SpiFlags == {o.flags : o \in BusOpens}
I2cEntries == [scl : BusGpios, modes : PinModes \X PinModes]
CsEntries == [sclk : BusGpios, mode : PinModes, flags : SpiFlags]
SclkEntries == [miso : BusGpios, mosi : BusGpios, usage : Nat, cs : BusGpios, flags : SpiFlags,
                modes : PinModes \X PinModes \X PinModes]

BusTypes ==
  /\ use \in [BusGpios -> Uses] /\ pin \in [BusGpios -> PinModes]
  /\ entry \in [BusGpios -> {<<>>} \cup I2cEntries \cup CsEntries \cup SclkEntries]
  /\ \A g \in BusGpios :
       /\ use[g] = "I2C_SDA" => entry[g] \in I2cEntries
       /\ use[g] = "SPI_CS" => entry[g] \in CsEntries
       /\ use[g] = "SPI_SCLK" => entry[g] \in SclkEntries

(* SDA and SCL are in pairs; the entry of SDA has the modes of both        *)
I2cPaired ==
  /\ \A s \in Of("I2C_SDA") :
       /\ use[entry[s].scl] = "I2C_SCL"
       /\ entry[s].modes = <<Original(s), Original(entry[s].scl)>>
       /\ \A t \in Of("I2C_SDA") : entry[s].scl = entry[t].scl => s = t
  /\ \A g \in Of("I2C_SCL") : \E s \in Of("I2C_SDA") : entry[s].scl = g

ChipsOf(k) == {c \in Of("SPI_CS") : entry[c].sclk = k}

(* a chip select has an SCLK, an SCLK its own MISO and MOSI; the entries    *)
(* have the modes of all                                                   *)
SpiGrouped ==
  /\ \A c \in Of("SPI_CS") :
       use[entry[c].sclk] = "SPI_SCLK" /\ entry[c].mode = Original(c)
  /\ \A k \in Of("SPI_SCLK") :
       /\ use[entry[k].miso] = "SPI_MISO" /\ use[entry[k].mosi] = "SPI_MOSI"
       /\ entry[k].modes = <<Original(entry[k].miso), Original(entry[k].mosi), Original(k)>>
       /\ entry[k].usage = Cardinality(ChipsOf(k)) /\ entry[k].usage > 0
       /\ \A l \in Of("SPI_SCLK") :
            entry[k].miso = entry[l].miso \/ entry[k].mosi = entry[l].mosi => k = l
  /\ \A g \in Of("SPI_MISO") : \E k \in Of("SPI_SCLK") : entry[k].miso = g
  /\ \A g \in Of("SPI_MOSI") : \E k \in Of("SPI_SCLK") : entry[k].mosi = g

BusInv == BusTypes /\ I2cPaired /\ SpiGrouped /\ ModesGivenBack

LEMMA OriginalTyped ==
  \A g : Original(g) \in PinModes
BY DEF Original, PinModes

(* SDA and SCL correspond one to one, and so do SCLK, MISO and MOSI        *)
LEMMA BusInvImplies ==
  ASSUME BusInv
  PROVE  OneBusEach /\ ModesGivenBack
<1> USE DEF BusInv
<1>1. \A kind : IsFiniteSet(Of(kind))
  <2>1. \A kind : Of(kind) \in SUBSET BusGpios
    BY DEF Of
  <2> QED
    BY <2>1, FS_Subset, BusesAssumption
<1>2. Cardinality(Of("I2C_SDA")) = Cardinality(Of("I2C_SCL"))
  <2> DEFINE f == [s \in Of("I2C_SDA") |-> entry[s].scl]
  <2>1. f \in [Of("I2C_SDA") -> Of("I2C_SCL")]
    BY DEF BusTypes, I2cEntries, I2cPaired, Of
  <2>2. f \in Bijection(Of("I2C_SDA"), Of("I2C_SCL"))
    BY <2>1 DEF Bijection, Injection, Surjection, IsInjective, I2cPaired
  <2> QED
    BY <1>1, <2>2, FS_Bijection DEF ExistsBijection
<1>3. Cardinality(Of("SPI_SCLK")) = Cardinality(Of("SPI_MISO"))
  <2> DEFINE f == [k \in Of("SPI_SCLK") |-> entry[k].miso]
  <2>1. f \in [Of("SPI_SCLK") -> Of("SPI_MISO")]
    BY DEF BusTypes, SclkEntries, SpiGrouped, Of
  <2>2. f \in Bijection(Of("SPI_SCLK"), Of("SPI_MISO"))
    BY <2>1 DEF Bijection, Injection, Surjection, IsInjective, SpiGrouped
  <2> QED
    BY <1>1, <2>2, FS_Bijection DEF ExistsBijection
<1>4. Cardinality(Of("SPI_SCLK")) = Cardinality(Of("SPI_MOSI"))
  <2> DEFINE f == [k \in Of("SPI_SCLK") |-> entry[k].mosi]
  <2>1. f \in [Of("SPI_SCLK") -> Of("SPI_MOSI")]
    BY DEF BusTypes, SclkEntries, SpiGrouped, Of
  <2>2. f \in Bijection(Of("SPI_SCLK"), Of("SPI_MOSI"))
    BY <2>1 DEF Bijection, Injection, Surjection, IsInjective, SpiGrouped
  <2> QED
    BY <1>1, <2>2, FS_Bijection DEF ExistsBijection
<1>5. {entry[k].miso : k \in Of("SPI_SCLK")} = Of("SPI_MISO")
  BY DEF BusTypes, SclkEntries, SpiGrouped, Of
<1>6. {entry[k].mosi : k \in Of("SPI_SCLK")} = Of("SPI_MOSI")
  BY DEF BusTypes, SclkEntries, SpiGrouped, Of
<1>7. /\ \A g \in Of("I2C_SCL") : \E s \in Of("I2C_SDA") : entry[s].scl = g
      /\ \A s \in Of("I2C_SDA") : use[entry[s].scl] = "I2C_SCL"
      /\ \A c \in Of("SPI_CS") : use[entry[c].sclk] = "SPI_SCLK"
      /\ \A k \in Of("SPI_SCLK") :
           entry[k].usage = Cardinality(ChipsOf(k)) /\ entry[k].usage > 0
  BY DEF I2cPaired, SpiGrouped
<1> QED
  BY <1>2, <1>3, <1>4, <1>5, <1>6, <1>7 DEF OneBusEach, ChipsOf

LEMMA BusInvHolds ==
  BusesInit => BusInv
<1> SUFFICES ASSUME BusesInit
             PROVE  BusInv
  OBVIOUS
<1>1. BusTypes
  BY OriginalTyped DEF BusesInit, BusTypes, Uses
<1>2. I2cPaired
  BY DEF BusesInit, I2cPaired, Of
<1>3. SpiGrouped
  BY DEF BusesInit, SpiGrouped, Of
<1>4. ModesGivenBack
  BY DEF BusesInit, ModesGivenBack
<1> QED
  BY <1>1, <1>2, <1>3, <1>4 DEF BusInv

(* a call that keeps the GPIO of a kind of bus as they are keeps the bus   *)
I2cKinds == {"I2C_SDA", "I2C_SCL"}
SpiKinds == {"SPI_CS", "SPI_SCLK", "SPI_MISO", "SPI_MOSI"}
Spares(kinds) ==
  \A g \in BusGpios : use[g] \in kinds \/ use'[g] \in kinds =>
                        use'[g] = use[g] /\ entry'[g] = entry[g]

LEMMA I2cSpared ==
  ASSUME BusInv, Spares(I2cKinds)
  PROVE  I2cPaired'
<1>1. /\ Of("I2C_SDA")' = Of("I2C_SDA") /\ Of("I2C_SCL")' = Of("I2C_SCL")
      /\ \A s \in Of("I2C_SDA") : entry'[s] = entry[s]
  BY DEF Spares, I2cKinds, Of
<1>2. \A s \in Of("I2C_SDA") : entry[s].scl \in BusGpios
  BY DEF BusInv, BusTypes, I2cEntries, Of
<1>3. \A s \in Of("I2C_SDA") : use'[entry[s].scl] = use[entry[s].scl]
  BY <1>2 DEF BusInv, I2cPaired, Spares, I2cKinds
<1> QED
  BY <1>1, <1>3 DEF BusInv, I2cPaired

LEMMA SpiSpared ==
  ASSUME BusInv, Spares(SpiKinds)
  PROVE  SpiGrouped'
<1>1. /\ Of("SPI_CS")' = Of("SPI_CS") /\ Of("SPI_SCLK")' = Of("SPI_SCLK")
      /\ Of("SPI_MISO")' = Of("SPI_MISO") /\ Of("SPI_MOSI")' = Of("SPI_MOSI")
      /\ \A g \in Of("SPI_CS") \cup Of("SPI_SCLK") : entry'[g] = entry[g]
  BY DEF Spares, SpiKinds, Of
<1>2. \A c \in Of("SPI_CS") : use'[entry[c].sclk] = use[entry[c].sclk]
  BY DEF BusInv, BusTypes, CsEntries, SpiGrouped, Spares, SpiKinds, Of
<1>3. \A k \in Of("SPI_SCLK") : /\ use'[entry[k].miso] = use[entry[k].miso]
                                /\ use'[entry[k].mosi] = use[entry[k].mosi]
  BY DEF BusInv, BusTypes, SclkEntries, SpiGrouped, Spares, SpiKinds, Of
<1>4. \A k : ChipsOf(k)' = ChipsOf(k)
  BY <1>1 DEF ChipsOf
<1> QED
  BY <1>1, <1>2, <1>3, <1>4 DEF BusInv, SpiGrouped

LEMMA SerialOpened ==
  ASSUME BusInv, NEW o \in BusOpens, o.kind = "serial", gpioSerialReadOpen(o)
  PROVE  BusInv'
<1>1. o.gpio \in BusGpios
  BY BusesAssumption
<1>2. /\ use[o.gpio] = "none" /\ use' = [use EXCEPT ![o.gpio] = "serial"]
      /\ entry' = entry /\ pin' = pin
  BY DEF gpioSerialReadOpen
<1>3. BusTypes'
  BY <1>1, <1>2 DEF BusInv, BusTypes, Uses
<1>4. Spares(I2cKinds) /\ Spares(SpiKinds)
  BY <1>1, <1>2 DEF Spares, I2cKinds, SpiKinds, BusInv, BusTypes
<1>5. ModesGivenBack'
  BY <1>1, <1>2 DEF BusInv, BusTypes, ModesGivenBack
<1> QED
  BY <1>3, <1>4, <1>5, I2cSpared, SpiSpared DEF BusInv

LEMMA SerialClosed ==
  ASSUME BusInv, NEW g \in BusGpios, gpioSerialReadClose(g)
  PROVE  BusInv'
<1>2. /\ use[g] = "serial" /\ use' = [use EXCEPT ![g] = "none"]
      /\ entry' = entry /\ pin' = pin
  BY DEF gpioSerialReadClose
<1>3. BusTypes'
  BY <1>2 DEF BusInv, BusTypes, Uses
<1>4. Spares(I2cKinds) /\ Spares(SpiKinds)
  BY <1>2 DEF Spares, I2cKinds, SpiKinds, BusInv, BusTypes
<1>5. ModesGivenBack'
  BY <1>2 DEF BusInv, BusTypes, ModesGivenBack
<1> QED
  BY <1>3, <1>4, <1>5, I2cSpared, SpiSpared DEF BusInv

LEMMA I2cOpened ==
  ASSUME BusInv, NEW o \in BusOpens, o.kind = "i2c", bbI2COpen(o)
  PROVE  BusInv'
<1> DEFINE e == [scl |-> o.scl, modes |-> <<pin[o.sda], pin[o.scl]>>]
<1>1. /\ o.sda \in BusGpios /\ o.scl \in BusGpios /\ o.sda # o.scl
      /\ use[o.sda] = "none" /\ use[o.scl] = "none"
  BY BusesAssumption DEF bbI2COpen, FreeGpios
<1>2. /\ use' = [use EXCEPT ![o.sda] = "I2C_SDA", ![o.scl] = "I2C_SCL"]
      /\ entry' = [entry EXCEPT ![o.sda] = e]
      /\ pin' = [pin EXCEPT ![o.sda] = "in", ![o.scl] = "in"]
  BY DEF bbI2COpen
<1>3. e \in I2cEntries
  BY <1>1 DEF BusInv, BusTypes, I2cEntries
<1>4. /\ pin[o.sda] = Original(o.sda) /\ pin[o.scl] = Original(o.scl)
  BY <1>1 DEF BusInv, ModesGivenBack
<1>5. e.scl = o.scl /\ e.modes = <<Original(o.sda), Original(o.scl)>>
  BY <1>4
<1> HIDE DEF e
<1>6. /\ use'[o.sda] = "I2C_SDA" /\ use'[o.scl] = "I2C_SCL" /\ entry'[o.sda] = e
      /\ \A g \in BusGpios \ {o.sda, o.scl} : use'[g] = use[g] /\ pin'[g] = pin[g]
      /\ \A g \in BusGpios \ {o.sda} : entry'[g] = entry[g]
  BY <1>1, <1>2 DEF BusInv, BusTypes
<1>7. BusTypes'
  <2>1. /\ use' \in [BusGpios -> Uses] /\ pin' \in [BusGpios -> PinModes]
        /\ entry' \in [BusGpios -> {<<>>} \cup I2cEntries \cup CsEntries \cup SclkEntries]
    BY <1>1, <1>2, <1>3 DEF BusInv, BusTypes, Uses, PinModes
  <2> QED
    BY <1>1, <1>3, <1>6, <2>1 DEF BusInv, BusTypes
<1>8. Spares(SpiKinds)
  BY <1>1, <1>6 DEF Spares, SpiKinds
<1>9. I2cPaired'
  <2>1. /\ Of("I2C_SDA")' = Of("I2C_SDA") \cup {o.sda}
        /\ Of("I2C_SCL")' = Of("I2C_SCL") \cup {o.scl}
    BY <1>1, <1>6 DEF Of
  <2>2. \A s \in Of("I2C_SDA") : /\ s # o.sda /\ entry'[s] = entry[s]
                                 /\ entry[s].scl \in BusGpios \ {o.sda, o.scl}
                                 /\ use'[entry[s].scl] = "I2C_SCL"
    BY <1>1, <1>6 DEF Of, BusInv, BusTypes, I2cPaired, I2cEntries
  <2> QED
    BY <1>5, <1>6, <2>1, <2>2 DEF BusInv, I2cPaired
<1>10. ModesGivenBack'
  BY <1>6 DEF BusInv, ModesGivenBack
<1> QED
  BY <1>7, <1>8, <1>9, <1>10, SpiSpared DEF BusInv

LEMMA I2cClosed ==
  ASSUME BusInv, NEW g \in BusGpios, bbI2CClose(g)
  PROVE  BusInv'
<1> DEFINE c == entry[g].scl
<1>1. /\ use[g] = "I2C_SDA" /\ c \in BusGpios /\ use[c] = "I2C_SCL" /\ c # g
      /\ entry[g].modes = <<Original(g), Original(c)>>
  BY DEF bbI2CClose, BusInv, BusTypes, I2cPaired, I2cEntries, Of
<1> HIDE DEF c
<1>2. /\ use' = [use EXCEPT ![g] = "none", ![c] = "none"] /\ entry' = entry
      /\ pin' = [pin EXCEPT ![g] = Original(g), ![c] = Original(c)]
  BY <1>1 DEF bbI2CClose, c
<1>3. /\ use'[g] = "none" /\ use'[c] = "none" /\ pin'[g] = Original(g) /\ pin'[c] = Original(c)
      /\ \A x \in BusGpios \ {g, c} : use'[x] = use[x] /\ pin'[x] = pin[x]
  BY <1>1, <1>2 DEF BusInv, BusTypes
<1>4. BusTypes'
  <2>1. /\ use' \in [BusGpios -> Uses] /\ pin' \in [BusGpios -> PinModes]
    BY <1>1, <1>2, OriginalTyped DEF BusInv, BusTypes, Uses
  <2> QED
    BY <1>2, <1>3, <2>1 DEF BusInv, BusTypes
<1>5. Spares(SpiKinds)
  BY <1>1, <1>2, <1>3 DEF Spares, SpiKinds
<1>6. I2cPaired'
  <2>1. /\ Of("I2C_SDA")' = Of("I2C_SDA") \ {g} /\ Of("I2C_SCL")' = Of("I2C_SCL") \ {c}
    BY <1>1, <1>3 DEF Of
  <2>2. \A s \in Of("I2C_SDA") \ {g} : /\ entry[s].scl \in BusGpios \ {g, c}
                                        /\ use'[entry[s].scl] = "I2C_SCL"
    BY <1>1, <1>3 DEF Of, BusInv, BusTypes, I2cPaired, I2cEntries, c
  <2> QED
    BY <1>2, <2>1, <2>2 DEF BusInv, I2cPaired, c
<1>7. ModesGivenBack'
  BY <1>3 DEF BusInv, ModesGivenBack
<1> QED
  BY <1>4, <1>5, <1>6, <1>7, SpiSpared DEF BusInv

LEMMA FourDistinct ==
  ASSUME NEW a, NEW b, NEW c, NEW d, Cardinality({a, b, c, d}) = 4
  PROVE  a \notin {b, c, d} /\ b \notin {c, d} /\ c # d
<1>1. IsFiniteSet({d}) /\ Cardinality({d}) = 1
  BY FS_Singleton
<1>2. IsFiniteSet({c, d}) /\ Cardinality({c, d}) = IF c \in {d} THEN 1 ELSE 2
  <2>1. {c, d} = {d} \cup {c}
    OBVIOUS
  <2> QED BY <1>1, <2>1, FS_AddElement
<1>3. /\ IsFiniteSet({b, c, d})
      /\ Cardinality({b, c, d}) = Cardinality({c, d}) + IF b \in {c, d} THEN 0 ELSE 1
  <2>1. {b, c, d} = {c, d} \cup {b}
    OBVIOUS
  <2> QED BY <1>2, <2>1, FS_AddElement
<1>4. Cardinality({a, b, c, d}) = Cardinality({b, c, d}) + IF a \in {b, c, d} THEN 0 ELSE 1
  <2>1. {a, b, c, d} = {b, c, d} \cup {a}
    OBVIOUS
  <2> QED BY <1>2, <1>3, <2>1, FS_AddElement
<1> QED
  BY <1>2, <1>3, <1>4

LEMMA ChipsFinite ==
  \A k : IsFiniteSet(ChipsOf(k))
<1>1. \A k : ChipsOf(k) \in SUBSET BusGpios
  BY DEF ChipsOf, Of
<1> QED
  BY <1>1, FS_Subset, BusesAssumption

(* what an open of SPI names                                               *)
LEMMA SpiNamed ==
  ASSUME NEW o \in BusOpens, o.kind = "spi", Chosen(o)
  PROVE  /\ o.cs \in BusGpios /\ o.miso \in BusGpios /\ o.mosi \in BusGpios
         /\ o.sclk \in BusGpios /\ o.flags \in SpiFlags /\ use[o.cs] = "none"
         /\ o.cs \notin {o.miso, o.mosi, o.sclk} /\ o.miso \notin {o.mosi, o.sclk}
         /\ o.mosi # o.sclk
<1>1. {o.cs, o.miso, o.mosi, o.sclk} \subseteq BusGpios
  BY BusesAssumption
<1>2. Cardinality({o.cs, o.miso, o.mosi, o.sclk}) = 4 /\ use[o.cs] = "none"
  BY DEF Chosen
<1>3. /\ o.cs \notin {o.miso, o.mosi, o.sclk} /\ o.miso \notin {o.mosi, o.sclk}
      /\ o.mosi # o.sclk
  BY <1>2, FourDistinct
<1> QED
  BY <1>1, <1>2, <1>3 DEF SpiFlags

LEMMA SpiBusOpened ==
  ASSUME BusInv, NEW o \in BusOpens, o.kind = "spi", FirstOfBus(o)
  PROVE  BusInv'
<1> DEFINE e == OfCs(o)
           b == [miso |-> o.miso, mosi |-> o.mosi, usage |-> 1, cs |-> o.cs, flags |-> o.flags,
                 modes |-> <<pin[o.miso], pin[o.mosi], pin[o.sclk]>>]
           Pins == {o.cs, o.miso, o.mosi, o.sclk}
<1>1. /\ o.cs \in BusGpios /\ o.miso \in BusGpios /\ o.mosi \in BusGpios
      /\ o.sclk \in BusGpios /\ o.flags \in SpiFlags /\ use[o.cs] = "none"
      /\ o.cs \notin {o.miso, o.mosi, o.sclk} /\ o.miso \notin {o.mosi, o.sclk}
      /\ o.mosi # o.sclk
  BY SpiNamed DEF FirstOfBus
<1>2. use[o.miso] = "none" /\ use[o.mosi] = "none" /\ use[o.sclk] = "none"
  BY DEF FirstOfBus, FreeGpios
<1>3. /\ use' = [use EXCEPT ![o.cs] = "SPI_CS", ![o.sclk] = "SPI_SCLK",
                           ![o.miso] = "SPI_MISO", ![o.mosi] = "SPI_MOSI"]
      /\ entry' = [entry EXCEPT ![o.cs] = e, ![o.sclk] = b]
      /\ pin' = [pin EXCEPT ![o.cs] = "out", ![o.sclk] = "out", ![o.miso] = "in", ![o.mosi] = "out"]
  BY DEF FirstOfBus
<1>4. /\ pin[o.cs] = Original(o.cs) /\ pin[o.miso] = Original(o.miso)
      /\ pin[o.mosi] = Original(o.mosi) /\ pin[o.sclk] = Original(o.sclk)
  BY <1>1, <1>2 DEF BusInv, ModesGivenBack
<1>5. e \in CsEntries /\ b \in SclkEntries
  BY <1>1 DEF BusInv, BusTypes, CsEntries, SclkEntries, OfCs
<1>6. /\ e.sclk = o.sclk /\ e.mode = Original(o.cs)
      /\ b.miso = o.miso /\ b.mosi = o.mosi /\ b.usage = 1
      /\ b.modes = <<Original(o.miso), Original(o.mosi), Original(o.sclk)>>
  BY <1>4 DEF OfCs
<1> HIDE DEF e, b
<1>7. /\ use'[o.cs] = "SPI_CS" /\ use'[o.sclk] = "SPI_SCLK"
      /\ use'[o.miso] = "SPI_MISO" /\ use'[o.mosi] = "SPI_MOSI"
      /\ entry'[o.cs] = e /\ entry'[o.sclk] = b
      /\ \A g \in BusGpios \ Pins : use'[g] = use[g] /\ pin'[g] = pin[g]
      /\ \A g \in BusGpios \ {o.cs, o.sclk} : entry'[g] = entry[g]
  BY <1>1, <1>3 DEF BusInv, BusTypes
<1>8. BusTypes'
  <2>1. /\ use' \in [BusGpios -> Uses] /\ pin' \in [BusGpios -> PinModes]
        /\ entry' \in [BusGpios -> {<<>>} \cup I2cEntries \cup CsEntries \cup SclkEntries]
    BY <1>1, <1>3, <1>5 DEF BusInv, BusTypes, Uses, PinModes
  <2> QED
    BY <1>1, <1>5, <1>7, <2>1 DEF BusInv, BusTypes
<1>9. Spares(I2cKinds)
  BY <1>1, <1>2, <1>7 DEF Spares, I2cKinds
<1>10. SpiGrouped'
  <2>1. /\ Of("SPI_CS")' = Of("SPI_CS") \cup {o.cs}
        /\ Of("SPI_SCLK")' = Of("SPI_SCLK") \cup {o.sclk}
        /\ Of("SPI_MISO")' = Of("SPI_MISO") \cup {o.miso}
        /\ Of("SPI_MOSI")' = Of("SPI_MOSI") \cup {o.mosi}
    BY <1>1, <1>2, <1>7 DEF Of
  <2>2. \A c \in Of("SPI_CS") : /\ c # o.cs /\ c # o.sclk /\ entry'[c] = entry[c]
                                /\ entry[c].sclk # o.sclk /\ use'[entry[c].sclk] = "SPI_SCLK"
    BY <1>1, <1>2, <1>7 DEF Of, BusInv, BusTypes, SpiGrouped, CsEntries
  <2>3. \A k \in Of("SPI_SCLK") :
          /\ k # o.sclk /\ entry'[k] = entry[k]
          /\ entry[k].miso # o.miso /\ use'[entry[k].miso] = "SPI_MISO"
          /\ entry[k].mosi # o.mosi /\ use'[entry[k].mosi] = "SPI_MOSI"
    BY <1>1, <1>2, <1>7 DEF Of, BusInv, BusTypes, SpiGrouped, SclkEntries
  <2>4. /\ ChipsOf(o.sclk)' = {o.cs}
        /\ \A k \in Of("SPI_SCLK") : ChipsOf(k)' = ChipsOf(k)
    BY <1>6, <1>7, <2>1, <2>2, <2>3 DEF ChipsOf
  <2>5. Cardinality({o.cs}) = 1
    BY FS_Singleton
  <2>6. \A c \in Of("SPI_CS")' :
          use'[entry'[c].sclk] = "SPI_SCLK" /\ entry'[c].mode = Original(c)
    BY <1>6, <1>7, <2>1, <2>2 DEF BusInv, SpiGrouped
  <2>7. \A k \in Of("SPI_SCLK")' :
          /\ use'[entry'[k].miso] = "SPI_MISO" /\ use'[entry'[k].mosi] = "SPI_MOSI"
          /\ entry'[k].modes = <<Original(entry'[k].miso), Original(entry'[k].mosi), Original(k)>>
          /\ entry'[k].usage = Cardinality(ChipsOf(k)') /\ entry'[k].usage > 0
          /\ \A l \in Of("SPI_SCLK")' :
               entry'[k].miso = entry'[l].miso \/ entry'[k].mosi = entry'[l].mosi => k = l
    <3>1. ASSUME NEW k \in Of("SPI_SCLK")
          PROVE  /\ use'[entry'[k].miso] = "SPI_MISO" /\ use'[entry'[k].mosi] = "SPI_MOSI"
                 /\ entry'[k].modes =
                      <<Original(entry'[k].miso), Original(entry'[k].mosi), Original(k)>>
                 /\ entry'[k].usage = Cardinality(ChipsOf(k)') /\ entry'[k].usage > 0
      BY <2>3, <2>4 DEF BusInv, SpiGrouped
    <3>2. /\ use'[entry'[o.sclk].miso] = "SPI_MISO" /\ use'[entry'[o.sclk].mosi] = "SPI_MOSI"
          /\ entry'[o.sclk].modes = <<Original(entry'[o.sclk].miso),
                                     Original(entry'[o.sclk].mosi), Original(o.sclk)>>
          /\ entry'[o.sclk].usage = Cardinality(ChipsOf(o.sclk)') /\ entry'[o.sclk].usage > 0
      BY <1>6, <1>7, <2>4, <2>5
    <3>3. ASSUME NEW k \in Of("SPI_SCLK") \cup {o.sclk}, NEW l \in Of("SPI_SCLK") \cup {o.sclk},
                 entry'[k].miso = entry'[l].miso \/ entry'[k].mosi = entry'[l].mosi
          PROVE  k = l
      BY <1>6, <1>7, <2>3, <3>3 DEF BusInv, SpiGrouped
    <3> QED
      BY <2>1, <3>1, <3>2, <3>3
  <2>8. /\ \A g \in Of("SPI_MISO")' : \E k \in Of("SPI_SCLK")' : entry'[k].miso = g
        /\ \A g \in Of("SPI_MOSI")' : \E k \in Of("SPI_SCLK")' : entry'[k].mosi = g
    BY <1>6, <1>7, <2>1, <2>3 DEF BusInv, SpiGrouped
  <2> QED
    BY <2>6, <2>7, <2>8 DEF SpiGrouped
<1>11. ModesGivenBack'
  BY <1>7 DEF BusInv, ModesGivenBack
<1> QED
  BY <1>8, <1>9, <1>10, <1>11, I2cSpared DEF BusInv

LEMMA ChipOpened ==
  ASSUME BusInv, NEW o \in BusOpens, o.kind = "spi", NextOfBus(o)
  PROVE  BusInv'
<1> DEFINE e == OfCs(o)
           b == [entry[o.sclk] EXCEPT !.usage = @ + 1]
<1>1. /\ o.cs \in BusGpios /\ o.sclk \in BusGpios /\ o.flags \in SpiFlags
      /\ use[o.cs] = "none" /\ o.cs # o.sclk
  BY SpiNamed DEF NextOfBus
<1>2. use[o.sclk] = "SPI_SCLK" /\ entry[o.sclk] \in SclkEntries
  BY <1>1 DEF NextOfBus, BusInv, BusTypes
<1>3. /\ use' = [use EXCEPT ![o.cs] = "SPI_CS"]
      /\ entry' = [entry EXCEPT ![o.cs] = e, ![o.sclk].usage = @ + 1]
      /\ pin' = [pin EXCEPT ![o.cs] = "out"]
  BY DEF NextOfBus
<1>4. entry' = [entry EXCEPT ![o.cs] = e, ![o.sclk] = b]
  BY <1>1, <1>3 DEF BusInv, BusTypes
<1>5. pin[o.cs] = Original(o.cs)
  BY <1>1 DEF BusInv, ModesGivenBack
<1>6. e \in CsEntries /\ b \in SclkEntries
  <2>1. e \in CsEntries
    BY <1>1 DEF BusInv, BusTypes, CsEntries, OfCs
  <2>2. b \in SclkEntries
    BY <1>2 DEF SclkEntries
  <2> QED
    BY <2>1, <2>2
<1>7. /\ e.sclk = o.sclk /\ e.mode = Original(o.cs)
      /\ b.miso = entry[o.sclk].miso /\ b.mosi = entry[o.sclk].mosi
      /\ b.usage = entry[o.sclk].usage + 1 /\ b.modes = entry[o.sclk].modes
  BY <1>2, <1>5 DEF OfCs, SclkEntries
<1> HIDE DEF e, b
<1>8. /\ use'[o.cs] = "SPI_CS" /\ entry'[o.cs] = e /\ entry'[o.sclk] = b
      /\ \A g \in BusGpios \ {o.cs} : use'[g] = use[g] /\ pin'[g] = pin[g]
      /\ \A g \in BusGpios \ {o.cs, o.sclk} : entry'[g] = entry[g]
  BY <1>1, <1>3, <1>4 DEF BusInv, BusTypes
<1>9. BusTypes'
  <2>1. /\ use' \in [BusGpios -> Uses] /\ pin' \in [BusGpios -> PinModes]
        /\ entry' \in [BusGpios -> {<<>>} \cup I2cEntries \cup CsEntries \cup SclkEntries]
    BY <1>1, <1>3, <1>4, <1>6 DEF BusInv, BusTypes, Uses, PinModes
  <2> QED
    BY <1>1, <1>2, <1>6, <1>8, <2>1 DEF BusInv, BusTypes
<1>10. Spares(I2cKinds)
  BY <1>1, <1>2, <1>8 DEF Spares, I2cKinds
<1>11. SpiGrouped'
  <2>1. /\ Of("SPI_CS")' = Of("SPI_CS") \cup {o.cs} /\ o.cs \notin Of("SPI_CS")
        /\ Of("SPI_SCLK")' = Of("SPI_SCLK") /\ Of("SPI_MISO")' = Of("SPI_MISO")
        /\ Of("SPI_MOSI")' = Of("SPI_MOSI") /\ o.sclk \in Of("SPI_SCLK")
    BY <1>1, <1>2, <1>8 DEF Of
  <2>2. \A c \in Of("SPI_CS") : /\ entry'[c] = entry[c] /\ use'[entry[c].sclk] = "SPI_SCLK"
    BY <1>1, <1>2, <1>8 DEF Of, BusInv, BusTypes, SpiGrouped, CsEntries
  <2>3. \A k \in Of("SPI_SCLK") :
          /\ k # o.cs /\ k # o.sclk => entry'[k] = entry[k]
          /\ entry'[k].miso = entry[k].miso /\ entry'[k].mosi = entry[k].mosi
          /\ entry'[k].modes = entry[k].modes
          /\ use'[entry[k].miso] = "SPI_MISO" /\ use'[entry[k].mosi] = "SPI_MOSI"
    BY <1>1, <1>2, <1>7, <1>8 DEF Of, BusInv, BusTypes, SpiGrouped, SclkEntries
  <2>4. /\ ChipsOf(o.sclk)' = ChipsOf(o.sclk) \cup {o.cs} /\ o.cs \notin ChipsOf(o.sclk)
        /\ \A k \in Of("SPI_SCLK") \ {o.sclk} : ChipsOf(k)' = ChipsOf(k)
    BY <1>7, <1>8, <2>1, <2>2 DEF ChipsOf
  <2>5. Cardinality(ChipsOf(o.sclk)') = entry'[o.sclk].usage /\ entry'[o.sclk].usage > 0
    <3>1. entry[o.sclk].usage = Cardinality(ChipsOf(o.sclk)) /\ entry[o.sclk].usage > 0
      BY <2>1 DEF BusInv, SpiGrouped
    <3>2. entry[o.sclk].usage \in Nat
      BY <1>2 DEF SclkEntries
    <3> QED
      <4>1. Cardinality(ChipsOf(o.sclk) \cup {o.cs}) = Cardinality(ChipsOf(o.sclk)) + 1
        BY <2>4, ChipsFinite, FS_AddElement
      <4> QED
        BY <1>7, <1>8, <2>4, <3>1, <3>2, <4>1
  <2>6. \A c \in Of("SPI_CS")' :
          use'[entry'[c].sclk] = "SPI_SCLK" /\ entry'[c].mode = Original(c)
    BY <1>1, <1>2, <1>7, <1>8, <2>1, <2>2 DEF BusInv, SpiGrouped
  <2>7. \A k \in Of("SPI_SCLK") :
          entry'[k].usage = Cardinality(ChipsOf(k)') /\ entry'[k].usage > 0
    <3>1. ASSUME NEW k \in Of("SPI_SCLK") \ {o.sclk}
          PROVE  entry'[k].usage = Cardinality(ChipsOf(k)') /\ entry'[k].usage > 0
      <4>1. ChipsOf(k)' = ChipsOf(k) /\ entry'[k] = entry[k]
        BY <1>1, <1>2, <1>8, <2>3, <2>4 DEF Of
      <4> QED BY <4>1 DEF BusInv, SpiGrouped
    <3> QED
      BY <2>5, <3>1
  <2> HIDE DEF BusInv
  <2>8. \A k \in Of("SPI_SCLK")' :
          /\ use'[entry'[k].miso] = "SPI_MISO" /\ use'[entry'[k].mosi] = "SPI_MOSI"
          /\ entry'[k].modes = <<Original(entry'[k].miso), Original(entry'[k].mosi), Original(k)>>
          /\ \A l \in Of("SPI_SCLK")' :
               entry'[k].miso = entry'[l].miso \/ entry'[k].mosi = entry'[l].mosi => k = l
    BY <2>1, <2>3 DEF BusInv, SpiGrouped
  <2>9. /\ \A g \in Of("SPI_MISO")' : \E k \in Of("SPI_SCLK")' : entry'[k].miso = g
        /\ \A g \in Of("SPI_MOSI")' : \E k \in Of("SPI_SCLK")' : entry'[k].mosi = g
    BY <2>1, <2>3 DEF BusInv, SpiGrouped
  <2> QED
    BY <2>1, <2>6, <2>7, <2>8, <2>9 DEF SpiGrouped
<1>12. ModesGivenBack'
  BY <1>8 DEF BusInv, ModesGivenBack
<1> QED
  BY <1>9, <1>10, <1>11, <1>12, I2cSpared DEF BusInv

(* what a close of a chip select finds                                     *)
LEMMA ChipFound ==
  ASSUME BusInv, NEW g \in BusGpios, use[g] = "SPI_CS"
  PROVE  LET k == entry[g].sclk  b == entry[k]
         IN  /\ k \in BusGpios /\ use[k] = "SPI_SCLK" /\ entry[g].mode = Original(g)
             /\ b \in SclkEntries /\ b.miso \in BusGpios /\ b.mosi \in BusGpios
             /\ b.usage \in Nat
             /\ use[b.miso] = "SPI_MISO" /\ use[b.mosi] = "SPI_MOSI"
             /\ b.modes = <<Original(b.miso), Original(b.mosi), Original(k)>>
             /\ b.usage = Cardinality(ChipsOf(k)) /\ b.usage > 0
             /\ g \in ChipsOf(k)
<1> DEFINE k == entry[g].sclk
           b == entry[k]
<1>1. k \in BusGpios /\ use[k] = "SPI_SCLK" /\ entry[g].mode = Original(g)
  BY DEF BusInv, BusTypes, SpiGrouped, CsEntries, Of
<1>2. b \in SclkEntries
  BY <1>1 DEF BusInv, BusTypes
<1>3. k \in Of("SPI_SCLK") /\ g \in ChipsOf(k)
  BY <1>1 DEF Of, ChipsOf
<1>4. /\ use[b.miso] = "SPI_MISO" /\ use[b.mosi] = "SPI_MOSI"
      /\ b.modes = <<Original(b.miso), Original(b.mosi), Original(k)>>
      /\ b.usage = Cardinality(ChipsOf(k)) /\ b.usage > 0
  BY <1>3 DEF BusInv, SpiGrouped
<1> QED
  BY <1>1, <1>2, <1>3, <1>4 DEF SclkEntries

LEMMA ChipClosed ==
  ASSUME BusInv, NEW g \in BusGpios, bbSPIClose(g), entry[entry[g].sclk].usage > 1
  PROVE  BusInv'
<1> DEFINE k == entry[g].sclk
           b == [entry[k] EXCEPT !.usage = @ - 1]
<1>1. use[g] = "SPI_CS"
  BY DEF bbSPIClose
<1>2. /\ k \in BusGpios /\ use[k] = "SPI_SCLK" /\ entry[g].mode = Original(g) /\ g # k
      /\ entry[k] \in SclkEntries /\ entry[k].usage \in Nat
      /\ entry[k].usage = Cardinality(ChipsOf(k)) /\ g \in ChipsOf(k)
  BY <1>1, ChipFound
<1>3. /\ use' = [use EXCEPT ![g] = "none"] /\ pin' = [pin EXCEPT ![g] = Original(g)]
      /\ entry' = [entry EXCEPT ![k] = b]
  BY <1>2 DEF bbSPIClose
<1>4. /\ b \in SclkEntries /\ b.usage = entry[k].usage - 1 /\ b.usage > 0
      /\ b.miso = entry[k].miso /\ b.mosi = entry[k].mosi /\ b.modes = entry[k].modes
  BY <1>2 DEF SclkEntries
<1> HIDE DEF b, k
<1>5. /\ use'[g] = "none" /\ pin'[g] = Original(g) /\ entry'[k] = b
      /\ \A x \in BusGpios \ {g} : use'[x] = use[x] /\ pin'[x] = pin[x]
      /\ \A x \in BusGpios \ {k} : entry'[x] = entry[x]
  BY <1>2, <1>3 DEF BusInv, BusTypes
<1>6. BusTypes'
  <2>1. /\ use' \in [BusGpios -> Uses] /\ pin' \in [BusGpios -> PinModes]
        /\ entry' \in [BusGpios -> {<<>>} \cup I2cEntries \cup CsEntries \cup SclkEntries]
    BY <1>2, <1>3, <1>4, OriginalTyped DEF BusInv, BusTypes, Uses
  <2> QED
    BY <1>2, <1>4, <1>5, <2>1 DEF BusInv, BusTypes
<1>7. Spares(I2cKinds)
  BY <1>1, <1>2, <1>5 DEF Spares, I2cKinds
<1>8. SpiGrouped'
  <2>1. /\ Of("SPI_CS")' = Of("SPI_CS") \ {g}
        /\ Of("SPI_SCLK")' = Of("SPI_SCLK") /\ Of("SPI_MISO")' = Of("SPI_MISO")
        /\ Of("SPI_MOSI")' = Of("SPI_MOSI") /\ k \in Of("SPI_SCLK")
    BY <1>1, <1>2, <1>5 DEF Of
  <2>2. \A c \in Of("SPI_CS") \ {g} : /\ c # k /\ entry'[c] = entry[c]
                                       /\ use'[entry[c].sclk] = "SPI_SCLK"
    BY <1>1, <1>2, <1>5 DEF Of, BusInv, BusTypes, SpiGrouped, CsEntries
  <2>3. \A l \in Of("SPI_SCLK") :
          /\ l # k => entry'[l] = entry[l]
          /\ entry'[l].miso = entry[l].miso /\ entry'[l].mosi = entry[l].mosi
          /\ entry'[l].modes = entry[l].modes
          /\ use'[entry[l].miso] = "SPI_MISO" /\ use'[entry[l].mosi] = "SPI_MOSI"
    BY <1>1, <1>2, <1>4, <1>5 DEF Of, BusInv, BusTypes, SpiGrouped, SclkEntries
  <2>4. \A l \in Of("SPI_SCLK") : ChipsOf(l)' = ChipsOf(l) \ {g}
    BY <2>1, <2>2 DEF ChipsOf
  <2>5. \A l \in Of("SPI_SCLK") \ {k} : g \notin ChipsOf(l)
    BY DEF ChipsOf, k
  <2>6. \A l \in Of("SPI_SCLK") : entry'[l].usage = Cardinality(ChipsOf(l)') /\ entry'[l].usage > 0
    <3>1. Cardinality(ChipsOf(k) \ {g}) = Cardinality(ChipsOf(k)) - 1
      BY <1>2, ChipsFinite, FS_RemoveElement
    <3>2. entry'[k].usage = Cardinality(ChipsOf(k) \ {g}) /\ entry'[k].usage > 0
      BY <1>2, <1>4, <1>5, <3>1
    <3>3. ASSUME NEW l \in Of("SPI_SCLK") \ {k}
          PROVE  entry'[l].usage = Cardinality(ChipsOf(l)') /\ entry'[l].usage > 0
      <4>1. ChipsOf(l)' = ChipsOf(l)
        BY <2>4, <2>5
      <4> QED BY <2>3, <4>1 DEF BusInv, SpiGrouped
    <3>4. ASSUME NEW l, l = k
          PROVE  ChipsOf(l)' = ChipsOf(k) \ {g}
      BY <2>1, <2>4, <3>4
    <3> QED
      BY <3>2, <3>3, <3>4
  <2>7. \A c \in Of("SPI_CS")' :
          use'[entry'[c].sclk] = "SPI_SCLK" /\ entry'[c].mode = Original(c)
    BY <2>1, <2>2 DEF BusInv, SpiGrouped
  <2>8. \A l \in Of("SPI_SCLK")' :
          /\ use'[entry'[l].miso] = "SPI_MISO" /\ use'[entry'[l].mosi] = "SPI_MOSI"
          /\ entry'[l].modes = <<Original(entry'[l].miso), Original(entry'[l].mosi), Original(l)>>
          /\ \A m \in Of("SPI_SCLK")' :
               entry'[l].miso = entry'[m].miso \/ entry'[l].mosi = entry'[m].mosi => l = m
    BY <2>1, <2>3 DEF BusInv, SpiGrouped
  <2>9. /\ \A x \in Of("SPI_MISO")' : \E l \in Of("SPI_SCLK")' : entry'[l].miso = x
        /\ \A x \in Of("SPI_MOSI")' : \E l \in Of("SPI_SCLK")' : entry'[l].mosi = x
    BY <2>1, <2>3 DEF BusInv, SpiGrouped
  <2> QED
    BY <2>1, <2>6, <2>7, <2>8, <2>9 DEF SpiGrouped
<1>9. ModesGivenBack'
  BY <1>5 DEF BusInv, ModesGivenBack
<1> QED
  BY <1>6, <1>7, <1>8, <1>9, I2cSpared DEF BusInv

LEMMA SpiBusClosed ==
  ASSUME BusInv, NEW g \in BusGpios, bbSPIClose(g), ~(entry[entry[g].sclk].usage > 1)
  PROVE  BusInv'
<1> DEFINE k == entry[g].sclk
           mi == entry[k].miso
           mo == entry[k].mosi
           b == [entry[k] EXCEPT !.usage = @ - 1]
           Pins == {g, k, mi, mo}
<1>1. use[g] = "SPI_CS"
  BY DEF bbSPIClose
<1>2. /\ k \in BusGpios /\ use[k] = "SPI_SCLK" /\ entry[g].mode = Original(g)
      /\ entry[k] \in SclkEntries /\ mi \in BusGpios /\ mo \in BusGpios
      /\ use[mi] = "SPI_MISO" /\ use[mo] = "SPI_MOSI"
      /\ entry[k].modes = <<Original(mi), Original(mo), Original(k)>>
      /\ entry[k].usage = Cardinality(ChipsOf(k)) /\ g \in ChipsOf(k)
      /\ entry[k].usage \in Nat /\ entry[k].usage > 0
  BY <1>1, ChipFound
<1>3. ChipsOf(k) = {g}
  <2>1. Cardinality(ChipsOf(k)) = 1
    BY <1>2
  <2> QED
    BY <1>2, <2>1, ChipsFinite, FS_Singleton
<1>4. /\ use' = [use EXCEPT ![g] = "none", ![mi] = "none", ![mo] = "none", ![k] = "none"]
      /\ pin' = [pin EXCEPT ![g] = Original(g), ![mi] = Original(mi), ![mo] = Original(mo),
                            ![k] = Original(k)]
      /\ entry' = [entry EXCEPT ![k] = b]
  BY <1>2 DEF bbSPIClose
<1>5. b.miso = mi /\ b.mosi = mo
  BY <1>2 DEF SclkEntries
<1>6. g # k /\ g # mi /\ g # mo /\ k # mi /\ k # mo /\ mi # mo
  BY <1>1, <1>2
<1>7. b \in [miso : BusGpios, mosi : BusGpios, usage : Nat, cs : BusGpios, flags : SpiFlags,
             modes : PinModes \X PinModes \X PinModes]
  BY <1>2 DEF SclkEntries
<1> HIDE DEF b, k, mi, mo
<1>8. /\ use'[g] = "none" /\ use'[k] = "none" /\ use'[mi] = "none" /\ use'[mo] = "none"
      /\ pin'[g] = Original(g) /\ pin'[k] = Original(k)
      /\ pin'[mi] = Original(mi) /\ pin'[mo] = Original(mo)
      /\ \A x \in BusGpios \ Pins : use'[x] = use[x] /\ pin'[x] = pin[x]
      /\ \A x \in BusGpios \ {k} : entry'[x] = entry[x]
  BY <1>2, <1>4, <1>6 DEF BusInv, BusTypes
<1>9. BusTypes'
  <2>1. /\ use' \in [BusGpios -> Uses] /\ pin' \in [BusGpios -> PinModes]
        /\ entry' \in [BusGpios -> {<<>>} \cup I2cEntries \cup CsEntries \cup SclkEntries]
    BY <1>2, <1>4, <1>7, OriginalTyped DEF BusInv, BusTypes, Uses, SclkEntries
  <2> QED
    BY <1>2, <1>8, <2>1 DEF BusInv, BusTypes
<1>10. Spares(I2cKinds)
  BY <1>1, <1>2, <1>8 DEF Spares, I2cKinds
<1>11. SpiGrouped'
  <2>1. /\ Of("SPI_CS")' = Of("SPI_CS") \ {g} /\ Of("SPI_SCLK")' = Of("SPI_SCLK") \ {k}
        /\ Of("SPI_MISO")' = Of("SPI_MISO") \ {mi} /\ Of("SPI_MOSI")' = Of("SPI_MOSI") \ {mo}
        /\ k \in Of("SPI_SCLK")
    BY <1>1, <1>2, <1>8 DEF Of
  <2>2. \A c \in Of("SPI_CS") \ {g} : /\ entry'[c] = entry[c] /\ entry[c].sclk # k
                                       /\ entry[c].sclk \in BusGpios
                                       /\ use[entry[c].sclk] = "SPI_SCLK"
    BY <1>2, <1>3, <1>8 DEF Of, ChipsOf, BusInv, BusTypes, SpiGrouped, CsEntries
  <2>3. \A c \in Of("SPI_CS") \ {g} : use'[entry[c].sclk] = "SPI_SCLK"
    BY <1>1, <1>2, <1>8, <2>2
  <2>4. \A l \in Of("SPI_SCLK") \ {k} :
          /\ entry'[l] = entry[l] /\ entry[l].miso # mi /\ entry[l].mosi # mo
          /\ use'[entry[l].miso] = "SPI_MISO" /\ use'[entry[l].mosi] = "SPI_MOSI"
    <3>1. ASSUME NEW l \in Of("SPI_SCLK") \ {k}
          PROVE  /\ entry'[l] = entry[l] /\ entry[l].miso # mi /\ entry[l].mosi # mo
                 /\ entry[l].miso \in BusGpios /\ entry[l].mosi \in BusGpios
                 /\ use[entry[l].miso] = "SPI_MISO" /\ use[entry[l].mosi] = "SPI_MOSI"
      BY <1>8, <2>1 DEF Of, BusInv, BusTypes, SpiGrouped, SclkEntries, mi, mo
    <3> QED
      BY <1>1, <1>2, <1>8, <3>1
  <2>5. \A l \in Of("SPI_SCLK") \ {k} : ChipsOf(l)' = ChipsOf(l)
    BY <1>3, <2>1, <2>2 DEF ChipsOf
  <2>6. \A c \in Of("SPI_CS")' :
          use'[entry'[c].sclk] = "SPI_SCLK" /\ entry'[c].mode = Original(c)
    BY <2>1, <2>2, <2>3 DEF BusInv, SpiGrouped
  <2>7. ASSUME NEW l \in Of("SPI_SCLK") \ {k}
        PROVE  entry'[l].usage = Cardinality(ChipsOf(l)') /\ entry'[l].usage > 0
    <3>1. ChipsOf(l)' = ChipsOf(l) /\ entry'[l] = entry[l]
      BY <2>4, <2>5
    <3> QED BY <3>1 DEF BusInv, SpiGrouped
  <2>8. \A l \in Of("SPI_SCLK")' :
          /\ use'[entry'[l].miso] = "SPI_MISO" /\ use'[entry'[l].mosi] = "SPI_MOSI"
          /\ entry'[l].modes = <<Original(entry'[l].miso), Original(entry'[l].mosi), Original(l)>>
          /\ \A m \in Of("SPI_SCLK")' :
               entry'[l].miso = entry'[m].miso \/ entry'[l].mosi = entry'[m].mosi => l = m
    BY <2>1, <2>4 DEF BusInv, SpiGrouped
  <2>9. /\ \A x \in Of("SPI_MISO")' : \E l \in Of("SPI_SCLK")' : entry'[l].miso = x
        /\ \A x \in Of("SPI_MOSI")' : \E l \in Of("SPI_SCLK")' : entry'[l].mosi = x
    BY <2>1, <2>4 DEF BusInv, SpiGrouped, mi, mo
  <2> QED
    BY <2>1, <2>6, <2>7, <2>8, <2>9 DEF SpiGrouped
<1>12. ModesGivenBack'
  BY <1>8 DEF BusInv, ModesGivenBack
<1> QED
  BY <1>9, <1>10, <1>11, <1>12, I2cSpared DEF BusInv

(* a transfer changes nothing of the entry of SCLK that an open or a close reads *)
LEMMA ChipTransfers ==
  ASSUME BusInv, NEW c \in ChipSelects, bbSPIXfer(c)
  PROVE  BusInv'
<1> DEFINE k == entry[c].sclk
           b == [entry[k] EXCEPT !.cs = c, !.flags = entry[c].flags]
<1>1. /\ use[c] = "SPI_CS" /\ use' = use /\ pin' = pin
      /\ entry' = [entry EXCEPT ![k] = b]
  BY DEF bbSPIXfer
<1>2. c \in BusGpios
  BY BusesAssumption DEF ChipSelects
<1>3. /\ k \in BusGpios /\ use[k] = "SPI_SCLK" /\ entry[k] \in SclkEntries
      /\ entry[c] \in CsEntries
  BY <1>1, <1>2, ChipFound DEF BusInv, BusTypes
<1>4. b \in SclkEntries
  BY <1>2, <1>3 DEF SclkEntries, CsEntries
<1>5. /\ b.miso = entry[k].miso /\ b.mosi = entry[k].mosi /\ b.modes = entry[k].modes
      /\ b.usage = entry[k].usage
  BY <1>3 DEF SclkEntries
<1> HIDE DEF b, k
<1>6. entry'[k] = b /\ \A x \in BusGpios \ {k} : entry'[x] = entry[x]
  BY <1>1, <1>3 DEF BusInv, BusTypes
<1>7. BusTypes'
  <2>1. entry' \in [BusGpios -> {<<>>} \cup I2cEntries \cup CsEntries \cup SclkEntries]
    BY <1>1, <1>3, <1>4 DEF BusInv, BusTypes
  <2> QED
    BY <1>1, <1>3, <1>4, <1>6, <2>1 DEF BusInv, BusTypes
<1>8. Spares(I2cKinds)
  BY <1>1, <1>3, <1>6 DEF Spares, I2cKinds
<1>9. SpiGrouped'
  <2>1. \A kind : Of(kind)' = Of(kind)
    BY <1>1 DEF Of
  <2>2. \A d \in Of("SPI_CS") : entry'[d] = entry[d]
    BY <1>3, <1>6 DEF Of
  <2>3. \A l \in Of("SPI_SCLK") :
          /\ entry'[l].miso = entry[l].miso /\ entry'[l].mosi = entry[l].mosi
          /\ entry'[l].modes = entry[l].modes /\ entry'[l].usage = entry[l].usage
    BY <1>5, <1>6 DEF Of
  <2>4. \A l : ChipsOf(l)' = ChipsOf(l)
    BY <2>1, <2>2 DEF ChipsOf
  <2>5. \A d \in Of("SPI_CS") : use'[entry'[d].sclk] = "SPI_SCLK" /\ entry'[d].mode = Original(d)
    BY <1>1, <2>2 DEF BusInv, SpiGrouped
  <2>6. \A l \in Of("SPI_SCLK") :
          entry'[l].usage = Cardinality(ChipsOf(l)') /\ entry'[l].usage > 0
    BY <2>3, <2>4 DEF BusInv, SpiGrouped
  <2>7. \A l \in Of("SPI_SCLK") :
          /\ use'[entry'[l].miso] = "SPI_MISO" /\ use'[entry'[l].mosi] = "SPI_MOSI"
          /\ entry'[l].modes = <<Original(entry'[l].miso), Original(entry'[l].mosi), Original(l)>>
          /\ \A m \in Of("SPI_SCLK") :
               entry'[l].miso = entry'[m].miso \/ entry'[l].mosi = entry'[m].mosi => l = m
    BY <1>1, <2>3 DEF BusInv, SpiGrouped
  <2>8. /\ \A x \in Of("SPI_MISO") : \E l \in Of("SPI_SCLK") : entry'[l].miso = x
        /\ \A x \in Of("SPI_MOSI") : \E l \in Of("SPI_SCLK") : entry'[l].mosi = x
    BY <2>3 DEF BusInv, SpiGrouped
  <2> QED
    BY <2>1, <2>5, <2>6, <2>7, <2>8 DEF SpiGrouped
<1>10. ModesGivenBack'
  BY <1>1 DEF BusInv, ModesGivenBack
<1> QED
  BY <1>7, <1>8, <1>9, <1>10, I2cSpared DEF BusInv

LEMMA BusesUntouched ==
  ASSUME BusInv, use' = use, entry' = entry, pin' = pin
  PROVE  BusInv'
<1>1. BusTypes' /\ ModesGivenBack'
  BY DEF BusInv, BusTypes, ModesGivenBack
<1>2. Spares(I2cKinds) /\ Spares(SpiKinds)
  BY DEF Spares
<1> QED
  BY <1>1, <1>2, I2cSpared, SpiSpared DEF BusInv

LEMMA BusInvKept ==
  ASSUME BusInv, [BusesNext]_busVars
  PROVE  BusInv'
<1>1. CASE OpenBus
  <2>1. PICK o \in BusOpens : \/ o.kind = "serial" /\ gpioSerialReadOpen(o)
                              \/ o.kind = "i2c" /\ bbI2COpen(o)
                              \/ o.kind = "spi" /\ bbSPIOpen(o)
    BY <1>1 DEF OpenBus
  <2> QED
    BY <2>1, SerialOpened, I2cOpened, SpiBusOpened, ChipOpened DEF bbSPIOpen
<1>2. CASE CloseBus
  <2>1. PICK g \in BusGpios : gpioSerialReadClose(g) \/ bbI2CClose(g) \/ bbSPIClose(g)
    BY <1>2 DEF CloseBus
  <2> QED
    BY <2>1, SerialClosed, I2cClosed, ChipClosed, SpiBusClosed
<1>3. CASE SpiPinStep
  BY <1>3, BusesUntouched DEF SpiPinStep
<1>4. CASE \E c \in ChipSelects : bbSPIXfer(c)
  BY <1>4, ChipTransfers
<1>5. CASE UNCHANGED busVars
  BY <1>5, BusesUntouched DEF busVars
<1> QED
  BY <1>1, <1>2, <1>3, <1>4, <1>5 DEF BusesNext

(* Whatever buses are opened and closed, in whatever order, with transfers *)
(* between them: no GPIO is on two, none stays behind when its bus closes, *)
(* the count of chip selects on an SCLK is right, and the mode a GPIO had  *)
(* is back when the last bus that used it is closed.                       *)
THEOREM BusesKeptApart ==
  BusesSpec => [](OneBusEach /\ ModesGivenBack)
<1>1. BusInv /\ [BusesNext]_busVars => BusInv'
  BY BusInvKept
<1>2. BusInv => OneBusEach /\ ModesGivenBack
  BY BusInvImplies
<1> QED
  BY <1>1, <1>2, BusInvHolds, PTL DEF BusesSpec

-----------------------------------------------------------------------------
(***************************************************************************)
(* Triggers are told, bytes go in order through the BSC and its pins       *)
(* follow its mode, for any events, sizes of FIFOs and calls; for events   *)
(* that the user triggers other than the one of the BSC.                   *)
(***************************************************************************)
EventTypes ==
  /\ EventsTypeOK
  /\ looking.looked \in BOOLEAN /\ looking = [event |-> looking.event, looked |-> looking.looked]
  /\ looking.looked => looking.event \in EventIds
  /\ eventAlert \in [EventIds -> [fired : BOOLEAN, ignore : BOOLEAN]]
  /\ \A b \in UserEvents : ~eventAlert[b].ignore
  /\ bscCall \in [at : {"rest", "copying", "receiving", "finished", "leaving"},
                  tx : Int, rx : Int, active : BOOLEAN]

(* what the alert thread has looked at is not due any more                 *)
LookedIsTold == looking.looked => looking.event \notin due

(* a status the user does not know of is still before the alert thread; so *)
(* it is when bscXfer has taken the status, before it heeds events again    *)
HeedsSoon == ~eventAlert[PI_EVENT_BSC].ignore \/ bscCall.at = "leaving"
StatusAhead ==
  HeedsSoon /\ bscFR # knownStatus =>
    /\ eventAlert[PI_EVENT_BSC].fired
    /\ ~(looking.looked /\ looking.event = PI_EVENT_BSC)

Due == \A b \in due : eventAlert[b].fired
Alerts == ~missed => Due /\ LookedIsTold /\ StatusAhead

BytesTyped ==
  /\ moved \in [got : Nat, copied : Nat, sent : Nat, took : Nat]
  /\ bsc.rx \in Seq(Nat) /\ bsc.tx \in Seq(Nat) /\ bsc.busy \in BOOLEAN
  /\ bsc = [rx |-> bsc.rx, tx |-> bsc.tx, busy |-> bsc.busy]

EventsInv == EventTypes /\ Alerts /\ BytesTyped /\ BytesInOrder /\ PinsOfMode

LEMMA EventIdsThere ==
  /\ EventIds \subseteq Nat /\ EventIds # {} /\ PI_EVENT_BSC \in EventIds
  /\ NoEvent \notin EventIds /\ FirstEvent \in EventIds
<1>1. EventIds \subseteq Nat /\ EventIds # {} /\ PI_EVENT_BSC \in EventIds
  BY EventsAssumption DEF EventIds
<1>2. NoEvent \notin EventIds
  BY <1>1, EventsAssumption DEF NoEvent
<1>3. \E b \in EventIds : \A c \in EventIds : b <= c
  BY <1>1, LeastExists
<1> QED
  BY <1>1, <1>2, <1>3 DEF FirstEvent

LEMMA NextEventTyped ==
  ASSUME NEW b
  PROVE  NextEvent(b) \in EventIds \union {NoEvent}
<1> DEFINE later == {c \in EventIds : c > b}
<1>1. CASE later = {}
  BY <1>1 DEF NextEvent
<1>2. CASE later # {}
  <2>1. later \in SUBSET Nat
    BY EventIdsThere
  <2>2. \E c \in later : \A d \in later : c <= d
    BY <1>2, <2>1, LeastExists
  <2> QED
    BY <1>2, <2>2 DEF NextEvent
<1> QED
  BY <1>1, <1>2

LEMMA EventsInvHolds ==
  EventsInit => EventsInv
<1> SUFFICES ASSUME EventsInit
             PROVE  EventsInv
  OBVIOUS
<1> USE DEF EventsInit
<1>1. EventTypes
  <2>1. bscCall \in [at : {"rest", "copying", "receiving", "finished", "leaving"},
                    tx : Int, rx : Int, active : BOOLEAN]
    BY DEF BscRests
  <2>2. EventsTypeOK
    <3>1. bscCall.at = "rest" /\ looking.event = NoEvent
      BY DEF BscRests
    <3>2. bscMode \in 0..2 /\ due \subseteq UserEvents
      OBVIOUS
    <3>3. missed \in BOOLEAN
      OBVIOUS
    <3> HIDE DEF EventsInit
    <3> QED
      BY <3>1, <3>2, <3>3 DEF EventsTypeOK
  <2>3. eventAlert \in [EventIds -> [fired : BOOLEAN, ignore : BOOLEAN]]
    OBVIOUS
  <2> QED
    BY <2>1, <2>2, <2>3 DEF EventTypes, EventIds
<1>2. Alerts
  BY DEF Alerts, Due, LookedIsTold, StatusAhead
<1>3. BytesTyped
  BY DEF BytesTyped
<1>4. BytesInOrder
  BY DEF BytesInOrder
<1>5. PinsOfMode
  BY DEF PinsOfMode
<1> QED
  BY <1>1, <1>2, <1>3, <1>4, <1>5 DEF EventsInv

(***************************************************************************)
(* Triggers and the alert thread                                           *)
(***************************************************************************)
BytesStay == bsc' = bsc /\ moved' = moved
PinsStay == bscMode' = bscMode /\ altPins' = altPins

LEMMA Elsewhere ==
  ASSUME EventsInv
  PROVE  /\ BytesStay => BytesTyped' /\ BytesInOrder'
         /\ PinsStay => PinsOfMode'
<1>1. BytesStay => BytesTyped' /\ BytesInOrder'
  BY DEF EventsInv, BytesStay, BytesTyped, BytesInOrder
<1>2. PinsStay => PinsOfMode'
  BY DEF EventsInv, PinsStay, PinsOfMode, SetPins
<1> QED
  BY <1>1, <1>2

LEMMA Triggered ==
  ASSUME EventsInv, PI_EVENT_BSC \notin UserEvents, NEW b \in UserEvents, eventTrigger(b)
  PROVE  EventsInv'
<1> DEFINE e == [eventAlert[b] EXCEPT !.fired = TRUE]
<1>1. b \in EventIds /\ b # PI_EVENT_BSC /\ eventAlert[b] \in [fired : BOOLEAN, ignore : BOOLEAN]
  BY DEF EventIds, EventsInv, EventTypes
<1>2. /\ eventAlert' = [eventAlert EXCEPT ![b] = e] /\ due' = due \union {b}
      /\ missed' = (missed \/ looking = [event |-> b, looked |-> TRUE])
      /\ looking' = looking /\ bscFR' = bscFR /\ bscCall' = bscCall /\ knownStatus' = knownStatus
      /\ BytesStay /\ PinsStay
  BY DEF eventTrigger, BytesStay, PinsStay
<1>3. e \in [fired : BOOLEAN, ignore : BOOLEAN] /\ e.fired /\ e.ignore = eventAlert[b].ignore
  BY <1>1
<1> HIDE DEF e
<1>4. eventAlert'[b] = e /\ \A c \in EventIds \ {b} : eventAlert'[c] = eventAlert[c]
  BY <1>1, <1>2 DEF EventsInv, EventTypes
<1>5. EventTypes'
  <2>1. eventAlert' \in [EventIds -> [fired : BOOLEAN, ignore : BOOLEAN]]
    BY <1>1, <1>2, <1>3 DEF EventsInv, EventTypes
  <2>2. \A c \in UserEvents : ~eventAlert'[c].ignore
    BY <1>1, <1>3, <1>4 DEF EventsInv, EventTypes, EventIds
  <2>3. EventsTypeOK'
    BY <1>2, PinsStay DEF EventsInv, EventTypes, EventsTypeOK, PinsStay
  <2> QED
    BY <1>2, <2>1, <2>2, <2>3 DEF EventsInv, EventTypes
<1>6. Alerts'
  <2> SUFFICES ASSUME ~missed'
               PROVE  Due' /\ LookedIsTold' /\ StatusAhead'
    BY DEF Alerts
  <2>1. ~missed /\ looking # [event |-> b, looked |-> TRUE]
    BY <1>2
  <2>2. Due'
    BY <1>1, <1>2, <1>3, <1>4, <2>1 DEF EventsInv, Alerts, Due, EventTypes, EventsTypeOK, EventIds
  <2>3. LookedIsTold'
    <3>1. looking.looked => looking.event # b
      BY <2>1 DEF EventsInv, EventTypes
    <3> QED
      BY <1>2, <2>1, <3>1 DEF EventsInv, Alerts, LookedIsTold
  <2>4. StatusAhead'
    BY <1>1, <1>2, <1>4, <2>1, EventIdsThere DEF EventsInv, Alerts, StatusAhead, HeedsSoon
  <2> QED
    BY <2>2, <2>3, <2>4
<1> QED
  BY <1>2, <1>5, <1>6, Elsewhere DEF EventsInv

LEMMA BscLookedAt ==
  ASSUME EventsInv, PI_EVENT_BSC \notin UserEvents, LookAtBsc
  PROVE  EventsInv'
<1> DEFINE n == PI_EVENT_BSC
           e == [eventAlert[n] EXCEPT !.fired = TRUE]
<1>1. n \in EventIds /\ eventAlert[n] \in [fired : BOOLEAN, ignore : BOOLEAN]
  BY EventIdsThere DEF EventsInv, EventTypes
<1>2. /\ looking' = [event |-> FirstEvent, looked |-> FALSE]
      /\ \/ bscFR' = FR /\ eventAlert' = [eventAlert EXCEPT ![n] = e]
         \/ bscFR' = bscFR /\ eventAlert' = eventAlert
      /\ due' = due /\ missed' = missed /\ bscCall' = bscCall /\ knownStatus' = knownStatus
      /\ BytesStay /\ PinsStay
  BY DEF LookAtBsc, BytesStay, PinsStay
<1>3. e \in [fired : BOOLEAN, ignore : BOOLEAN] /\ e.fired /\ e.ignore = eventAlert[n].ignore
  BY <1>1
<1> HIDE DEF e
<1>4. /\ eventAlert' \in [EventIds -> [fired : BOOLEAN, ignore : BOOLEAN]]
      /\ \A b \in EventIds \ {n} : eventAlert'[b] = eventAlert[b]
      /\ eventAlert'[n].ignore = eventAlert[n].ignore
      /\ bscFR' # bscFR => eventAlert'[n].fired
      /\ eventAlert[n].fired => eventAlert'[n].fired
  BY <1>1, <1>2, <1>3 DEF EventsInv, EventTypes
<1>5. EventTypes'
  <2>1. \A c \in UserEvents : ~eventAlert'[c].ignore
    BY <1>4 DEF EventsInv, EventTypes, EventIds
  <2>2. EventsTypeOK'
    BY <1>2, EventIdsThere DEF EventsInv, EventTypes, EventsTypeOK, PinsStay
  <2> QED
    BY <1>2, <1>4, <2>1, <2>2 DEF EventsInv, EventTypes
<1>6. Alerts'
  BY <1>2, <1>4, <1>1 DEF EventsInv, Alerts, Due, LookedIsTold, StatusAhead, HeedsSoon, EventTypes,
     EventsTypeOK, EventIds
<1> QED
  BY <1>2, <1>5, <1>6, Elsewhere DEF EventsInv

LEMMA EventTold ==
  ASSUME EventsInv, PI_EVENT_BSC \notin UserEvents, TellEvent
  PROVE  EventsInv'
<1> DEFINE b == looking.event
           tells == eventAlert[b].fired /\ ~eventAlert[b].ignore
<1>1. b \in EventIds /\ eventAlert[b] \in [fired : BOOLEAN, ignore : BOOLEAN]
  BY DEF EventsInv, EventTypes, EventsTypeOK, TellEvent
<1>2. /\ due' = IF tells THEN due \ {b} ELSE due
      /\ knownStatus' = IF tells /\ b = PI_EVENT_BSC THEN bscFR ELSE knownStatus
      /\ missed' = (missed \/ (b = PI_EVENT_BSC /\ eventAlert[b].fired /\ bscCall.at = "leaving"))
      /\ looking' = [looking EXCEPT !.looked = TRUE]
      /\ eventAlert' = eventAlert /\ bscFR' = bscFR /\ bscCall' = bscCall
      /\ BytesStay /\ PinsStay
  BY DEF TellEvent, BytesStay, PinsStay
<1>3. looking' = [event |-> b, looked |-> TRUE]
  BY <1>2 DEF EventsInv, EventTypes
<1>4. EventTypes'
  BY <1>1, <1>2, <1>3 DEF EventsInv, EventTypes, EventsTypeOK, PinsStay
<1>5. Alerts'
  <2> SUFFICES ASSUME ~missed'
               PROVE  Due' /\ LookedIsTold' /\ StatusAhead'
    BY DEF Alerts
  <2>1. ~missed /\ ~(b = PI_EVENT_BSC /\ eventAlert[b].fired /\ bscCall.at = "leaving")
    BY <1>2
  <2>2. Due'
    BY <1>2, <2>1 DEF EventsInv, Alerts, Due
  <2>3. LookedIsTold'
    <3>1. b \in due => eventAlert[b].fired /\ ~eventAlert[b].ignore
      BY <2>1 DEF EventsInv, Alerts, Due, EventTypes, EventsTypeOK
    <3> QED
      BY <1>2, <1>3, <3>1 DEF LookedIsTold
  <2>4. StatusAhead'
    BY <1>2, <1>3, <2>1 DEF EventsInv, Alerts, StatusAhead, HeedsSoon
  <2> QED
    BY <2>2, <2>3, <2>4
<1> QED
  BY <1>2, <1>4, <1>5, Elsewhere DEF EventsInv

LEMMA EventCleared ==
  ASSUME EventsInv, PI_EVENT_BSC \notin UserEvents, ClearEvent
  PROVE  EventsInv'
<1> DEFINE b == looking.event
           e == [eventAlert[b] EXCEPT !.fired = FALSE]
<1>1. /\ looking.looked /\ b \in EventIds
      /\ eventAlert[b] \in [fired : BOOLEAN, ignore : BOOLEAN]
  BY DEF EventsInv, EventTypes, ClearEvent
<1>2. /\ eventAlert' = [eventAlert EXCEPT ![b] = e]
      /\ looking' = [event |-> NextEvent(b), looked |-> FALSE]
      /\ due' = due /\ missed' = missed /\ bscFR' = bscFR /\ bscCall' = bscCall
      /\ knownStatus' = knownStatus /\ BytesStay /\ PinsStay
  BY DEF ClearEvent, BytesStay, PinsStay
<1>3. e \in [fired : BOOLEAN, ignore : BOOLEAN] /\ e.ignore = eventAlert[b].ignore
  BY <1>1
<1> HIDE DEF e
<1>4. /\ eventAlert' \in [EventIds -> [fired : BOOLEAN, ignore : BOOLEAN]]
      /\ eventAlert'[b] = e /\ \A c \in EventIds \ {b} : eventAlert'[c] = eventAlert[c]
  BY <1>1, <1>2, <1>3 DEF EventsInv, EventTypes
<1>5. EventTypes'
  <2>1. \A c \in UserEvents : ~eventAlert'[c].ignore
    BY <1>3, <1>4 DEF EventsInv, EventTypes, EventIds
  <2>2. looking'.event \in EventIds \union {NoEvent} /\ ~looking'.looked
    BY <1>2, NextEventTyped
  <2>3. EventsTypeOK'
    BY <1>2, <2>2 DEF EventsInv, EventTypes, EventsTypeOK, PinsStay
  <2> QED
    BY <1>2, <1>4, <2>1, <2>2, <2>3 DEF EventsInv, EventTypes
<1>6. Alerts'
  <2> SUFFICES ASSUME ~missed
               PROVE  Due' /\ LookedIsTold' /\ StatusAhead'
    BY <1>2 DEF Alerts
  <2>1. Due'
    BY <1>1, <1>2, <1>4
    DEF EventsInv, Alerts, Due, LookedIsTold, EventTypes, EventsTypeOK, EventIds
  <2>2. StatusAhead'
    BY <1>1, <1>2, <1>3, <1>4, EventIdsThere DEF EventsInv, Alerts, StatusAhead, HeedsSoon
  <2> QED
    BY <1>2, <2>1, <2>2 DEF LookedIsTold
<1> QED
  BY <1>2, <1>5, <1>6, Elsewhere DEF EventsInv

(***************************************************************************)
(* bscXfer and the master                                                  *)
(***************************************************************************)
(* from one place to another of a call, with events ignored or heeded      *)
LEMMA EventsIgnored ==
  ASSUME EventsInv, NEW on \in BOOLEAN, Ignore(on)
  PROVE  /\ eventAlert' \in [EventIds -> [fired : BOOLEAN, ignore : BOOLEAN]]
         /\ eventAlert'[PI_EVENT_BSC].ignore = on
         /\ \A b \in EventIds : eventAlert'[b].fired = eventAlert[b].fired
         /\ \A b \in EventIds \ {PI_EVENT_BSC} : eventAlert'[b] = eventAlert[b]
<1> DEFINE n == PI_EVENT_BSC
           e == [eventAlert[n] EXCEPT !.ignore = on]
<1>1. n \in EventIds /\ eventAlert[n] \in [fired : BOOLEAN, ignore : BOOLEAN]
  BY EventIdsThere DEF EventsInv, EventTypes
<1>2. eventAlert' = [eventAlert EXCEPT ![n] = e]
  BY DEF Ignore
<1>3. /\ e \in [fired : BOOLEAN, ignore : BOOLEAN] /\ e.ignore = on
      /\ e.fired = eventAlert[n].fired
  BY <1>1
<1> HIDE DEF e
<1> QED
  BY <1>1, <1>2, <1>3 DEF EventsInv, EventTypes

LEMMA CallBegun ==
  ASSUME EventsInv, PI_EVENT_BSC \notin UserEvents, NEW m \in 1..2, NEW n \in Int, bscXfer(m, n)
  PROVE  EventsInv'
<1>1. /\ Ignore(TRUE) /\ bscCall' = [at |-> "copying", tx |-> n, rx |-> 0, active |-> FALSE]
      /\ bscMode' = IF m > bscMode THEN m ELSE bscMode
      /\ altPins' = IF m > bscMode THEN altPins \union SetPins(m) ELSE altPins
      /\ looking' = looking /\ bscFR' = bscFR /\ due' = due /\ knownStatus' = knownStatus
      /\ missed' = missed /\ BytesStay
  BY DEF bscXfer, BytesStay
<1>2. /\ eventAlert' \in [EventIds -> [fired : BOOLEAN, ignore : BOOLEAN]]
      /\ eventAlert'[PI_EVENT_BSC].ignore
      /\ \A b \in EventIds : eventAlert'[b].fired = eventAlert[b].fired
      /\ \A b \in EventIds \ {PI_EVENT_BSC} : eventAlert'[b] = eventAlert[b]
  BY <1>1, EventsIgnored
<1>3. EventTypes'
  <2>1. \A c \in UserEvents : ~eventAlert'[c].ignore
    BY <1>2 DEF EventsInv, EventTypes, EventIds
  <2>2. bscCall' \in [at : {"rest", "copying", "receiving", "finished", "leaving"},
                     tx : Int, rx : Int, active : BOOLEAN] /\ bscCall'.at = "copying"
    BY <1>1
  <2>3. EventsTypeOK'
    BY <1>1, <2>2 DEF EventsInv, EventTypes, EventsTypeOK
  <2> QED
    BY <1>1, <1>2, <2>1, <2>2, <2>3 DEF EventsInv, EventTypes
<1>4. Alerts'
  BY <1>1, <1>2
  DEF EventsInv, Alerts, Due, LookedIsTold, StatusAhead, HeedsSoon, EventTypes, EventsTypeOK, EventIds
<1>5. PinsOfMode'
  <2>1. bscMode \in 0..2 /\ altPins = IF bscMode = 0 THEN {} ELSE SetPins(bscMode)
    BY DEF EventsInv, EventTypes, EventsTypeOK, PinsOfMode
  <2>2. CASE m > bscMode
    BY <1>1, <2>1, <2>2 DEF PinsOfMode, SetPins, AllPins, Bus
  <2>3. CASE ~(m > bscMode)
    BY <1>1, <2>1, <2>3 DEF PinsOfMode, SetPins
  <2> QED
    BY <2>2, <2>3
<1> QED
  BY <1>1, <1>3, <1>4, <1>5, Elsewhere DEF EventsInv

LEMMA BscEnded ==
  ASSUME EventsInv, PI_EVENT_BSC \notin UserEvents, bscTerm
  PROVE  EventsInv'
<1>1. /\ Ignore(TRUE) /\ bscCall' = bscCall /\ bscCall.at = "rest" /\ bscMode' = 0
      /\ altPins' = IF bscMode = 0 THEN altPins ELSE altPins \ SetPins(bscMode)
      /\ looking' = looking /\ bscFR' = bscFR /\ due' = due /\ knownStatus' = knownStatus
      /\ missed' = missed /\ BytesStay
  BY DEF bscTerm, BytesStay, BscRests
<1>2. /\ eventAlert' \in [EventIds -> [fired : BOOLEAN, ignore : BOOLEAN]]
      /\ eventAlert'[PI_EVENT_BSC].ignore
      /\ \A b \in EventIds : eventAlert'[b].fired = eventAlert[b].fired
      /\ \A b \in EventIds \ {PI_EVENT_BSC} : eventAlert'[b] = eventAlert[b]
  BY <1>1, EventsIgnored
<1>3. EventTypes'
  <2>1. \A c \in UserEvents : ~eventAlert'[c].ignore
    BY <1>2 DEF EventsInv, EventTypes, EventIds
  <2>2. EventsTypeOK'
    BY <1>1 DEF EventsInv, EventTypes, EventsTypeOK
  <2> QED
    BY <1>1, <1>2, <2>1, <2>2 DEF EventsInv, EventTypes
<1>4. Alerts'
  BY <1>1, <1>2
  DEF EventsInv, Alerts, Due, LookedIsTold, StatusAhead, HeedsSoon, EventTypes, EventsTypeOK, EventIds
<1>5. PinsOfMode'
  BY <1>1 DEF EventsInv, PinsOfMode
<1> QED
  BY <1>1, <1>3, <1>4, <1>5, Elsewhere DEF EventsInv

(* steps within a call and of the master leave the alert thread alone      *)
LEMMA AlertsUntouched ==
  ASSUME EventsInv, NEW a \in {"rest", "copying", "receiving", "finished"},
         bscCall' \in [at : {"rest", "copying", "receiving", "finished", "leaving"},
                      tx : Int, rx : Int, active : BOOLEAN],
         bscCall'.at = bscCall.at \/ bscCall'.at = a,
         UNCHANGED <<eventAlert, looking, bscFR, bscMode, altPins, due, knownStatus, missed>>
  PROVE  EventTypes' /\ Alerts' /\ PinsOfMode'
<1>1. EventTypes'
  BY DEF EventsInv, EventTypes, EventsTypeOK
<1>2. Alerts'
  BY DEF EventsInv, Alerts, Due, LookedIsTold, StatusAhead, HeedsSoon
<1> QED
  BY <1>1, <1>2 DEF EventsInv, PinsOfMode

(* a byte more at the end, and one less at the front                       *)
LEMMA ByteQueued ==
  ASSUME NEW q \in Seq(Nat), NEW gone \in Nat, NEW total \in Nat, gone + Len(q) = total,
         \A i \in DOMAIN q : q[i] = gone + i
  PROVE  LET r == Append(q, total + 1)
         IN r \in Seq(Nat) /\ gone + Len(r) = total + 1 /\ \A i \in DOMAIN r : r[i] = gone + i
<1> DEFINE r == Append(q, total + 1)
<1>1. /\ r \in Seq(Nat) /\ Len(r) = Len(q) + 1 /\ \A i \in 1..Len(q) : r[i] = q[i]
      /\ r[Len(q) + 1] = total + 1
  BY AppendProperties
<1>2. DOMAIN r = 1..(Len(q) + 1) /\ DOMAIN q = 1..Len(q) /\ Len(q) \in Nat
  BY <1>1, LenProperties
<1> HIDE DEF r
<1>3. ASSUME NEW i \in 1..(Len(q) + 1)
      PROVE  r[i] = gone + i
  <2>1. CASE i \in 1..Len(q)
    BY <1>1, <1>2, <2>1
  <2>2. CASE i = Len(q) + 1
    <3>1. total + 1 = gone + i
      BY <2>2
    <3> QED
      BY <1>1, <2>2, <3>1
  <2> QED
    BY <1>2, <2>1, <2>2
<1> QED
  BY <1>1, <1>2, <1>3 DEF r

LEMMA ByteTaken ==
  ASSUME NEW q \in Seq(Nat), NEW gone \in Nat, NEW total \in Nat, gone + Len(q) = total, q # <<>>,
         \A i \in DOMAIN q : q[i] = gone + i
  PROVE  /\ Tail(q) \in Seq(Nat) /\ gone + 1 + Len(Tail(q)) = total
         /\ \A i \in DOMAIN Tail(q) : Tail(q)[i] = gone + 1 + i
<1> DEFINE r == Tail(q)
<1>1. r \in Seq(Nat) /\ Len(r) = Len(q) - 1 /\ \A i \in 1..Len(r) : r[i] = q[i + 1]
  BY HeadTailProperties
<1>2. DOMAIN r = 1..Len(r) /\ DOMAIN q = 1..Len(q) /\ Len(q) \in Nat /\ Len(r) \in Nat
  BY <1>1, LenProperties
<1> HIDE DEF r
<1>3. ASSUME NEW i \in 1..Len(r)
      PROVE  r[i] = gone + 1 + i
  <2>1. i + 1 \in DOMAIN q /\ r[i] = q[i + 1]
    BY <1>1, <1>2
  <2>2. gone + (i + 1) = gone + 1 + i
    BY <1>2
  <2> QED
    BY <2>1, <2>2
<1>4. gone + 1 + Len(r) = total
  <2>1. Len(r) = Len(q) - 1 /\ Len(q) \in Nat
    BY <1>1, <1>2
  <2> QED
    BY <2>1
<1>5. \A i \in DOMAIN r : r[i] = gone + 1 + i
  BY <1>2, <1>3
<1> QED
  BY <1>1, <1>4, <1>5 DEF r

LEMMA ByteCopied ==
  ASSUME EventsInv, CopyByte
  PROVE  EventsInv'
<1>1. /\ bscCall \in [at : {"rest", "copying", "receiving", "finished", "leaving"},
                      tx : Int, rx : Int, active : BOOLEAN]
      /\ UNCHANGED <<eventAlert, looking, bscFR, bscMode, altPins, due, knownStatus, missed>>
  BY DEF CopyByte, InCall, EventsInv, EventTypes
<1>2. CASE bsc' = [bsc EXCEPT !.tx = Append(@, moved.copied + 1)]
           /\ moved' = [moved EXCEPT !.copied = @ + 1]
           /\ bscCall' = [bscCall EXCEPT !.tx = @ - 1, !.active = TRUE]
  <2>1. EventTypes' /\ Alerts' /\ PinsOfMode'
    <3>1. bscCall' = [at |-> bscCall.at, tx |-> bscCall.tx - 1, rx |-> bscCall.rx, active |-> TRUE]
      BY <1>1, <1>2
    <3>2. /\ bscCall' \in [at : {"rest", "copying", "receiving", "finished", "leaving"},
                          tx : Int, rx : Int, active : BOOLEAN]
          /\ bscCall'.at = bscCall.at
      BY <1>1, <3>1
    <3> QED
      BY <1>1, <3>2, AlertsUntouched
  <2>2. /\ bsc' = [rx |-> bsc.rx, tx |-> Append(bsc.tx, moved.copied + 1), busy |-> bsc.busy]
        /\ moved' = [got |-> moved.got, copied |-> moved.copied + 1, sent |-> moved.sent,
                     took |-> moved.took]
    BY <1>2 DEF EventsInv, BytesTyped
  <2>3. LET r == Append(bsc.tx, moved.copied + 1)
        IN /\ r \in Seq(Nat) /\ moved.took + Len(r) = moved.copied + 1
           /\ \A i \in DOMAIN r : r[i] = moved.took + i
    BY ByteQueued DEF EventsInv, BytesTyped, BytesInOrder
  <2>4. BytesTyped' /\ BytesInOrder'
    BY <2>2, <2>3 DEF EventsInv, BytesTyped, BytesInOrder
  <2> QED
    BY <2>1, <2>4 DEF EventsInv
<1>3. CASE bscCall' = [bscCall EXCEPT !.at = "receiving"] /\ UNCHANGED <<bsc, moved>>
  <2>1. /\ bscCall' \in [at : {"rest", "copying", "receiving", "finished", "leaving"},
                        tx : Int, rx : Int, active : BOOLEAN]
        /\ bscCall'.at = "receiving" /\ BytesStay
    BY <1>1, <1>3 DEF BytesStay
  <2> QED
    BY <1>1, <2>1, AlertsUntouched, Elsewhere DEF EventsInv
<1> QED
  BY <1>2, <1>3 DEF CopyByte

LEMMA ByteReceived ==
  ASSUME EventsInv, ReceiveByte
  PROVE  EventsInv'
<1>1. /\ bscCall \in [at : {"rest", "copying", "receiving", "finished", "leaving"},
                      tx : Int, rx : Int, active : BOOLEAN]
      /\ UNCHANGED <<eventAlert, looking, bscFR, bscMode, altPins, due, knownStatus, missed>>
  BY DEF ReceiveByte, InCall, EventsInv, EventTypes
<1>2. CASE bsc.rx # <<>> /\ moved' = [moved EXCEPT !.got = @ + 1]
           /\ bsc' = [bsc EXCEPT !.rx = Tail(@)]
           /\ bscCall' = [bscCall EXCEPT !.rx = @ + 1, !.active = TRUE]
  <2>1. EventTypes' /\ Alerts' /\ PinsOfMode'
    <3>1. bscCall' = [at |-> bscCall.at, tx |-> bscCall.tx, rx |-> bscCall.rx + 1, active |-> TRUE]
      BY <1>1, <1>2
    <3>2. /\ bscCall' \in [at : {"rest", "copying", "receiving", "finished", "leaving"},
                          tx : Int, rx : Int, active : BOOLEAN]
          /\ bscCall'.at = bscCall.at
      BY <1>1, <3>1
    <3> QED
      BY <1>1, <3>2, AlertsUntouched
  <2>2. /\ bsc' = [rx |-> Tail(bsc.rx), tx |-> bsc.tx, busy |-> bsc.busy]
        /\ moved' = [got |-> moved.got + 1, copied |-> moved.copied, sent |-> moved.sent,
                     took |-> moved.took]
    BY <1>2 DEF EventsInv, BytesTyped
  <2>3. /\ Tail(bsc.rx) \in Seq(Nat) /\ moved.got + 1 + Len(Tail(bsc.rx)) = moved.sent
        /\ \A i \in DOMAIN Tail(bsc.rx) : Tail(bsc.rx)[i] = moved.got + 1 + i
    BY <1>2, ByteTaken DEF EventsInv, BytesTyped, BytesInOrder
  <2>4. BytesTyped' /\ BytesInOrder'
    BY <2>2, <2>3 DEF EventsInv, BytesTyped, BytesInOrder
  <2> QED
    BY <2>1, <2>4 DEF EventsInv
<1>3. CASE /\ UNCHANGED <<bsc, moved>>
           /\ \/ bscCall' = [bscCall EXCEPT !.at = "copying", !.active = FALSE]
              \/ bscCall' = [bscCall EXCEPT !.at = "finished"]
  <2>1. PICK a \in {"copying", "finished"} : bscCall'.at = a
    BY <1>1, <1>3
  <2>2. bscCall' \in [at : {"rest", "copying", "receiving", "finished", "leaving"},
                     tx : Int, rx : Int, active : BOOLEAN] /\ BytesStay
    BY <1>1, <1>3 DEF BytesStay
  <2> QED
    BY <1>1, <2>1, <2>2, AlertsUntouched, Elsewhere DEF EventsInv
<1> QED
  BY <1>2, <1>3 DEF ReceiveByte

LEMMA StatusTaken ==
  ASSUME EventsInv, TakeStatus
  PROVE  EventsInv'
<1>1. /\ bscCall' = [bscCall EXCEPT !.at = "leaving"] /\ bscFR' = knownStatus'
      /\ UNCHANGED <<eventAlert, looking, bscMode, altPins, due, missed>> /\ BytesStay /\ PinsStay
  BY DEF TakeStatus, BytesStay, PinsStay
<1>2. bscCall' \in [at : {"rest", "copying", "receiving", "finished", "leaving"},
                   tx : Int, rx : Int, active : BOOLEAN]
  BY <1>1 DEF EventsInv, EventTypes
<1>3. EventTypes'
  BY <1>1, <1>2 DEF EventsInv, EventTypes, EventsTypeOK
<1>4. Alerts'
  BY <1>1 DEF EventsInv, Alerts, Due, LookedIsTold, StatusAhead
<1> QED
  BY <1>1, <1>3, <1>4, Elsewhere DEF EventsInv

LEMMA EventsHeeded ==
  ASSUME EventsInv, PI_EVENT_BSC \notin UserEvents, HeedEvents
  PROVE  EventsInv'
<1>1. /\ bscCall.at = "leaving" /\ bscCall' = BscRests /\ Ignore(FALSE)
      /\ looking' = looking /\ bscFR' = bscFR /\ due' = due /\ knownStatus' = knownStatus
      /\ missed' = missed /\ BytesStay /\ PinsStay
  BY DEF HeedEvents, BytesStay, PinsStay
<1>2. /\ eventAlert' \in [EventIds -> [fired : BOOLEAN, ignore : BOOLEAN]]
      /\ \A b \in EventIds : eventAlert'[b].fired = eventAlert[b].fired
      /\ \A b \in EventIds \ {PI_EVENT_BSC} : eventAlert'[b] = eventAlert[b]
  BY <1>1, EventsIgnored
<1>3. EventTypes'
  <2>1. \A c \in UserEvents : ~eventAlert'[c].ignore
    BY <1>2 DEF EventsInv, EventTypes, EventIds
  <2>2. bscCall' \in [at : {"rest", "copying", "receiving", "finished", "leaving"},
                     tx : Int, rx : Int, active : BOOLEAN] /\ bscCall'.at = "rest"
    BY <1>1 DEF BscRests
  <2>3. EventsTypeOK'
    BY <1>1, <2>2 DEF EventsInv, EventTypes, EventsTypeOK, PinsStay
  <2> QED
    BY <1>1, <1>2, <2>1, <2>2, <2>3 DEF EventsInv, EventTypes
<1>4. Alerts'
  BY <1>1, <1>2, EventIdsThere
  DEF EventsInv, Alerts, Due, LookedIsTold, StatusAhead, HeedsSoon, EventTypes, EventsTypeOK, EventIds
<1> QED
  BY <1>1, <1>3, <1>4, Elsewhere DEF EventsInv

LEMMA MasterSteps ==
  ASSUME EventsInv, MasterBegins \/ MasterSends \/ MasterTakes \/ MasterEnds
  PROVE  EventsInv'
<1>1. /\ UNCHANGED <<eventAlert, looking, bscFR, bscMode, altPins, due, knownStatus, missed>>
      /\ bscCall' = bscCall
  BY DEF MasterBegins, MasterSends, MasterTakes, MasterEnds, Master
<1>2. EventTypes' /\ Alerts' /\ PinsOfMode'
  BY <1>1 DEF EventsInv, EventTypes, EventsTypeOK, Alerts, Due, LookedIsTold, StatusAhead, HeedsSoon,
              PinsOfMode
<1>3. /\ moved \in [got : Nat, copied : Nat, sent : Nat, took : Nat]
      /\ bsc.rx \in Seq(Nat) /\ bsc.tx \in Seq(Nat)
      /\ bsc = [rx |-> bsc.rx, tx |-> bsc.tx, busy |-> bsc.busy]
  BY DEF EventsInv, BytesTyped
<1>4. CASE MasterBegins \/ MasterEnds
  <2>1. PICK busy \in BOOLEAN : bsc' = [rx |-> bsc.rx, tx |-> bsc.tx, busy |-> busy]
    BY <1>3, <1>4 DEF MasterBegins, MasterEnds, Master
  <2>2. moved' = moved
    BY <1>4 DEF MasterBegins, MasterEnds, Master
  <2> QED
    BY <1>2, <2>1, <2>2 DEF EventsInv, BytesTyped, BytesInOrder
<1>5. CASE MasterSends
  <2>1. /\ bsc' = [rx |-> Append(bsc.rx, moved.sent + 1), tx |-> bsc.tx, busy |-> bsc.busy]
        /\ moved' = [got |-> moved.got, copied |-> moved.copied, sent |-> moved.sent + 1,
                     took |-> moved.took]
    BY <1>3, <1>5 DEF MasterSends, Master
  <2>2. LET r == Append(bsc.rx, moved.sent + 1)
        IN /\ r \in Seq(Nat) /\ moved.got + Len(r) = moved.sent + 1
           /\ \A i \in DOMAIN r : r[i] = moved.got + i
    BY ByteQueued DEF EventsInv, BytesTyped, BytesInOrder
  <2> QED
    BY <1>2, <2>1, <2>2 DEF EventsInv, BytesTyped, BytesInOrder
<1>6. CASE MasterTakes
  <2>1. /\ bsc' = [rx |-> bsc.rx, tx |-> Tail(bsc.tx), busy |-> bsc.busy] /\ bsc.tx # <<>>
        /\ moved' = [got |-> moved.got, copied |-> moved.copied, sent |-> moved.sent,
                     took |-> moved.took + 1]
    BY <1>3, <1>6 DEF MasterTakes, Master
  <2>2. /\ Tail(bsc.tx) \in Seq(Nat) /\ moved.took + 1 + Len(Tail(bsc.tx)) = moved.copied
        /\ \A i \in DOMAIN Tail(bsc.tx) : Tail(bsc.tx)[i] = moved.took + 1 + i
    BY <2>1, ByteTaken DEF EventsInv, BytesTyped, BytesInOrder
  <2> QED
    BY <1>2, <2>1, <2>2 DEF EventsInv, BytesTyped, BytesInOrder
<1> QED
  BY <1>4, <1>5, <1>6

LEMMA EventsInvKept ==
  ASSUME EventsInv, PI_EVENT_BSC \notin UserEvents, [EventsNext]_eventVars
  PROVE  EventsInv'
<1>1. CASE UNCHANGED eventVars
  BY <1>1 DEF eventVars, EventsInv, EventTypes, EventsTypeOK, Alerts, Due, LookedIsTold, StatusAhead,
              HeedsSoon, BytesTyped, BytesInOrder, PinsOfMode
<1>2. CASE \E m \in 1..2, n \in 0..MaxTxCnt : bscXfer(m, n)
  BY <1>2, CallBegun
<1>3. CASE CallOn
  BY <1>3, ByteCopied, ByteReceived, StatusTaken, EventsHeeded DEF CallOn
<1>4. CASE MasterBegins \/ MasterSends \/ MasterTakes \/ MasterEnds
  BY <1>4, MasterSteps
<1> QED
  BY <1>1, <1>2, <1>3, <1>4, Triggered, BscLookedAt, EventTold, EventCleared, BscEnded
  DEF EventsNext

(* For any events, sizes of FIFOs, calls and transfers of the master that  *)
(* overlap with them, as long as the user does not trigger the event of    *)
(* the BSC: a trigger is told, and so is a change of the BSC that was seen, *)
(* but for those that fall into the gap between the look and the clearing; *)
(* no byte is lost or changes its place; the pins are those of the mode.   *)
THEOREM EventsKeptAlways ==
  ASSUME PI_EVENT_BSC \notin UserEvents
  PROVE  EventsSpec => []EventsKept
<1>1. EventsInv /\ [EventsNext]_eventVars => EventsInv'
  BY EventsInvKept
<1>2. EventsInv => EventsKept
  BY DEF EventsInv, EventTypes, Alerts, Due, StatusAhead, HeedsSoon, TriggersTold, EventsKept
<1> QED
  BY <1>1, <1>2, EventsInvHolds, PTL DEF EventsSpec

(***************************************************************************)
(* A transfer over the FIFOs of an SPI device loses no word.               *)
(***************************************************************************)
Goes == [at : {"rest", "reading", "writing", "draining", "looking", "taking", "giving",
               "waiting"},
         device : Devices, count : Nat, cnt4w : Nat, cnt : Nat, tx : Nat,
         ren : BOOLEAN, cs : BOOLEAN, rxEmpty : BOOLEAN, txFull : BOOLEAN]
WireWords == [word : Nat, ren : BOOLEAN, cs : BOOLEAN]

(* the words after the first n, in their order                             *)
WordsAfter(q, n) == q \in Seq(Nat) /\ \A i \in DOMAIN q : q[i] = n + i

(* every word that was sent is in one of the places, in its order          *)
WordsThere ==
  /\ WordsAfter(read, 0)
  /\ WordsAfter(rxFifo, Len(read))
  /\ WordsAfter(shifting, Len(read) + Len(rxFifo)) /\ Len(shifting) <= 1
  /\ WordsAfter(txFifo, Len(read) + Len(rxFifo) + Len(shifting))
  /\ go.tx = Len(read) + Len(rxFifo) + Len(shifting) + Len(txFifo)

WordsShifted ==
  /\ wire \in Seq(WireWords) /\ Len(wire) = Len(read) + Len(rxFifo)
  /\ \A i \in DOMAIN wire : wire[i].word = i /\ wire[i].cs /\ (wire[i].ren <=> i > go.cnt4w)

(* how far a transfer is at each place of its loop                         *)
Progress ==
  /\ go.tx <= go.cnt /\ go.cnt = IF go.ren THEN go.count ELSE go.cnt4w
  /\ go.cnt4w <= go.count /\ (go.ren => go.cnt4w <= Len(read))
  /\ go.at = "rest" \/ go.cs
  /\ go.at \in {"draining", "waiting"} => Len(read) = go.cnt
  /\ go.at = "rest" => Len(read) = go.count /\ go.cnt = go.count

(* the main device shifts only if there is room for what comes             *)
MainWaits ==
  go.at \in {"reading", "writing", "draining"} =>
    go.device = "main" /\ (shifting # <<>> => Len(rxFifo) < FifoDepth["main"])

(* of the auxiliary one no more than four words are on the way; what the   *)
(* processor has read of the status is still true where it matters         *)
AuxKeepsUp ==
  go.at \in {"looking", "taking", "giving", "waiting"} =>
    LET onTheWay == Len(rxFifo) + Len(shifting) + Len(txFifo) IN
    /\ go.device = "aux" /\ ~go.ren /\ go.cnt4w = go.count /\ onTheWay <= 4
    /\ go.at \in {"taking", "giving"} /\ ~go.txFull => Len(txFifo) <= 2
    /\ go.at = "taking" /\ ~go.rxEmpty => rxFifo # <<>>
    /\ go.at = "taking" /\ go.rxEmpty /\ ~go.txFull => onTheWay <= 3
    /\ go.at = "giving" /\ ~go.txFull => onTheWay <= 3

FifosInv == go \in Goes /\ WordsThere /\ WordsShifted /\ Progress /\ MainWaits /\ AuxKeepsUp

LEMMA FifosInvHolds ==
  FifosInit => FifosInv
<1> SUFFICES ASSUME FifosInit
             PROVE  FifosInv
  OBVIOUS
<1>1. go \in Goes /\ go.at = "rest" /\ go.tx = 0 /\ go.count = 0 /\ go.cnt4w = 0 /\ go.cnt = 0 /\ ~go.ren
  BY DEF FifosInit, NoGo, Goes, Devices
<1>2. /\ read = <<>> /\ rxFifo = <<>> /\ shifting = <<>> /\ txFifo = <<>> /\ wire = <<>>
      /\ Len(<<>>) = 0
  BY EmptySeq DEF FifosInit
<1>3. \A n \in Nat : WordsAfter(<<>>, n)
  BY DEF WordsAfter
<1>4. WordsThere
  BY <1>1, <1>2, <1>3 DEF WordsThere
<1>5. WordsShifted
  BY <1>2 DEF WordsShifted
<1>6. Progress
  BY <1>1, <1>2 DEF Progress
<1> QED
  BY <1>1, <1>4, <1>5, <1>6 DEF FifosInv, MainWaits, AuxKeepsUp

LEMMA Lengths ==
  ASSUME WordsThere
  PROVE  /\ Len(read) \in Nat /\ Len(rxFifo) \in Nat /\ Len(shifting) \in Nat /\ Len(txFifo) \in Nat
         /\ rxFifo = <<>> <=> Len(rxFifo) = 0
         /\ shifting = <<>> <=> Len(shifting) = 0
         /\ txFifo = <<>> <=> Len(txFifo) = 0
<1>1. /\ read \in Seq(Nat) /\ rxFifo \in Seq(Nat) /\ shifting \in Seq(Nat) /\ txFifo \in Seq(Nat)
  BY DEF WordsThere, WordsAfter
<1> QED
  BY <1>1, EmptySeq, LenProperties

(* a word goes from the front of one place to the end of the next          *)
LEMMA WordPassedOn ==
  ASSUME NEW q, NEW p, NEW n \in Nat, WordsAfter(p, n), WordsAfter(q, n + Len(p)), q # <<>>
  PROVE  /\ WordsAfter(Append(p, Head(q)), n) /\ WordsAfter(Tail(q), n + Len(Append(p, Head(q))))
         /\ Len(Append(p, Head(q))) = Len(p) + 1 /\ Len(Tail(q)) = Len(q) - 1
         /\ Len(p) \in Nat /\ Len(q) \in Nat /\ Head(q) = n + Len(p) + 1 /\ Head(q) \in Nat
<1>1. p \in Seq(Nat) /\ q \in Seq(Nat)
  BY DEF WordsAfter
<1>2. Len(p) \in Nat /\ Len(q) \in Nat /\ 1 \in DOMAIN q /\ Head(q) = q[1]
  BY <1>1, HeadTailProperties, LenProperties, EmptySeq
<1>3. Head(q) = n + Len(p) + 1
  BY <1>2 DEF WordsAfter
<1> DEFINE r == Append(p, n + Len(p) + 1)
<1>4. r \in Seq(Nat) /\ n + Len(r) = n + Len(p) + 1 /\ \A i \in DOMAIN r : r[i] = n + i
  <2>1. n + Len(p) \in Nat
    BY <1>2
  <2> QED
    BY <1>1, <2>1, ByteQueued DEF WordsAfter
<1>5. Len(r) = Len(p) + 1
  BY <1>1, AppendProperties
<1>6. /\ Tail(q) \in Seq(Nat) /\ \A i \in DOMAIN Tail(q) : Tail(q)[i] = n + Len(p) + 1 + i
      /\ Len(Tail(q)) = Len(q) - 1
  <2>1. n + Len(p) \in Nat /\ n + Len(p) + Len(q) \in Nat
    BY <1>2
  <2>2. /\ Tail(q) \in Seq(Nat) /\ \A i \in DOMAIN Tail(q) : Tail(q)[i] = (n + Len(p)) + 1 + i
    BY <1>1, <2>1, ByteTaken DEF WordsAfter
  <2>3. Len(Tail(q)) = Len(q) - 1
    BY <1>1, HeadTailProperties
  <2> QED
    BY <2>2, <2>3
<1>7. n + Len(p) + 1 = n + Len(r) /\ n + Len(p) + 1 \in Nat
  BY <1>2, <1>5
<1> HIDE DEF r
<1>8. WordsAfter(r, n) /\ WordsAfter(Tail(q), n + Len(r))
  BY <1>4, <1>6, <1>7 DEF WordsAfter
<1> QED
  BY <1>2, <1>3, <1>5, <1>6, <1>7, <1>8 DEF r

(* what an action does to the words                                        *)
LEMMA WordReadOff ==
  ASSUME WordsThere, ReadWord, rxFifo # <<>>, UNCHANGED <<txFifo, shifting>>, go'.tx = go.tx
  PROVE  /\ WordsThere' /\ Len(read') = Len(read) + 1 /\ Len(rxFifo') = Len(rxFifo) - 1
         /\ Len(read') \in Nat /\ Len(rxFifo') \in Nat
<1>1. /\ WordsAfter(read', 0) /\ WordsAfter(rxFifo', Len(read'))
      /\ Len(read') = Len(read) + 1 /\ Len(rxFifo') = Len(rxFifo) - 1
  <2>1. WordsAfter(rxFifo, 0 + Len(read))
    BY Lengths DEF WordsThere
  <2>2. /\ WordsAfter(read', 0) /\ WordsAfter(rxFifo', 0 + Len(read'))
        /\ Len(read') = Len(read) + 1 /\ Len(rxFifo') = Len(rxFifo) - 1
    BY <2>1, WordPassedOn DEF WordsThere, ReadWord
  <2>3. 0 + Len(read') = Len(read')
    BY <2>2, Lengths
  <2> QED
    BY <2>2, <2>3
<1>2. /\ Len(read') + Len(rxFifo') = Len(read) + Len(rxFifo)
      /\ Len(read') \in Nat /\ Len(rxFifo') \in Nat
  BY <1>1, Lengths
<1> QED
  BY <1>1, <1>2 DEF WordsThere

LEMMA WordSent ==
  ASSUME WordsThere, WriteWord, UNCHANGED <<read, rxFifo, shifting>>, go.tx \in Nat,
         go'.tx = go.tx + 1
  PROVE  WordsThere' /\ Len(txFifo') = Len(txFifo) + 1
<1> DEFINE n == Len(read) + Len(rxFifo) + Len(shifting)
<1>1. n \in Nat /\ go.tx = n + Len(txFifo) /\ Len(txFifo) \in Nat
  BY Lengths DEF WordsThere
<1>2. WordsAfter(txFifo, n)
  BY DEF WordsThere
<1> HIDE DEF n
<1>3. WordsAfter(txFifo', n) /\ n + Len(txFifo') = go.tx + 1
  BY <1>1, <1>2, ByteQueued DEF WordsAfter, WriteWord
<1>4. Len(txFifo') = Len(txFifo) + 1
  BY <1>2, AppendProperties DEF WordsAfter, WriteWord
<1> QED
  BY <1>3, <1>4 DEF WordsThere, n

LEMMA WordsUnmoved ==
  ASSUME WordsThere, UNCHANGED <<txFifo, rxFifo, shifting, read>>, go'.tx = go.tx
  PROVE  WordsThere'
BY DEF WordsThere

LEMMA ShiftedUnmoved ==
  ASSUME WordsShifted, UNCHANGED wire, go'.cnt4w = go.cnt4w,
         Len(read') + Len(rxFifo') = Len(read) + Len(rxFifo)
  PROVE  WordsShifted'
BY DEF WordsShifted

LEMMA OnlyGone ==
  ASSUME WordsThere, WordsShifted, UNCHANGED <<txFifo, rxFifo, shifting, wire, read>>,
         go'.tx = go.tx, go'.cnt4w = go.cnt4w
  PROVE  WordsThere' /\ WordsShifted'
BY WordsUnmoved, ShiftedUnmoved

Stations == {"rest", "reading", "writing", "draining", "looking", "taking", "giving", "waiting"}
LEMMA WentTo ==
  ASSUME go \in Goes, NEW at \in Stations, GoTo(at)
  PROVE  /\ go' \in Goes /\ go'.at = at /\ go'.device = go.device /\ go'.count = go.count
         /\ go'.cnt4w = go.cnt4w /\ go'.cnt = go.cnt /\ go'.tx = go.tx /\ go'.ren = go.ren
         /\ go'.cs = go.cs /\ go'.rxEmpty = go.rxEmpty /\ go'.txFull = go.txFull
BY DEF Goes, GoTo, Stations

(* the calls: a transfer begins, reads, writes, drains                     *)
LEMMA TransferBegins ==
  ASSUME SpiAssumption, FifosInv, NEW d \in Devices, NEW count \in 1..MaxWords, NEW ren3w \in 0..MaxWords,
         spiGo(d, count, ren3w)
  PROVE  FifosInv'
<1>1. /\ Len(rxFifo) = 0 /\ Len(shifting) = 0 /\ Len(txFifo) = 0
      /\ rxFifo = <<>> /\ shifting = <<>> /\ txFifo = <<>>
  <2>1. /\ go.tx <= go.cnt /\ go.cnt = Len(read) /\ go.tx \in Nat
        /\ go.tx = Len(read) + Len(rxFifo) + Len(shifting) + Len(txFifo)
    BY DEF FifosInv, Progress, WordsThere, spiGo, Goes
  <2>2. Len(rxFifo) = 0 /\ Len(shifting) = 0 /\ Len(txFifo) = 0
    BY <2>1, Lengths DEF FifosInv
  <2> QED
    BY <2>2, Lengths DEF FifosInv
<1>2. count \in Nat /\ ren3w \in Nat /\ count > 0
  BY DEF SpiAssumption
<1> DEFINE cnt4w == IF d = "main" /\ ren3w < count THEN ren3w ELSE count
<1>3. cnt4w \in Nat /\ cnt4w <= count /\ (d = "aux" => cnt4w = count)
  BY <1>2
<1>4. go' = [NoGo EXCEPT !.at = IF d = "main" THEN "reading" ELSE "looking",
                         !.cs = TRUE, !.device = d, !.count = count,
                         !.cnt4w = cnt4w, !.cnt = cnt4w]
  BY DEF spiGo
<1> HIDE DEF cnt4w
<1>5. /\ go' \in Goes /\ go'.at = (IF d = "main" THEN "reading" ELSE "looking")
      /\ go'.cs = TRUE /\ go'.device = d /\ go'.count = count /\ go'.cnt4w = cnt4w
      /\ go'.cnt = cnt4w /\ go'.tx = 0 /\ go'.ren = FALSE
  BY <1>2, <1>3, <1>4 DEF NoGo, Goes, Devices
<1>6. /\ read' = <<>> /\ wire' = <<>> /\ rxFifo' = <<>> /\ shifting' = <<>> /\ txFifo' = <<>>
      /\ Len(<<>>) = 0 /\ \A n \in Nat : WordsAfter(<<>>, n)
  BY <1>1, EmptySeq DEF spiGo, WordsAfter
<1>7. WordsThere'
  BY <1>5, <1>6 DEF WordsThere
<1>8. WordsShifted'
  BY <1>6 DEF WordsShifted
<1>9. Progress'
  BY <1>3, <1>5, <1>6 DEF Progress
<1>10. MainWaits' /\ AuxKeepsUp'
  BY <1>3, <1>5, <1>6 DEF MainWaits, AuxKeepsUp, Devices
<1> QED
  BY <1>5, <1>7, <1>8, <1>9, <1>10 DEF FifosInv

LEMMA MainReads ==
  ASSUME FifosInv, ReadWhile
  PROVE  FifosInv'
<1>1. CASE RxCnt < go.cnt /\ rxFifo # <<>>
  <2>1. WordsThere' /\ Len(read') = Len(read) + 1 /\ Len(rxFifo') = Len(rxFifo) - 1 /\ go' = go
    BY <1>1, WordReadOff DEF FifosInv, ReadWhile
  <2>2. WordsShifted'
    <3>1. Len(read') + Len(rxFifo') = Len(read) + Len(rxFifo)
      BY <2>1, Lengths DEF FifosInv
    <3> QED
      BY <2>1, <3>1, ShiftedUnmoved DEF FifosInv, ReadWhile
  <2>3. Progress'
    BY <1>1, <2>1, Lengths DEF FifosInv, ReadWhile, RxCnt, Progress, Goes
  <2>4. MainWaits'
    BY <2>1, Lengths, SpiAssumption DEF FifosInv, ReadWhile, MainWaits
  <2> QED
    BY <2>1, <2>2, <2>3, <2>4 DEF FifosInv, ReadWhile, AuxKeepsUp
<1>2. CASE ~(RxCnt < go.cnt /\ rxFifo # <<>>)
  <2>1. GoTo("writing") /\ UNCHANGED <<txFifo, rxFifo, shifting, wire, read>>
    BY <1>2 DEF ReadWhile
  <2>2. WordsThere' /\ WordsShifted' /\ go' \in Goes
    BY <2>1, WentTo, OnlyGone DEF FifosInv, Stations
  <2>3. Progress' /\ MainWaits' /\ AuxKeepsUp'
    BY <2>1, WentTo DEF FifosInv, Stations, ReadWhile, Progress, MainWaits, AuxKeepsUp
  <2> QED
    BY <2>2, <2>3 DEF FifosInv
<1> QED
  BY <1>1, <1>2

LEMMA MainWrites ==
  ASSUME FifosInv, WriteWhile
  PROVE  FifosInv'
<1>1. CASE go.tx < go.cnt /\ Len(txFifo) < FifoDepth["main"]
  <2>1. WriteWord /\ go' = [go EXCEPT !.tx = @ + 1] /\ UNCHANGED <<rxFifo, shifting, wire, read>>
    BY <1>1 DEF WriteWhile
  <2>2. go' \in Goes /\ go'.tx = go.tx + 1 /\ go' = [go EXCEPT !.tx = go'.tx]
    BY <2>1 DEF FifosInv, Goes
  <2>3. WordsThere'
    BY <2>1, <2>2, WordSent DEF FifosInv, Goes
  <2>4. WordsShifted'
    BY <2>1, <2>2, ShiftedUnmoved DEF FifosInv, Goes
  <2>5. Progress'
    BY <1>1, <2>1, <2>2 DEF FifosInv, Goes, Progress, WriteWhile
  <2>6. MainWaits' /\ AuxKeepsUp'
    BY <2>1, <2>2 DEF FifosInv, Goes, MainWaits, AuxKeepsUp, WriteWhile
  <2> QED
    BY <2>2, <2>3, <2>4, <2>5, <2>6 DEF FifosInv
<1>2. CASE ~(go.tx < go.cnt /\ Len(txFifo) < FifoDepth["main"])
  <2> DEFINE at == IF AllDone THEN "draining" ELSE "reading"
  <2>1. GoTo(at) /\ UNCHANGED <<txFifo, rxFifo, shifting, wire, read>> /\ at \in Stations
    BY <1>2 DEF WriteWhile, Stations
  <2>2. at \in {"draining", "reading"} /\ (at = "draining" => Len(read) = go.cnt)
    BY DEF AllDone, RxCnt
  <2> HIDE DEF at
  <2>3. WordsThere' /\ WordsShifted' /\ go' \in Goes
    BY <2>1, WentTo, OnlyGone DEF FifosInv
  <2>4. Progress' /\ MainWaits' /\ AuxKeepsUp'
    BY <2>1, <2>2, WentTo DEF FifosInv, WriteWhile, Progress, MainWaits, AuxKeepsUp
  <2> QED
    BY <2>3, <2>4 DEF FifosInv
<1> QED
  BY <1>1, <1>2

LEMMA MainDrained ==
  ASSUME FifosInv, Done
  PROVE  FifosInv'
<1>1. UNCHANGED <<txFifo, rxFifo, shifting, wire, read>> /\ go.device = "main" /\ Len(read) = go.cnt
  BY DEF Done, FifosInv, MainWaits, Progress
<1>2. CASE go.ren
  <2>1. /\ go' \in Goes /\ go'.at = "rest" /\ go'.device = go.device /\ go'.count = go.count
        /\ go'.cnt4w = go.cnt4w /\ go'.cnt = go.cnt /\ go'.tx = go.tx /\ go'.ren = go.ren
    BY <1>2 DEF Done, FifosInv, Goes
  <2>2. WordsThere' /\ WordsShifted'
    BY <1>1, <2>1, OnlyGone DEF FifosInv
  <2>3. Progress' /\ MainWaits' /\ AuxKeepsUp'
    BY <1>1, <1>2, <2>1 DEF FifosInv, Progress, MainWaits, AuxKeepsUp
  <2> QED
    BY <2>1, <2>2, <2>3 DEF FifosInv
<1>3. CASE ~go.ren
  <2>1. /\ go' \in Goes /\ go'.at = "reading" /\ go'.device = go.device /\ go'.count = go.count
        /\ go'.cnt4w = go.cnt4w /\ go'.cnt = go.count /\ go'.tx = go.tx /\ go'.ren = TRUE
        /\ go'.cs = go.cs
    BY <1>3 DEF Done, FifosInv, Goes
  <2>2. WordsThere' /\ WordsShifted'
    BY <1>1, <2>1, OnlyGone DEF FifosInv
  <2>3. go.cnt = go.cnt4w /\ go.tx <= go.cnt /\ go.cnt4w <= go.count /\ go.cs
    BY <1>3 DEF FifosInv, Progress, Done
  <2>4. Progress' /\ AuxKeepsUp'
    BY <1>1, <2>1, <2>3 DEF FifosInv, Goes, Progress, AuxKeepsUp
  <2>5. MainWaits'
    BY <1>1, <2>1 DEF FifosInv, MainWaits, Done
  <2> QED
    BY <2>1, <2>2, <2>4, <2>5 DEF FifosInv
<1> QED
  BY <1>2, <1>3

LEMMA AuxLooks ==
  ASSUME FifosInv, LookAtStatus
  PROVE  FifosInv'
<1>1. UNCHANGED <<txFifo, rxFifo, shifting, wire, read>>
  BY DEF LookAtStatus
<1>2. CASE AllDone
  <2>1. GoTo("waiting")
    BY <1>2 DEF LookAtStatus, GoTo
  <2>2. WordsThere' /\ WordsShifted' /\ go' \in Goes
    BY <1>1, <2>1, WentTo, OnlyGone DEF FifosInv, Stations
  <2>3. Progress' /\ MainWaits' /\ AuxKeepsUp'
    BY <1>1, <1>2, <2>1, WentTo DEF AllDone, RxCnt, FifosInv, Stations, LookAtStatus, Progress, MainWaits, AuxKeepsUp
  <2> QED
    BY <2>2, <2>3 DEF FifosInv
<1>3. CASE ~AllDone
  <2>1. /\ go' \in Goes /\ go'.at = "taking" /\ go'.device = go.device /\ go'.count = go.count
        /\ go'.cnt4w = go.cnt4w /\ go'.cnt = go.cnt /\ go'.tx = go.tx /\ go'.ren = go.ren
        /\ go'.cs = go.cs /\ go'.rxEmpty = (rxFifo = <<>>) /\ go'.txFull = (Len(txFifo) > 2)
    <3> DEFINE empty == rxFifo = <<>>
               full == Len(txFifo) > 2
    <3>1. go' = [go EXCEPT !.at = "taking", !.rxEmpty = empty, !.txFull = full]
      BY <1>3 DEF LookAtStatus
    <3>2. empty \in BOOLEAN /\ full \in BOOLEAN /\ go \in Goes
      BY DEF FifosInv
    <3> HIDE DEF empty, full
    <3>3. /\ go' \in Goes /\ go'.at = "taking" /\ go'.device = go.device /\ go'.count = go.count
          /\ go'.cnt4w = go.cnt4w /\ go'.cnt = go.cnt /\ go'.tx = go.tx /\ go'.ren = go.ren
          /\ go'.cs = go.cs /\ go'.rxEmpty = empty /\ go'.txFull = full
      BY <3>1, <3>2 DEF Goes
    <3> QED
      BY <3>3 DEF empty, full
  <2>2. WordsThere' /\ WordsShifted'
    BY <1>1, <2>1, OnlyGone DEF FifosInv
  <2>3. Progress' /\ MainWaits'
    BY <1>1, <2>1 DEF FifosInv, Progress, MainWaits, LookAtStatus
  <2>4. AuxKeepsUp'
    <3>1. /\ go.device = "aux" /\ ~go.ren /\ go.cnt4w = go.count
          /\ Len(rxFifo) + Len(shifting) + Len(txFifo) <= 4
      BY DEF FifosInv, AuxKeepsUp, LookAtStatus
    <3>2. Len(shifting) <= 1
      BY DEF FifosInv, WordsThere
    <3>3. /\ ~go'.txFull => Len(txFifo) <= 2
          /\ ~go'.rxEmpty => rxFifo # <<>>
          /\ go'.rxEmpty /\ ~go'.txFull => Len(rxFifo) + Len(shifting) + Len(txFifo) <= 3
      <4>1. /\ ~(Len(txFifo) > 2) => Len(txFifo) <= 2
            /\ rxFifo = <<>> /\ ~(Len(txFifo) > 2) => Len(rxFifo) + Len(shifting) + Len(txFifo) <= 3
        BY <3>2, Lengths DEF FifosInv
      <4> QED
        BY <2>1, <4>1, Zenon
    <3> QED
      BY <1>1, <2>1, <3>1, <3>3 DEF AuxKeepsUp
  <2> QED
    BY <2>1, <2>2, <2>3, <2>4 DEF FifosInv
<1> QED
  BY <1>2, <1>3

LEMMA AuxTakes ==
  ASSUME FifosInv, TakeOne
  PROVE  FifosInv'
<1>1. /\ go' \in Goes /\ go'.at = "giving" /\ go'.device = go.device /\ go'.count = go.count
      /\ go'.cnt4w = go.cnt4w /\ go'.cnt = go.cnt /\ go'.tx = go.tx /\ go'.ren = go.ren
      /\ go'.cs = go.cs /\ go'.txFull = go.txFull
  BY WentTo DEF TakeOne, FifosInv, Stations
<1>2. /\ go.device = "aux" /\ ~go.ren /\ go.cnt4w = go.count /\ go.cnt = go.count /\ go.cs
      /\ go.tx <= go.count
      /\ Len(rxFifo) + Len(shifting) + Len(txFifo) <= 4
      /\ (~go.txFull => Len(txFifo) <= 2) /\ (~go.rxEmpty => rxFifo # <<>>)
      /\ (go.rxEmpty /\ ~go.txFull => Len(rxFifo) + Len(shifting) + Len(txFifo) <= 3)
  BY DEF FifosInv, Progress, AuxKeepsUp, TakeOne
<1>3. CASE RxCnt < go.count /\ ~go.rxEmpty
  <2>1. /\ WordsThere' /\ Len(read') = Len(read) + 1 /\ Len(rxFifo') = Len(rxFifo) - 1
        /\ Len(read') \in Nat /\ Len(rxFifo') \in Nat
    BY <1>1, <1>2, <1>3, WordReadOff DEF FifosInv, TakeOne
  <2>2. WordsShifted'
    <3>1. Len(read') + Len(rxFifo') = Len(read) + Len(rxFifo)
      BY <2>1, Lengths DEF FifosInv
    <3> QED
      BY <1>1, <3>1, ShiftedUnmoved DEF FifosInv, TakeOne
  <2>3. Progress'
    BY <1>1, <1>2, <2>1 DEF Progress, FifosInv
  <2>4. MainWaits' /\ AuxKeepsUp'
    BY <1>1, <1>2, <2>1, Lengths DEF MainWaits, AuxKeepsUp, TakeOne, FifosInv
  <2> QED
    BY <1>1, <2>1, <2>2, <2>3, <2>4 DEF FifosInv
<1>4. CASE ~(RxCnt < go.count /\ ~go.rxEmpty)
  <2>1. UNCHANGED <<txFifo, rxFifo, shifting, wire, read>>
    BY <1>4 DEF TakeOne
  <2>2. go.rxEmpty
    <3>1. ASSUME ~go.rxEmpty
          PROVE  FALSE
      <4>1. Len(rxFifo) > 0 /\ ~(Len(read) < go.count)
        BY <1>2, <1>4, <3>1, Lengths DEF FifosInv, RxCnt
      <4>2. go.count \in Nat /\ go.tx = Len(read) + Len(rxFifo) + Len(shifting) + Len(txFifo)
        BY DEF FifosInv, Goes, WordsThere
      <4> QED
        BY <1>2, <4>1, <4>2, Lengths DEF FifosInv
    <3> QED
      BY <3>1
  <2>3. WordsThere' /\ WordsShifted'
    BY <1>1, <2>1, OnlyGone DEF FifosInv
  <2>4. Progress'
    BY <1>1, <1>2, <2>1 DEF Progress, FifosInv
  <2>5. MainWaits' /\ AuxKeepsUp'
    BY <1>1, <1>2, <2>1, <2>2 DEF MainWaits, AuxKeepsUp
  <2> QED
    BY <1>1, <2>3, <2>4, <2>5 DEF FifosInv
<1> QED
  BY <1>3, <1>4

LEMMA AuxGives ==
  ASSUME FifosInv, GiveOne
  PROVE  FifosInv'
<1>1. /\ go.device = "aux" /\ ~go.ren /\ go.cnt4w = go.count /\ go.cnt = go.count /\ go.cs
      /\ go.tx <= go.count
      /\ Len(rxFifo) + Len(shifting) + Len(txFifo) <= 4
      /\ (~go.txFull => Len(txFifo) <= 2)
      /\ (~go.txFull => Len(rxFifo) + Len(shifting) + Len(txFifo) <= 3)
  BY DEF FifosInv, Progress, AuxKeepsUp, GiveOne
<1>2. UNCHANGED <<rxFifo, shifting, wire, read>>
  BY DEF GiveOne
<1>3. CASE go.tx < go.count /\ ~go.txFull
  <2>1. /\ go' \in Goes /\ go'.at = "looking" /\ go'.device = go.device /\ go'.count = go.count
        /\ go'.cnt4w = go.cnt4w /\ go'.cnt = go.cnt /\ go'.tx = go.tx + 1 /\ go'.ren = go.ren
        /\ go'.cs = go.cs
    <3>1. go' = [go EXCEPT !.at = "looking", !.tx = @ + 1]
      BY <1>3 DEF GiveOne
    <3>2. go \in Goes /\ go.tx + 1 \in Nat
      BY DEF FifosInv, Goes
    <3> QED
      BY <3>1, <3>2 DEF Goes
  <2>2. WordsThere' /\ Len(txFifo') = Len(txFifo) + 1
    BY <1>2, <1>3, <2>1, WordSent DEF GiveOne, FifosInv, Goes
  <2>3. WordsShifted'
    BY <1>2, <2>1, ShiftedUnmoved DEF FifosInv
  <2>4. Progress'
    <3>1. go.tx + 1 <= go.count
      BY <1>3 DEF FifosInv, Goes
    <3> QED
      BY <1>1, <1>2, <2>1, <3>1 DEF Progress, FifosInv
  <2>5. MainWaits' /\ AuxKeepsUp'
    BY <1>1, <1>2, <1>3, <2>1, <2>2, Lengths DEF MainWaits, AuxKeepsUp, FifosInv
  <2> QED
    BY <2>1, <2>2, <2>3, <2>4, <2>5 DEF FifosInv
<1>4. CASE ~(go.tx < go.count /\ ~go.txFull)
  <2>1. GoTo("looking") /\ UNCHANGED <<txFifo, rxFifo, shifting, wire, read>>
    BY <1>4 DEF GiveOne
  <2>2. WordsThere' /\ WordsShifted' /\ go' \in Goes
    BY <2>1, WentTo, OnlyGone DEF FifosInv, Stations
  <2>3. Progress' /\ MainWaits' /\ AuxKeepsUp'
    BY <1>1, <2>1, WentTo DEF FifosInv, Stations, GiveOne, Progress, MainWaits, AuxKeepsUp
  <2> QED
    BY <2>2, <2>3 DEF FifosInv
<1> QED
  BY <1>3, <1>4

LEMMA AuxDrained ==
  ASSUME FifosInv, NotBusy
  PROVE  FifosInv'
<1>1. UNCHANGED <<txFifo, rxFifo, shifting, wire, read>>
  BY DEF NotBusy
<1>2. /\ go' \in Goes /\ go'.at = "rest" /\ go'.device = go.device /\ go'.count = go.count
      /\ go'.cnt4w = go.cnt4w /\ go'.cnt = go.cnt /\ go'.tx = go.tx /\ go'.ren = go.ren
  BY DEF NotBusy, FifosInv, Goes
<1>3. WordsThere' /\ WordsShifted'
  BY <1>1, <1>2, OnlyGone DEF FifosInv
<1>4. Progress' /\ MainWaits' /\ AuxKeepsUp'
  BY <1>1, <1>2 DEF FifosInv, Progress, MainWaits, AuxKeepsUp, NotBusy
<1> QED
  BY <1>2, <1>3, <1>4 DEF FifosInv

(* the device: a word begins to be shifted, and has been                   *)
LEMMA WordShifting ==
  ASSUME FifosInv, ShiftBegins
  PROVE  FifosInv'
<1>1. /\ shifting = <<>> /\ txFifo # <<>> /\ shifting' = <<Head(txFifo)>> /\ txFifo' = Tail(txFifo)
      /\ UNCHANGED <<rxFifo, go, wire, read>>
      /\ go.device = "main" => Len(rxFifo) < FifoDepth["main"]
  BY DEF ShiftBegins
<1>2. WordsAfter(shifting, Len(read) + Len(rxFifo)) /\ Len(read) + Len(rxFifo) \in Nat
      /\ WordsAfter(txFifo, Len(read) + Len(rxFifo) + Len(shifting))
  BY Lengths DEF FifosInv, WordsThere
<1> DEFINE n == Len(read) + Len(rxFifo)
<1>3. /\ shifting' = Append(shifting, Head(txFifo)) /\ txFifo # <<>> /\ txFifo' = Tail(txFifo)
      /\ n \in Nat /\ WordsAfter(shifting, n) /\ WordsAfter(txFifo, n + Len(shifting))
  BY <1>1, <1>2
<1>4. /\ WordsAfter(shifting', n) /\ WordsAfter(txFifo', n + Len(shifting'))
      /\ Len(shifting') = Len(shifting) + 1 /\ Len(txFifo') = Len(txFifo) - 1
  <2> HIDE DEF n
  <2> QED
    BY <1>3, WordPassedOn
<1>5. Len(shifting) = 0 /\ Len(txFifo) \in Nat /\ Len(rxFifo) \in Nat /\ Len(read) \in Nat
  BY <1>1, Lengths DEF FifosInv
<1>6. WordsThere'
  <2>1. /\ go.tx = Len(read) + Len(rxFifo) + Len(shifting') + Len(txFifo') /\ Len(shifting') <= 1
    BY <1>4, <1>5 DEF FifosInv, WordsThere
  <2> QED
    BY <1>1, <1>4, <2>1 DEF FifosInv, WordsThere
<1>7. WordsShifted' /\ Progress' /\ go' \in Goes
  BY <1>1 DEF FifosInv, WordsShifted, Progress
<1>8. MainWaits'
  BY <1>1 DEF FifosInv, MainWaits
<1>9. AuxKeepsUp'
  <2>1. /\ Len(rxFifo) + Len(shifting') + Len(txFifo') = Len(rxFifo) + Len(shifting) + Len(txFifo)
        /\ (Len(txFifo) <= 2 => Len(txFifo') <= 2)
    BY <1>4, <1>5
  <2> QED
    BY <1>1, <2>1 DEF FifosInv, AuxKeepsUp
<1> QED
  BY <1>6, <1>7, <1>8, <1>9 DEF FifosInv

LEMMA WordOnWire ==
  ASSUME FifosInv, ShiftEnds, FifoDepth["aux"] >= 4
  PROVE  FifosInv'
<1>1. /\ shifting # <<>> /\ shifting' = <<>> /\ UNCHANGED <<txFifo, go, read>>
      /\ wire' = Append(wire, [word |-> Head(shifting), ren |-> go.ren, cs |-> go.cs])
  BY DEF ShiftEnds
<1> DEFINE n == Len(read) + Len(rxFifo)
<1>2. /\ Len(shifting) = 1 /\ n \in Nat /\ Len(read) \in Nat /\ Len(rxFifo) \in Nat
      /\ Len(txFifo) \in Nat
  <2>1. Len(shifting) <= 1
    BY DEF FifosInv, WordsThere
  <2>2. /\ Len(read) \in Nat /\ Len(rxFifo) \in Nat /\ Len(shifting) \in Nat /\ Len(txFifo) \in Nat
        /\ Len(shifting) # 0
    BY <1>1, Lengths DEF FifosInv
  <2> QED
    BY <2>1, <2>2
<1>3. /\ WordsAfter(rxFifo, Len(read)) /\ WordsAfter(shifting, n)
  BY DEF FifosInv, WordsThere
<1>4. go.at # "rest" /\ go.cs /\ n + 1 <= go.tx
  <2>1. go.tx = Len(read) + Len(rxFifo) + Len(shifting) + Len(txFifo) /\ go.tx <= go.cnt
        /\ go.count \in Nat /\ go.cnt4w \in Nat
    BY DEF FifosInv, WordsThere, Progress, Goes
  <2>2. n + 1 <= go.tx
    BY <1>2, <2>1
  <2>3. go.at = "rest" => go.tx <= Len(read)
    BY <2>1 DEF FifosInv, Progress
  <2>4. ~(go.tx <= Len(read))
    BY <1>2, <2>1
  <2> QED
    BY <2>2, <2>3, <2>4 DEF FifosInv, Progress
<1>5. Len(rxFifo) < FifoDepth[go.device]
  <2>1. CASE go.at \in {"reading", "writing", "draining"}
    BY <1>1, <2>1 DEF FifosInv, MainWaits
  <2>2. CASE go.at \in {"looking", "taking", "giving", "waiting"}
    <3>1. go.device = "aux" /\ Len(rxFifo) + Len(shifting) + Len(txFifo) <= 4
      BY <2>2 DEF FifosInv, AuxKeepsUp
    <3>2. FifoDepth["aux"] \in Nat
      BY SpiAssumption
    <3> QED
      BY <1>2, <3>1, <3>2
  <2> QED
    BY <1>4, <2>1, <2>2 DEF FifosInv, Goes
<1>6. rxFifo' = Append(rxFifo, Head(shifting))
  BY <1>5 DEF ShiftEnds
<1>7. /\ WordsAfter(rxFifo', Len(read)) /\ Len(rxFifo') = Len(rxFifo) + 1
      /\ Head(shifting) = n + 1
  BY <1>1, <1>2, <1>3, <1>6, WordPassedOn
<1>8. /\ Len(shifting') = 0 /\ WordsAfter(shifting', Len(read) + Len(rxFifo'))
  BY <1>1, EmptySeq DEF WordsAfter
<1>9. /\ Len(read) + Len(rxFifo') = n + 1
      /\ Len(read) + Len(rxFifo') + Len(shifting') = Len(read) + Len(rxFifo) + Len(shifting)
      /\ Len(rxFifo') + Len(shifting') + Len(txFifo) = Len(rxFifo) + Len(shifting) + Len(txFifo)
  BY <1>2, <1>7, <1>8
<1>10. WordsThere'
  <2>1. /\ WordsAfter(read, 0) /\ WordsAfter(txFifo, Len(read) + Len(rxFifo) + Len(shifting))
        /\ go.tx = Len(read) + Len(rxFifo) + Len(shifting) + Len(txFifo)
    BY DEF FifosInv, WordsThere
  <2>2. /\ WordsAfter(txFifo, Len(read) + Len(rxFifo') + Len(shifting'))
        /\ go.tx = Len(read) + Len(rxFifo') + Len(shifting') + Len(txFifo)
        /\ Len(shifting') <= 1
    BY <1>8, <1>9, <2>1
  <2> QED
    BY <1>1, <1>7, <1>8, <2>1, <2>2 DEF WordsThere
<1>11. WordsShifted'
  <2> DEFINE w == [word |-> n + 1, ren |-> go.ren, cs |-> go.cs]
  <2>1. wire' = Append(wire, w) /\ wire \in Seq(WireWords) /\ Len(wire) = n
    BY <1>1, <1>7 DEF FifosInv, WordsShifted
  <2>2. w \in WireWords /\ w.word = n + 1 /\ w.cs = go.cs /\ w.ren = go.ren
    BY <1>2 DEF FifosInv, Goes, WireWords
  <2>3. w.ren <=> n + 1 > go.cnt4w
    <3>1. go.ren => go.cnt4w <= Len(read)
      BY DEF FifosInv, Progress
    <3>2. ~go.ren => go.tx <= go.cnt4w
      BY DEF FifosInv, Progress
    <3>3. go.cnt4w \in Nat /\ go.tx \in Nat
      BY DEF FifosInv, Goes
    <3>4. go.ren => n + 1 > go.cnt4w
      BY <1>2, <3>1, <3>3
    <3>5. ~go.ren => ~(n + 1 > go.cnt4w)
      BY <1>2, <1>4, <3>2, <3>3
    <3> QED
      BY <2>2, <3>4, <3>5
  <2> HIDE DEF w
  <2>4. /\ wire' \in Seq(WireWords) /\ Len(wire') = n + 1 /\ wire'[n + 1] = w
        /\ \A i \in 1..n : wire'[i] = wire[i]
    BY <2>1, <2>2, AppendProperties
  <2>5. DOMAIN wire' = 1..(n + 1) /\ DOMAIN wire = 1..n
    BY <2>1, <2>4, LenProperties
  <2> HIDE DEF n
  <2>6. ASSUME NEW i \in 1..(n + 1)
        PROVE  wire'[i].word = i /\ wire'[i].cs /\ (wire'[i].ren <=> i > go.cnt4w)
    <3>1. CASE i = n + 1
      BY <1>4, <2>2, <2>3, <2>4, <3>1
    <3>2. CASE i \in 1..n
      BY <2>4, <2>5, <3>2 DEF FifosInv, WordsShifted
    <3> QED
      BY <1>2, <3>1, <3>2
  <2> QED
    BY <1>1, <1>9, <2>4, <2>5, <2>6 DEF WordsShifted
<1>12. Progress' /\ go' \in Goes /\ MainWaits'
  BY <1>1 DEF FifosInv, Progress, MainWaits
<1>13. AuxKeepsUp'
  <2>1. rxFifo' # <<>>
    BY <1>2, <1>7, EmptySeq
  <2> QED
    BY <1>1, <1>9, <2>1 DEF FifosInv, AuxKeepsUp
<1> QED
  BY <1>10, <1>11, <1>12, <1>13 DEF FifosInv

LEMMA FifosInvKept ==
  ASSUME FifoDepth["aux"] >= 4
  PROVE  FifosInv /\ [FifosNext]_fifoVars => FifosInv'
<1> SUFFICES ASSUME FifosInv, [FifosNext]_fifoVars
             PROVE  FifosInv'
  OBVIOUS
<1>1. CASE UNCHANGED fifoVars
  BY <1>1 DEF fifoVars, FifosInv, WordsThere, WordsShifted, Progress, MainWaits, AuxKeepsUp
<1>2. CASE \E d \in Devices, count \in 1..MaxWords, ren3w \in 0..MaxWords : spiGo(d, count, ren3w)
  BY <1>2, SpiAssumption, TransferBegins
<1> QED
  BY <1>1, <1>2, MainReads, MainWrites, MainDrained, AuxLooks, AuxTakes, AuxGives, AuxDrained,
     WordShifting, WordOnWire DEF FifosNext

(* For any number of words, depth of the FIFO of the main device and of at *)
(* least four words of the auxiliary one, and however the processor is     *)
(* held up: every word of a transfer is shifted once, in order and while   *)
(* the device is selected, and is read as the answer to the one sent in    *)
(* its place.                                                              *)
THEOREM WordsExchangedAlways ==
  ASSUME FifoDepth["aux"] >= 4
  PROVE  FifosSpec => []WordsExchanged
<1>1. FifosInv /\ [FifosNext]_fifoVars => FifosInv'
  BY FifosInvKept
<1>2. FifosInv => WordsExchanged
  <2> SUFFICES ASSUME FifosInv
               PROVE  WordsExchanged
    OBVIOUS
  <2>1. \A i \in DOMAIN read : read[i] = i
    BY LenProperties DEF FifosInv, WordsThere, WordsAfter
  <2>2. go.at = "rest" => Len(read) = go.count /\ Len(wire) = go.count
    <3>1. /\ go.tx = Len(read) + Len(rxFifo) + Len(shifting) + Len(txFifo)
          /\ go.tx <= go.cnt /\ Len(wire) = Len(read) + Len(rxFifo) /\ go.cnt \in Nat
          /\ (go.at = "rest" => Len(read) = go.count /\ go.cnt = go.count)
      BY DEF FifosInv, WordsThere, WordsShifted, Progress, Goes
    <3> QED
      BY <3>1, Lengths DEF FifosInv
  <2> QED
    BY <2>1, <2>2 DEF FifosInv, WordsShifted, WordsExchanged
<1> QED
  BY <1>1, <1>2, FifosInvHolds, PTL DEF FifosSpec
=============================================================================
