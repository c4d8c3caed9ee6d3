-------------------------- MODULE Handshake_proofs --------------------------
(***************************************************************************)
(* The reset and the answer to it: the buffer of the answer is safe for    *)
(* every answer a card may send and every size of the buffer, up to the    *)
(* store that has no entry; and wherever ResetProcedure ends, it leaves    *)
(* reader, port, pins and card in a state that CardReset lists, for any    *)
(* cards, parameters and answers to reset.                                 *)
(***************************************************************************)
EXTENDS PpsExchange, ResetProcedure, SequenceTheorems, TLAPS

Uint8 == 0..255

(* the variables the bounds depend on, and where the reader is in the answer *)
Typed ==
  /\ pc \in {"ts", "t0", "interface", "tck", "done", "outside"}
  /\ line \in Seq(Byte) /\ atr \in Seq(Byte)
  /\ offset \in [InterfaceKinds \X (0..MAX_INTERFACE_BYTES_COUNT-1) -> Uint8]
  /\ level \in Nat
  /\ pc = "ts" => Len(atr) = 0
  /\ pc = "t0" => Len(atr) = 1
  /\ pc \in {"interface", "tck"} => Len(atr) >= 2

(* the other variables *)
Others ==
  /\ answer \in Answer /\ wanted \subseteq InterfaceKinds
  /\ status \in {"none", "ok", "communication_error", "unexpected_card_response"}

(* what AtrFitsBuffer says besides the types *)
Bounded ==
  /\ Len(atr) <= MAX_ATR_SIZE
  /\ \A x \in DOMAIN offset : offset[x] # BAD_ATR_OFFSET => offset[x] < Len(atr)

AInv == Typed /\ Bounded

LEMMA Uint8Range == \A u : u \in Uint8 <=> u \in Nat /\ u <= 255
  BY DEF Uint8

(* A byte taken from the line is added to the buffer. *)
LEMMA TakesOne ==
  ASSUME Typed, Receives
  PROVE  /\ line' \in Seq(Byte)
         /\ Head(line) \in Byte
         /\ Append(atr, Head(line)) \in Seq(Byte)
         /\ Len(Append(atr, Head(line))) = Len(atr) + 1
  <1>1. line \in Seq(Byte) /\ line # <<>> /\ line' = Tail(line) /\ atr \in Seq(Byte)
    BY DEF Typed, Receives
  <1>2. Head(line) \in Byte /\ Tail(line) \in Seq(Byte)
    BY <1>1, HeadTailProperties
  <1> QED BY <1>1, <1>2, AppendProperties

(* Offsets of stored bytes stay offsets of stored bytes while the buffer   *)
(* grows.                                                                  *)
LEMMA OffsetsStay ==
  ASSUME Typed, Bounded, NEW n \in Nat, n >= Len(atr),
         NEW x \in InterfaceKinds \X (0..MAX_INTERFACE_BYTES_COUNT-1)
  PROVE  offset[x] # BAD_ATR_OFFSET => offset[x] < n
  <1>1. DOMAIN offset = InterfaceKinds \X (0..MAX_INTERFACE_BYTES_COUNT-1) /\ offset[x] \in Uint8
    BY DEF Typed
  <1>2. offset[x] # BAD_ATR_OFFSET => offset[x] < Len(atr)
    BY <1>1 DEF Bounded
  <1>3. Len(atr) \in Nat
    BY LenProperties DEF Typed
  <1>4. offset[x] \in Nat
    BY <1>1, Uint8Range
  <1> QED BY <1>2, <1>3, <1>4

(* A step that stores no more than there is room for, and files no offset. *)
LEMMA Grows ==
  ASSUME AInv, UNCHANGED offset, atr' \in Seq(Byte),
         Len(atr') >= Len(atr), Len(atr') <= MAX_ATR_SIZE
  PROVE  Bounded'
  <1>1. DOMAIN offset' = InterfaceKinds \X (0..MAX_INTERFACE_BYTES_COUNT-1)
    BY DEF AInv, Typed
  <1>2. Len(atr') \in Nat
    BY LenProperties
  <1>3. \A x \in DOMAIN offset' : offset'[x] # BAD_ATR_OFFSET => offset'[x] < Len(atr')
    BY <1>1, <1>2, OffsetsStay DEF AInv
  <1> QED BY <1>3 DEF Bounded

LEMMA InterfaceByteStep ==
  ASSUME AInv, ReadInterfaceByte, ~NoRoomFor(1)
  PROVE  AInv'
  <1> DEFINE Entries == InterfaceKinds \X (0..MAX_INTERFACE_BYTES_COUNT-1)
  <1>1. /\ line' \in Seq(Byte) /\ atr' \in Seq(Byte) /\ Len(atr') = Len(atr) + 1
        /\ Len(atr) \in Nat
    BY TakesOne, LenProperties DEF AInv, Typed, ReadInterfaceByte
  <1>2. Len(atr') <= MAX_ATR_SIZE
    BY <1>1, AtrAssumption DEF NoRoomFor
  <1>3. level' \in Nat
    BY DEF AInv, Typed, ReadInterfaceByte, LevelAfter
  <1>4. CASE level < MAX_INTERFACE_BYTES_COUNT
    <2>1. offset' = [offset EXCEPT ![<<NextKind, level>>] = Len(atr)] /\ pc' = pc
      BY <1>4 DEF ReadInterfaceByte
    <2>2. offset \in [Entries -> Uint8]
      BY DEF AInv, Typed
    <2>3. offset' \in [Entries -> Uint8]
      <3>1. Len(atr) \in Uint8
        <4>1. MAX_ATR_SIZE \in 4..254
          BY AtrAssumption
        <4>2. Len(atr) \in Nat /\ Len(atr) <= 254
          BY <1>1, <1>2, <4>1
        <4> QED BY <4>2, Uint8Range
      <3> QED BY <2>1, <2>2, <3>1
    <2>4. ASSUME NEW x \in Entries, offset'[x] # BAD_ATR_OFFSET PROVE offset'[x] < Len(atr')
      <3>1. CASE x = <<NextKind, level>>
        <4>1. offset'[x] = Len(atr)
          BY <2>1, <2>2, <3>1
        <4> QED BY <4>1, <1>1
      <3>2. CASE x # <<NextKind, level>>
        <4>1. offset'[x] = offset[x]
          BY <2>1, <2>2, <3>2
        <4>2. Len(atr') \in Nat /\ Len(atr') >= Len(atr)
          BY <1>1
        <4> QED BY <4>1, <4>2, <2>4, OffsetsStay DEF AInv
      <3> QED BY <3>1, <3>2
    <2>5. Bounded'
      <3>1. DOMAIN offset' = Entries
        BY <2>3
      <3> QED BY <1>2, <2>4, <3>1 DEF Bounded
    <2>6. pc' = "interface" /\ Len(atr') >= 2
      BY <1>1, <2>1 DEF AInv, Typed, ReadInterfaceByte
    <2> QED BY <1>1, <1>3, <2>3, <2>5, <2>6 DEF AInv, Typed
  <1>5. CASE ~(level < MAX_INTERFACE_BYTES_COUNT)
    <2>1. pc' = "outside" /\ UNCHANGED offset
      BY <1>5 DEF ReadInterfaceByte
    <2>2. Bounded'
      BY <1>1, <1>2, <2>1, Grows
    <2> QED BY <1>1, <1>3, <2>1, <2>2 DEF AInv, Typed
  <1> QED BY <1>4, <1>5

LEMMA HistoricalBytesStep ==
  ASSUME AInv, ReadHistoricalBytes
  PROVE  AInv'
  <1> DEFINE n == historical_bytes_len
  <1>0. atr \in Seq(Byte) /\ line \in Seq(Byte) /\ Len(atr) \in Nat /\ Len(line) \in Nat
        /\ Len(atr) >= 2
    BY LenProperties DEF AInv, Typed, ReadHistoricalBytes
  <1>1. n \in 0..15
    <2>1. atr[2] \in Byte
      BY <1>0, ElementOfSeq
    <2> QED BY <2>1 DEF Byte, historical_bytes_len
  <1>2. CASE NoRoomFor(n) \/ Len(line) < n
    <2>1. UNCHANGED <<atr, level, offset>> /\ pc' = "done" /\ line' \in {line, <<>>}
      BY <1>2 DEF ReadHistoricalBytes, Refused, Returns
    <2>2. line' \in Seq(Byte)
      BY <2>1, <1>0, EmptySeq
    <2> QED BY <2>1, <2>2 DEF AInv, Typed, Bounded
  <1>3. CASE ~NoRoomFor(n) /\ Len(line) >= n
    <2>1. /\ atr' = atr \o SubSeq(line, 1, n) /\ line' = SubSeq(line, n + 1, Len(line))
          /\ pc' = "tck" /\ UNCHANGED <<level, offset>>
      BY <1>0, <1>1, <1>3 DEF ReadHistoricalBytes
    <2>2. SubSeq(line, 1, n) \in Seq(Byte) /\ Len(SubSeq(line, 1, n)) = n
      <3>1. \A i \in 1..n : line[i] \in Byte
        BY <1>0, <1>1, <1>3, ElementOfSeq
      <3> QED BY <1>1, <3>1, SubSeqProperties
    <2>3. line' \in Seq(Byte)
      <3>1. \A i \in n + 1..Len(line) : line[i] \in Byte
        BY <1>0, <1>1, <1>3, ElementOfSeq
      <3> QED BY <1>0, <1>1, <2>1, <3>1, SubSeqProperties
    <2>4. atr' \in Seq(Byte) /\ Len(atr') = Len(atr) + n
      BY <1>0, <2>1, <2>2, ConcatProperties
    <2>5. Len(atr') >= Len(atr) /\ Len(atr') <= MAX_ATR_SIZE
      BY <1>0, <1>1, <1>3, <2>4, AtrAssumption DEF NoRoomFor
    <2>6. Bounded'
      BY <2>1, <2>4, <2>5, Grows
    <2> QED BY <1>0, <1>1, <2>1, <2>3, <2>4, <2>6 DEF AInv, Typed
  <1> QED BY <1>0, <1>1, <1>2, <1>3

LEMMA AtrStep == AInv /\ [Next]_vars => AInv'
  <1> SUFFICES ASSUME AInv, [Next]_vars PROVE AInv'
    OBVIOUS
  <1>0. Len(atr) \in Nat /\ MAX_ATR_SIZE \in 4..254
    BY LenProperties, AtrAssumption DEF AInv, Typed
  <1>1. CASE ReadTs
    <2>1. CASE Head(line).low # 0
      BY <1>1, <2>1, TakesOne DEF ReadTs, Refused, Returns, AInv, Typed, Bounded
    <2>2. CASE Head(line).low = 0
      <3>1. /\ atr' = Append(atr, Head(line)) /\ pc' = "t0" /\ UNCHANGED <<level, offset>>
            /\ pc = "ts"
        BY <1>1, <2>2 DEF ReadTs
      <3>2. line' \in Seq(Byte) /\ atr' \in Seq(Byte) /\ Len(atr') = 1
        BY <1>0, <1>1, <3>1, TakesOne DEF ReadTs, AInv, Typed
      <3>3. Bounded'
        BY <1>0, <3>1, <3>2, Grows DEF AInv, Typed
      <3> QED BY <3>1, <3>2, <3>3 DEF AInv, Typed
    <2> QED BY <2>1, <2>2
  <1>2. CASE ReadT0
    <2>1. /\ atr' = Append(atr, Head(line)) /\ pc' = "interface" /\ UNCHANGED <<level, offset>>
          /\ pc = "t0"
      BY <1>2 DEF ReadT0
    <2>2. line' \in Seq(Byte) /\ atr' \in Seq(Byte) /\ Len(atr') = 2
      <3>1. Receives /\ Len(atr) = 1
        BY <1>2 DEF ReadT0, AInv, Typed
      <3>2. line' \in Seq(Byte) /\ atr' \in Seq(Byte) /\ Len(atr') = Len(atr) + 1
        BY <2>1, <3>1, TakesOne DEF AInv
      <3> QED BY <3>1, <3>2
    <2>3. Bounded'
      BY <1>0, <2>1, <2>2, Grows DEF AInv, Typed
    <2> QED BY <2>1, <2>2, <2>3 DEF AInv, Typed
  <1>3. CASE ReadInterfaceByte
    <2>1. CASE NoRoomFor(1)
      BY <1>3, <2>1, TakesOne DEF ReadInterfaceByte, Refused, Returns, AInv, Typed, Bounded
    <2>2. CASE ~NoRoomFor(1)
      BY <1>3, <2>2, InterfaceByteStep
    <2> QED BY <2>1, <2>2
  <1>4. CASE ReadHistoricalBytes
    BY <1>4, HistoricalBytesStep
  <1>5. CASE ReadTck
    <2>1. CASE NoRoomFor(1)
      BY <1>5, <2>1, TakesOne DEF ReadTck, Refused, Returns, AInv, Typed, Bounded
    <2>2. CASE ~NoRoomFor(1)
      <3>1. atr' = Append(atr, Head(line)) /\ pc' = "done" /\ UNCHANGED <<level, offset>>
        BY <1>5, <2>2 DEF ReadTck, Returns
      <3>2. line' \in Seq(Byte) /\ atr' \in Seq(Byte) /\ Len(atr') = Len(atr) + 1
        BY <1>5, <3>1, TakesOne DEF ReadTck, AInv
      <3>3. Bounded'
        BY <1>0, <2>2, <3>1, <3>2, Grows DEF NoRoomFor
      <3> QED BY <3>1, <3>2, <3>3 DEF AInv, Typed
    <2> QED BY <2>1, <2>2
  <1>6. CASE NoTck \/ ReadFails
    BY <1>6 DEF NoTck, ReadFails, Returns, AInv, Typed, Bounded
  <1>7. CASE UNCHANGED vars
    BY <1>7 DEF vars, AInv, Typed, Bounded
  <1> QED BY <1>1, <1>2, <1>3, <1>4, <1>5, <1>6, <1>7 DEF Next

LEMMA AtrInit == Init => AInv
  <1> SUFFICES ASSUME Init PROVE AInv
    OBVIOUS
  <1>1. line \in Seq(Byte) /\ atr = <<>>
    BY AtrAssumption DEF Init
  <1>2. atr \in Seq(Byte) /\ Len(atr) = 0
    BY <1>1, EmptySeq
  <1>3. offset \in [InterfaceKinds \X (0..MAX_INTERFACE_BYTES_COUNT-1) -> Uint8]
        /\ \A x \in DOMAIN offset : offset[x] = BAD_ATR_OFFSET
    BY DEF Init, NoOffsets, BAD_ATR_OFFSET, Uint8
  <1> QED BY <1>1, <1>2, <1>3, AtrAssumption DEF Init, AInv, Typed, Bounded

LEMMA OthersStep == AInv /\ Others /\ [Next]_vars => Others'
  <1> SUFFICES ASSUME AInv, Others, [Next]_vars PROVE Others'
    OBVIOUS
  <1>1. ASSUME Receives PROVE Head(line).next \subseteq InterfaceKinds /\ answer' = answer
    <2>1. Head(line) \in Byte
      BY <1>1, TakesOne DEF AInv
    <2> QED BY <1>1, <2>1 DEF Byte, Receives
  <1>2. CASE ReadTs \/ ReadT0
    BY <1>1, <1>2 DEF ReadTs, ReadT0, Refused, Returns, Others
  <1>3. CASE ReadInterfaceByte
    <2>1. WantedAfter(NextKind, Head(line)) \subseteq InterfaceKinds
      BY <1>1, <1>3 DEF ReadInterfaceByte, WantedAfter, Others
    <2> QED BY <1>1, <1>3, <2>1 DEF ReadInterfaceByte, Refused, Returns, Others
  <1>4. CASE ReadHistoricalBytes
    BY <1>4 DEF ReadHistoricalBytes, Refused, Returns, Others
  <1>5. CASE ReadTck
    BY <1>1, <1>5 DEF ReadTck, Refused, Returns, Others
  <1>6. CASE NoTck \/ ReadFails
    BY <1>6 DEF NoTck, ReadFails, Returns, Others
  <1>7. CASE UNCHANGED vars
    BY <1>7 DEF vars, Others
  <1> QED BY <1>2, <1>3, <1>4, <1>5, <1>6, <1>7 DEF Next

(* Whatever a card sends, the answer stays within atr->atr, and every      *)
(* offset that is filed is that of a byte that was stored.                 *)
THEOREM AtrBufferSafe == Spec => []AtrFitsBuffer
  <1>1. Init => Others
    BY AtrAssumption DEF Init, Others
  <1>2. AInv /\ Others => AtrFitsBuffer
    BY DEF AInv, Others, Typed, Uint8, Bounded, AtrFitsBuffer, AtrTypeOK
  <1> QED BY AtrInit, AtrStep, OthersStep, <1>1, <1>2, PTL DEF Spec

(* The PPS exchange leaves what was read of the answer as it is, so this   *)
(* holds to the end of the negotiation.                                    *)
THEOREM NegotiationSafe == PpsSpec => []AtrFitsBuffer
  <1>1. PpsInit => Init
    BY DEF PpsInit
  <1>2. [PpsNext]_<<vars, ppsVars>> => [Next]_vars
    BY DEF PpsNext, SendRequest, ReadPpss, ReadPps0, ReadPpsi, ReadPck, PpsReadFails, vars
  <1> QED BY <1>1, <1>2, AtrBufferSafe, PTL DEF PpsSpec, Spec

(***************************************************************************)
(* The inductive invariant: what is known at each stage of the reader, the *)
(* port, the pins and the card, in terms of what they were at the call.    *)
(***************************************************************************)
Slot == start.line.card

(* pigpio and the card are those of the call; a second iteration is one    *)
(* that a card of the slot has asked for                                   *)
SameSlot ==
  /\ slotLine.lib = start.line.lib /\ slotLine.card = Slot
  /\ stage \notin {"rst_down", "done"} => start.line.lib
  /\ iteration = 2 => start.line.lib /\ Reachable(start.line, dev) /\ Slot \in TwoModeCards

(* before the port and the clock are set to the defaults *)
NotYetDefault ==
  stage \in {"rst_down", "default_serial"} =>
    /\ iteration = 1 => /\ cache = start.cache
                        /\ slotLine.port = start.line.port
                        /\ slotLine.clock = start.line.clock
    /\ iteration = 2 => /\ cache.params = DefaultParams
                        /\ slotLine.port = DefaultParams
                        /\ slotLine.clock = DefaultParams

AtRst ==
  /\ stage = "rst_down" /\ iteration = 1 => slotLine = start.line
  /\ stage \in {"default_serial", "default_clock", "rst_up"} =>
       slotLine.rst = "low" /\ slotLine.mode = None
  /\ stage \in {"read_atr", "protocol", "choose", "pps", "switch_serial", "switch_clock"} =>
       slotLine.rst = "high"

AtDefault ==
  /\ stage \in {"default_clock", "rst_up", "read_atr", "protocol", "choose", "pps",
                "switch_serial"} =>
       slotLine.port = DefaultParams /\ cache.params = DefaultParams
  /\ stage \in {"default_clock"} => slotLine.clock \in {start.line.clock, DefaultParams}
  /\ stage \in {"rst_up", "read_atr", "protocol", "choose", "pps", "switch_serial",
                "switch_clock"} => slotLine.clock = DefaultParams
  /\ stage = "read_atr" => slotLine.mode = AfterReset(start.line)
  /\ stage \in {"protocol", "choose", "pps"} => slotLine.mode = DefaultParams

AtCache ==
  /\ stage # "done" => ok = FALSE /\ cache.atrLength = start.cache.atrLength
  /\ stage \in {"rst_down", "default_serial", "default_clock", "rst_up", "read_atr"} =>
       cache.atr = (IF iteration = 1 THEN start.cache.atr ELSE Slot)
  /\ stage \in {"protocol", "choose", "pps", "switch_serial", "switch_clock"} =>
       Reachable(start.line, dev) /\ cache.atr = Slot
  /\ stage = "protocol" => info \in CardAnswers[Slot]

AtAgreed ==
  /\ stage \in {"switch_serial", "switch_clock"} =>
       slotLine.mode = Proposed(Slot, fd) /\ Proposed(Slot, fd) # None
  /\ stage = "switch_clock" =>
       slotLine.port = Proposed(Slot, fd) /\ cache.params = Proposed(Slot, fd)

RInv == /\ ResetTypeOK /\ SameSlot /\ NotYetDefault /\ AtRst /\ AtDefault /\ AtCache
        /\ AtAgreed /\ EndsAsPromised
-----------------------------------------------------------------------------
(* Caches, and the outcomes of the contract. *)

LEMMA SameCache ==
  ASSUME NEW k \in AtrCache, NEW l \in AtrCache,
         k.atr = l.atr, k.atrLength = l.atrLength, k.params = l.params
  PROVE  k = l
  BY DEF AtrCache

LEMMA CacheAt ==
  ASSUME NEW k \in AtrCache, NEW p \in Params \cup {None}
  PROVE  /\ [k EXCEPT !.params = p] \in AtrCache
         /\ [k EXCEPT !.params = p].params = p
         /\ [k EXCEPT !.params = p].atr = k.atr
         /\ [k EXCEPT !.params = p].atrLength = k.atrLength
  BY DEF AtrCache

LEMMA CacheOf ==
  ASSUME NEW k \in AtrCache, NEW a \in Cards \cup {None}
  PROVE  /\ [k EXCEPT !.atr = a] \in AtrCache
         /\ [k EXCEPT !.atr = a].atr = a
         /\ [k EXCEPT !.atr = a].params = k.params
         /\ [k EXCEPT !.atr = a].atrLength = k.atrLength
  BY DEF AtrCache

LEMMA CopiedCache ==
  ASSUME NEW k \in AtrCache, NEW c \in Cards
  PROVE  /\ Copied(k, c) \in AtrCache
         /\ Copied(k, c).atr = c
         /\ Copied(k, c).params = DefaultParams
         /\ Copied(k, c).atrLength = k.atrLength
  <1>1. DefaultParams \in Params
    BY CardAssumption
  <1> QED BY <1>1 DEF AtrCache, Copied

LEMMA CopiedIs ==
  ASSUME NEW k \in AtrCache, NEW l \in AtrCache, NEW c \in Cards,
         l.atr = c, l.params = DefaultParams, l.atrLength = k.atrLength
  PROVE  l = Copied(k, c)
  <1>1. /\ Copied(k, c) \in AtrCache /\ Copied(k, c).atr = l.atr
        /\ Copied(k, c).params = l.params /\ Copied(k, c).atrLength = l.atrLength
    BY CopiedCache
  <1> QED BY <1>1, SameCache

(* a cache that no ATR was copied to in this iteration *)
LEMMA NotCopiedIs ==
  ASSUME ResetTypeOK, NEW k \in AtrCache,
         k.params = DefaultParams, k.atrLength = start.cache.atrLength,
         \/ k.atr = start.cache.atr
         \/ k.atr = Slot /\ Reachable(start.line, dev) /\ Slot \in TwoModeCards
  PROVE  k \in NotCopied(start.line, dev, start.cache)
  <1>1. start.cache \in AtrCache /\ DefaultParams \in Params \cup {None}
    BY CardAssumption DEF ResetTypeOK
  <1>2. CASE k.atr = start.cache.atr
    <2>1. k = [start.cache EXCEPT !.params = DefaultParams]
      <3> DEFINE l == [start.cache EXCEPT !.params = DefaultParams]
      <3>1. /\ l \in AtrCache /\ k.atr = l.atr /\ k.atrLength = l.atrLength
            /\ k.params = l.params
        BY <1>1, <1>2, CacheAt
      <3> HIDE DEF l
      <3>2. k = l
        BY <3>1, SameCache
      <3> QED BY <3>2 DEF l
    <2> QED BY <2>1 DEF NotCopied
  <1>3. CASE k.atr = Slot /\ Reachable(start.line, dev) /\ Slot \in TwoModeCards
    <2>1. k = Copied(start.cache, Slot)
      BY <1>1, <1>3, CopiedIs, CardAssumption
    <2> QED BY <1>3, <2>1 DEF NotCopied, Slot
  <1> QED BY <1>2, <1>3

Promised == transport_reset(start.line, dev, start.cache)

LEMMA AllowsNoPins ==
  ASSUME ~start.line.lib
  PROVE  Outcome(FALSE, start.cache, start.line.port, start.line.rst, start.line.clock,
                 start.line.mode) \in Promised
  BY DEF Promised, transport_reset, NoPins

LEMMA AllowsNoSerial ==
  ASSUME start.line.lib, NEW k \in NotCopied(start.line, dev, start.cache),
         NEW p \in {start.line.port, DefaultParams},
         NEW c \in {start.line.clock, DefaultParams}
  PROVE  Outcome(FALSE, k, p, "low", c, None) \in Promised
  <1> DEFINE x == <<k, p, c>>
  <1>1. x \in NotCopied(start.line, dev, start.cache) \X {start.line.port, DefaultParams}
             \X {start.line.clock, DefaultParams}
    OBVIOUS
  <1>2. Outcome(FALSE, x[1], x[2], "low", x[3], None) \in NoSerial(start.line, dev, start.cache)
    <2> HIDE DEF x
    <2> QED BY <1>1 DEF NoSerial
  <1>3. Outcome(FALSE, k, p, "low", c, None) \in NoSerial(start.line, dev, start.cache)
    BY <1>2
  <1> QED BY <1>3 DEF Promised, transport_reset

LEMMA AllowsNoAtr ==
  ASSUME start.line.lib, NEW k \in NotCopied(start.line, dev, start.cache)
  PROVE  Outcome(FALSE, k, DefaultParams, "high", DefaultParams, AfterReset(start.line))
           \in Promised
  <1>1. Outcome(FALSE, k, DefaultParams, "high", DefaultParams, AfterReset(start.line))
          \in NoAtr(start.line, dev, start.cache)
    BY DEF NoAtr
  <1> QED BY <1>1 DEF Promised, transport_reset

LEMMA AllowsNoAgreement ==
  ASSUME start.line.lib, Reachable(start.line, dev), NEW m \in Params
  PROVE  Outcome(FALSE, Copied(start.cache, Slot), DefaultParams, "high", DefaultParams, m)
           \in Promised
  <1>1. Outcome(FALSE, Copied(start.cache, Slot), DefaultParams, "high", DefaultParams, m)
          \in NoAgreement(start.line, start.cache)
    BY DEF NoAgreement, Slot
  <1> QED BY <1>1 DEF Promised, transport_reset

LEMMA AllowsNoSwitch ==
  ASSUME start.line.lib, Reachable(start.line, dev), NEW q \in CardParams[Slot],
         NEW p \in {q, DefaultParams}
  PROVE  Outcome(FALSE, [Copied(start.cache, Slot) EXCEPT !.params = q], p, "high",
                 DefaultParams, q) \in Promised
  <1> DEFINE ending(x, y) == Outcome(FALSE, [Copied(start.cache, Slot) EXCEPT !.params = x], y,
                                     "high", DefaultParams, x)
             endings(x) == {ending(x, y) : y \in {x, DefaultParams}}
  <1>0. ending(q, p) \in UNION {endings(x) : x \in CardParams[Slot]}
    <2>1. ending(q, p) \in endings(q)
      OBVIOUS
    <2> HIDE DEF ending, endings
    <2> QED BY <2>1
  <1>1. Outcome(FALSE, [Copied(start.cache, Slot) EXCEPT !.params = q], p, "high",
                DefaultParams, q) \in NoSwitch(start.line, start.cache)
    BY <1>0 DEF NoSwitch, Slot
  <1> QED BY <1>1 DEF Promised, transport_reset

LEMMA AllowsNegotiated ==
  ASSUME start.line.lib, Reachable(start.line, dev), NEW q \in CardParams[Slot]
  PROVE  Outcome(TRUE, [atr |-> Slot, atrLength |-> AtrLen[Slot], params |-> q], q, "high", q, q)
           \in Promised
  <1>1. Outcome(TRUE, [atr |-> Slot, atrLength |-> AtrLen[Slot], params |-> q], q, "high", q, q)
          \in Negotiated(start.line)
    BY DEF Negotiated, Slot
  <1> QED BY <1>1 DEF Promised, transport_reset
-----------------------------------------------------------------------------
(* Each step keeps the invariant. *)

LEMMA Ending ==
  ASSUME RInv, stage' = "done", UNCHANGED <<iteration, dev, start>>, ResetTypeOK',
         slotLine'.lib = slotLine.lib, slotLine'.card = slotLine.card,
         Outcome(ok', cache', slotLine'.port, slotLine'.rst, slotLine'.clock, slotLine'.mode)
           \in Promised
  PROVE  RInv'
  <1>1. SameSlot'
    BY DEF RInv, SameSlot, Slot
  <1>2. EndsAsPromised'
    BY DEF EndsAsPromised, Left, Promised
  <1> QED BY <1>1, <1>2 DEF RInv, NotYetDefault, AtRst, AtDefault, AtCache, AtAgreed

LEMMA RstDownStep == RInv /\ RstDown => RInv'
  <1> SUFFICES ASSUME RInv, RstDown PROVE RInv'
    OBVIOUS
  <1> USE DEF RstDown
  <1>0. slotLine \in Line /\ stage = "rst_down" /\ ResetTypeOK
    BY DEF RInv, ResetTypeOK
  <1>1. CASE slotLine.lib
    <2>1. /\ slotLine' = [slotLine EXCEPT !.rst = "low", !.mode = None]
          /\ stage' = "default_serial" /\ UNCHANGED <<iteration, dev, start, ok, cache, info, fd>>
      BY <1>1 DEF Goes
    <2>2. /\ slotLine' \in Line /\ slotLine'.rst = "low" /\ slotLine'.mode = None
          /\ slotLine'.lib = slotLine.lib /\ slotLine'.card = slotLine.card
          /\ slotLine'.port = slotLine.port /\ slotLine'.clock = slotLine.clock
      BY <1>0, <2>1 DEF Line, RstLevels
    <2>3. ResetTypeOK'
      BY <1>0, <2>1, <2>2 DEF ResetTypeOK, Steps
    <2>4. SameSlot'
      BY <1>1, <2>1, <2>2 DEF RInv, SameSlot, Slot
    <2>5. NotYetDefault'
      BY <1>0, <2>1, <2>2 DEF RInv, NotYetDefault
    <2>6. AtRst' /\ AtDefault' /\ AtAgreed'
      BY <2>1, <2>2 DEF AtRst, AtDefault, AtAgreed
    <2>7. AtCache'
      BY <1>0, <2>1 DEF RInv, AtCache, Slot
    <2> QED BY <2>1, <2>3, <2>4, <2>5, <2>6, <2>7 DEF RInv, EndsAsPromised
  <1>2. CASE ~slotLine.lib
    <2>1. stage' = "done" /\ ok' = FALSE /\ UNCHANGED <<slotLine, cache, iteration, dev, start, info, fd>>
      BY <1>2 DEF GivesUp
    <2>2. slotLine = start.line /\ cache = start.cache /\ ~start.line.lib
      BY <1>0, <1>2 DEF RInv, SameSlot, ResetTypeOK, NotYetDefault, AtRst
    <2>3. ResetTypeOK'
      BY <1>0, <2>1 DEF ResetTypeOK, Steps
    <2> QED BY <2>1, <2>2, <2>3, AllowsNoPins, Ending
  <1> QED BY <1>1, <1>2
(* setting the port, as both transport_reinitialize do *)
LEMMA Serial ==
  ASSUME ResetTypeOK, NEW p \in Params, NEW next \in Steps, SetsSerial(p, next)
  PROVE  /\ ResetTypeOK' /\ UNCHANGED <<info, fd, iteration, dev, start>>
         /\ cache'.params = p /\ cache'.atr = cache.atr /\ cache'.atrLength = cache.atrLength
         /\ slotLine'.lib = slotLine.lib /\ slotLine'.card = slotLine.card
         /\ slotLine'.rst = slotLine.rst /\ slotLine'.clock = slotLine.clock
         /\ slotLine'.mode = slotLine.mode
         /\ \/ stage' = next /\ slotLine'.port = p /\ ok' = ok
            \/ stage' = "done" /\ slotLine'.port \in {slotLine.port, p} /\ ok' = FALSE
  <1> DEFINE l == [slotLine EXCEPT !.port = p]
  <1>1. /\ UNCHANGED <<info, fd, iteration, dev, start>>
        /\ cache' = [cache EXCEPT !.params = p]
        /\ \/ slotLine' = l /\ stage' = next /\ ok' = ok
           \/ slotLine' \in {slotLine, l} /\ stage' = "done" /\ ok' = FALSE
    BY DEF SetsSerial, Goes, GivesUp
  <1>2. slotLine \in Line /\ cache \in AtrCache /\ p \in Params \cup {None}
    BY DEF ResetTypeOK
  <1>3. /\ cache' \in AtrCache /\ cache'.params = p /\ cache'.atr = cache.atr
        /\ cache'.atrLength = cache.atrLength
    BY <1>1, <1>2, CacheAt
  <1>4. /\ l \in Line /\ l.lib = slotLine.lib /\ l.card = slotLine.card /\ l.rst = slotLine.rst
        /\ l.clock = slotLine.clock /\ l.mode = slotLine.mode /\ l.port = p
    BY <1>2 DEF Line
  <1> HIDE DEF l
  <1>5. ResetTypeOK'
    BY <1>1, <1>3, <1>4 DEF ResetTypeOK, Steps
  <1> QED BY <1>1, <1>3, <1>4, <1>5

LEMMA DefaultSerialStep == RInv /\ DefaultSerial => RInv'
  <1> SUFFICES ASSUME RInv, DefaultSerial PROVE RInv'
    OBVIOUS
  <1>0. /\ stage = "default_serial" /\ SetsSerial(DefaultParams, "default_clock") /\ ResetTypeOK
        /\ DefaultParams \in Params /\ "default_clock" \in Steps
    BY CardAssumption DEF DefaultSerial, RInv, Steps
  <1>1. /\ ResetTypeOK' /\ UNCHANGED <<info, fd, iteration, dev, start>>
        /\ cache'.params = DefaultParams /\ cache'.atr = cache.atr
        /\ cache'.atrLength = cache.atrLength
        /\ slotLine'.lib = slotLine.lib /\ slotLine'.card = slotLine.card
        /\ slotLine'.rst = slotLine.rst /\ slotLine'.clock = slotLine.clock
        /\ slotLine'.mode = slotLine.mode
        /\ \/ stage' = "default_clock" /\ slotLine'.port = DefaultParams /\ ok' = ok
           \/ stage' = "done" /\ slotLine'.port \in {slotLine.port, DefaultParams} /\ ok' = FALSE
    BY <1>0, Serial
  <1>2. /\ slotLine.rst = "low" /\ slotLine.mode = None
        /\ slotLine.port \in {start.line.port, DefaultParams}
        /\ slotLine.clock \in {start.line.clock, DefaultParams}
        /\ cache.atrLength = start.cache.atrLength /\ start.line.lib /\ ok = FALSE
        /\ \/ cache.atr = start.cache.atr
           \/ cache.atr = Slot /\ Reachable(start.line, dev) /\ Slot \in TwoModeCards
    BY <1>0 DEF RInv, ResetTypeOK, SameSlot, NotYetDefault, AtRst, AtCache
  <1>3. CASE stage' = "default_clock"
    <2>1. SameSlot' /\ NotYetDefault' /\ AtRst' /\ AtDefault' /\ AtAgreed' /\ EndsAsPromised'
      BY <1>0, <1>1, <1>2, <1>3
      DEF RInv, SameSlot, NotYetDefault, AtRst, AtDefault, AtAgreed, EndsAsPromised, Slot
    <2>2. AtCache'
      BY <1>0, <1>1, <1>2, <1>3 DEF RInv, AtCache, Slot
    <2> QED BY <1>1, <2>1, <2>2 DEF RInv
  <1>4. CASE stage' = "done"
    <2>1. cache' \in NotCopied(start.line, dev, start.cache)
      <3>1. cache' \in AtrCache
        BY <1>1 DEF ResetTypeOK
      <3> QED BY <1>0, <1>1, <1>2, <3>1, NotCopiedIs
    <2>2. Outcome(FALSE, cache', slotLine'.port, "low", slotLine'.clock, None) \in Promised
      BY <1>1, <1>2, <1>4, <2>1, AllowsNoSerial
    <2> QED BY <1>0, <1>1, <1>2, <1>4, <2>2, Ending
  <1> QED BY <1>1, <1>3, <1>4

LEMMA DefaultClockStep == RInv /\ DefaultClock => RInv'
  <1> SUFFICES ASSUME RInv, DefaultClock PROVE RInv'
    OBVIOUS
  <1>1. /\ stage = "default_clock" /\ slotLine' = [slotLine EXCEPT !.clock = DefaultParams]
        /\ stage' = "rst_up" /\ UNCHANGED <<iteration, dev, start, ok, cache, info, fd>>
    BY DEF DefaultClock, SetsClock, Goes
  <1>2. slotLine \in Line /\ DefaultParams \in Params /\ ResetTypeOK
    BY CardAssumption DEF RInv, ResetTypeOK
  <1>3. /\ slotLine' \in Line /\ slotLine'.clock = DefaultParams
        /\ slotLine'.lib = slotLine.lib /\ slotLine'.card = slotLine.card
        /\ slotLine'.rst = slotLine.rst /\ slotLine'.port = slotLine.port
        /\ slotLine'.mode = slotLine.mode
    BY <1>1, <1>2 DEF Line
  <1>4. ResetTypeOK'
    BY <1>1, <1>2, <1>3 DEF ResetTypeOK, Steps
  <1>5. SameSlot' /\ NotYetDefault' /\ AtRst' /\ AtDefault' /\ AtAgreed' /\ EndsAsPromised'
    BY <1>1, <1>3
    DEF RInv, SameSlot, NotYetDefault, AtRst, AtDefault, AtAgreed, EndsAsPromised, Slot
  <1>6. AtCache'
    BY <1>1 DEF RInv, AtCache, Slot
  <1> QED BY <1>4, <1>5, <1>6 DEF RInv

LEMMA RstUpStep == RInv /\ RstUp => RInv'
  <1> SUFFICES ASSUME RInv, RstUp PROVE RInv'
    OBVIOUS
  <1>1. /\ stage = "rst_up"
        /\ slotLine' = [slotLine EXCEPT !.rst = "high", !.mode = AfterReset(slotLine)]
        /\ stage' = "read_atr" /\ UNCHANGED <<iteration, dev, start, ok, cache, info, fd>>
    BY DEF RstUp, Goes
  <1>2. /\ slotLine \in Line /\ AfterReset(slotLine) \in Params \cup {None} /\ ResetTypeOK
        /\ AfterReset(slotLine) = AfterReset(start.line)
    BY CardAssumption DEF RInv, ResetTypeOK, SameSlot, Slot, AfterReset
  <1>3. /\ slotLine' \in Line /\ slotLine'.clock = slotLine.clock
        /\ slotLine'.lib = slotLine.lib /\ slotLine'.card = slotLine.card
        /\ slotLine'.rst = "high" /\ slotLine'.port = slotLine.port
        /\ slotLine'.mode = AfterReset(start.line)
    BY <1>1, <1>2 DEF Line, RstLevels
  <1>4. ResetTypeOK'
    BY <1>1, <1>2, <1>3 DEF ResetTypeOK, Steps
  <1>5. SameSlot' /\ NotYetDefault' /\ AtRst' /\ AtAgreed' /\ EndsAsPromised'
    BY <1>1, <1>3 DEF RInv, SameSlot, NotYetDefault, AtRst, AtAgreed, EndsAsPromised, Slot
  <1>6. AtDefault'
    BY <1>1, <1>3 DEF RInv, AtDefault
  <1>7. AtCache'
    BY <1>1 DEF RInv, AtCache, Slot
  <1> QED BY <1>4, <1>5, <1>6, <1>7 DEF RInv

LEMMA ReadAtrStep == RInv /\ ReadAtr => RInv'
  <1> SUFFICES ASSUME RInv, ReadAtr PROVE RInv'
    OBVIOUS
  <1>1. /\ stage = "read_atr" /\ Reachable(slotLine, dev) /\ info' \in CardAnswers[slotLine.card]
        /\ cache' = [cache EXCEPT !.atr = slotLine.card]
        /\ stage' = "protocol" /\ UNCHANGED <<iteration, dev, start, ok, slotLine, fd>>
    BY DEF ReadAtr, Goes
  <1>2. /\ slotLine \in Line /\ cache \in AtrCache /\ ResetTypeOK /\ slotLine.card = Slot
        /\ Slot # None
    BY <1>1 DEF RInv, ResetTypeOK, SameSlot, Reachable
  <1>3. Slot \in Cards
    BY <1>2 DEF Line
  <1>4. /\ cache' \in AtrCache /\ cache'.atr = Slot /\ cache'.params = cache.params
        /\ cache'.atrLength = cache.atrLength
    BY <1>1, <1>2, <1>3, CacheOf
  <1>5. info' \in AtrInfo
    BY <1>1, <1>2, <1>3, ProcedureAssumption
  <1>6. ResetTypeOK'
    BY <1>1, <1>2, <1>4, <1>5 DEF ResetTypeOK, Steps
  <1>7. SameSlot' /\ NotYetDefault' /\ AtRst' /\ AtAgreed' /\ EndsAsPromised'
    BY <1>1 DEF RInv, SameSlot, NotYetDefault, AtRst, AtAgreed, EndsAsPromised, Slot
  <1>8. AtDefault'
    BY <1>1, <1>2, <1>4 DEF RInv, AtDefault, AfterReset, Slot
  <1>9. AtCache'
    BY <1>1, <1>2, <1>4 DEF RInv, AtCache, Slot, Reachable
  <1> QED BY <1>6, <1>7, <1>8, <1>9 DEF RInv

LEMMA NoAnswerStep == RInv /\ NoAnswer => RInv'
  <1> SUFFICES ASSUME RInv, NoAnswer PROVE RInv'
    OBVIOUS
  <1>1. /\ stage = "read_atr" /\ stage' = "done" /\ ok' = FALSE
        /\ UNCHANGED <<slotLine, cache, info, fd, iteration, dev, start>>
    BY DEF NoAnswer, GivesUp
  <1>2. ResetTypeOK /\ ResetTypeOK'
    BY <1>1 DEF RInv, ResetTypeOK, Steps
  <1>3. cache \in NotCopied(start.line, dev, start.cache)
    <2>1. /\ cache \in AtrCache /\ cache.params = DefaultParams
          /\ cache.atrLength = start.cache.atrLength
          /\ \/ cache.atr = start.cache.atr
             \/ cache.atr = Slot /\ Reachable(start.line, dev) /\ Slot \in TwoModeCards
      BY <1>1 DEF RInv, ResetTypeOK, AtDefault, AtCache, SameSlot
    <2> QED BY <1>2, <2>1, NotCopiedIs
  <1>4. /\ slotLine.port = DefaultParams /\ slotLine.rst = "high" /\ slotLine.clock = DefaultParams
        /\ slotLine.mode = AfterReset(start.line) /\ start.line.lib
    BY <1>1 DEF RInv, SameSlot, AtRst, AtDefault
  <1>5. Outcome(FALSE, cache, slotLine.port, slotLine.rst, slotLine.clock, slotLine.mode)
          \in Promised
    BY <1>3, <1>4, AllowsNoAtr
  <1> QED BY <1>1, <1>2, <1>5, Ending
(* an ATR has been read, and nothing has been agreed on *)
LEMMA Answered ==
  ASSUME RInv, stage \in {"protocol", "choose", "pps"}
  PROVE  /\ ResetTypeOK /\ start.line.lib /\ Reachable(start.line, dev) /\ Slot \in Cards
         /\ slotLine.card = Slot
         /\ cache = Copied(start.cache, Slot) /\ slotLine.port = DefaultParams
         /\ slotLine.rst = "high" /\ slotLine.clock = DefaultParams
         /\ slotLine.mode = DefaultParams /\ ok = FALSE
  <1>1. /\ ResetTypeOK /\ start.line.lib /\ Reachable(start.line, dev)
        /\ slotLine.card = Slot
        /\ slotLine.port = DefaultParams /\ slotLine.clock = DefaultParams
        /\ slotLine.rst = "high" /\ slotLine.mode = DefaultParams /\ ok = FALSE
        /\ cache.params = DefaultParams /\ cache.atr = Slot
        /\ cache.atrLength = start.cache.atrLength
    BY DEF RInv, SameSlot, AtRst, AtDefault, AtCache
  <1>2. cache \in AtrCache /\ start.cache \in AtrCache /\ start.line \in Line
    BY <1>1 DEF ResetTypeOK
  <1>3. Slot \in Cards
    BY <1>1, <1>2 DEF Line, Reachable, Slot
  <1>4. cache = Copied(start.cache, Slot)
    BY <1>1, <1>2, <1>3, CopiedIs
  <1> QED BY <1>1, <1>3, <1>4

LEMMA Refusing ==
  ASSUME RInv, stage \in {"protocol", "choose", "pps"}, GivesUp, UNCHANGED <<slotLine, cache, info, fd>>
  PROVE  RInv'
  <1>1. stage' = "done" /\ ok' = FALSE /\ UNCHANGED <<slotLine, cache, info, fd, iteration, dev, start>>
    BY DEF GivesUp
  <1>2. ResetTypeOK'
    BY <1>1 DEF RInv, ResetTypeOK, Steps
  <1>3. DefaultParams \in Params
    BY CardAssumption
  <1>4. Outcome(FALSE, cache, slotLine.port, slotLine.rst, slotLine.clock, slotLine.mode)
          \in Promised
    BY <1>3, Answered, AllowsNoAgreement
  <1> QED BY <1>1, <1>2, <1>4, Ending

LEMMA Proceeding ==
  ASSUME RInv, stage \in {"protocol", "choose"}, stage' \in {"choose", "pps"},
         UNCHANGED <<iteration, dev, start, ok, slotLine, cache, info>>,
         fd' \in {"best", "default"}
  PROVE  RInv'
  <1>1. ResetTypeOK'
    BY DEF RInv, ResetTypeOK, Steps
  <1>2. SameSlot' /\ NotYetDefault' /\ AtRst' /\ AtDefault' /\ AtAgreed' /\ EndsAsPromised'
    BY DEF RInv, SameSlot, NotYetDefault, AtRst, AtDefault, AtAgreed, EndsAsPromised, Slot
  <1>3. AtCache'
    BY DEF RInv, AtCache, Slot
  <1> QED BY <1>1, <1>2, <1>3 DEF RInv

LEMMA TriesAgainStep == RInv /\ TriesAgain => RInv'
  <1> SUFFICES ASSUME RInv, TriesAgain PROVE RInv'
    OBVIOUS
  <1>1. stage = "protocol" /\ NeedsReset /\ UNCHANGED <<slotLine, cache, info, fd>>
    BY DEF TriesAgain
  <1>2. CASE FirstIteration
    <2>1. /\ iteration = 1 /\ iteration' = 2 /\ stage' = "rst_down"
          /\ UNCHANGED <<dev, start, ok, slotLine, cache, info, fd>>
      BY <1>1, <1>2 DEF TriesAgain, FirstIteration, NextIteration
    <2>2. Slot \in TwoModeCards
      <3>1. info \in CardAnswers[Slot] /\ info.ta2 = "other_changeable" /\ Slot \in Cards
        BY <1>1, Answered DEF RInv, AtCache, NeedsReset
      <3> QED BY <3>1, ProcedureAssumption
    <2>3. ResetTypeOK'
      BY <2>1 DEF RInv, ResetTypeOK, Steps
    <2>4. SameSlot' /\ AtAgreed' /\ AtDefault' /\ EndsAsPromised'
      BY <1>1, <2>1, <2>2, Answered
      DEF RInv, SameSlot, AtAgreed, AtDefault, EndsAsPromised, Slot
    <2>5. AtRst'
      BY <2>1 DEF AtRst
    <2>6. NotYetDefault' /\ AtCache'
      BY <1>1, <2>1 DEF RInv, NotYetDefault, AtCache, AtDefault, Slot
    <2> QED BY <2>3, <2>4, <2>5, <2>6 DEF RInv
  <1>3. CASE ~FirstIteration
    BY <1>1, <1>3, Refusing DEF TriesAgain
  <1> QED BY <1>2, <1>3

LEMMA ChoosesStep == RInv /\ (ChoosesProtocol \/ ChoosesFD) => RInv'
  <1> SUFFICES ASSUME RInv, ChoosesProtocol \/ ChoosesFD PROVE RInv'
    OBVIOUS
  <1>0. fd \in {"best", "default"} /\ info \in AtrInfo
    BY DEF RInv, ResetTypeOK
  <1>1. CASE ChoosesProtocol
    <2>1. CASE SpeaksT0
      BY <1>0, <1>1, <2>1, Proceeding DEF ChoosesProtocol, Goes
    <2>2. CASE ~SpeaksT0
      BY <1>1, <2>2, Refusing DEF ChoosesProtocol
    <2> QED BY <2>1, <2>2
  <1>2. CASE ChoosesFD
    <2>1. stage = "choose" /\ info.ta1 \in {"absent", "usable", "unusable"}
          /\ UNCHANGED <<slotLine, cache, info>>
      BY <1>0, <1>2 DEF ChoosesFD, AtrInfo
    <2>2. CASE info.ta1 = "absent"
      BY <1>2, <2>1, <2>2, Proceeding DEF ChoosesFD, Goes
    <2>3. CASE info.ta1 = "usable"
      BY <1>2, <2>1, <2>3, Proceeding DEF ChoosesFD, Goes
    <2>4. CASE info.ta1 = "unusable"
      BY <1>2, <2>1, <2>4, Refusing DEF ChoosesFD
    <2> QED BY <2>1, <2>2, <2>3, <2>4
  <1> QED BY <1>1, <1>2
(* the card goes over to a rate, or stays: port, clock and RST do not change *)
LEMMA ModeSet ==
  ASSUME NEW l \in Line, NEW m \in Params, slotLine' = [l EXCEPT !.mode = m]
  PROVE  /\ slotLine' \in Line /\ slotLine'.mode = m
         /\ slotLine'.lib = l.lib /\ slotLine'.card = l.card /\ slotLine'.port = l.port
         /\ slotLine'.rst = l.rst /\ slotLine'.clock = l.clock
  BY DEF Line

LEMMA GivingUpPps ==
  ASSUME RInv, stage = "pps", GivesUp, NEW m \in Params,
         slotLine' = [slotLine EXCEPT !.mode = m], UNCHANGED <<cache, info>>,
         fd' \in {"best", "default"}
  PROVE  RInv'
  <1>1. stage' = "done" /\ ok' = FALSE /\ UNCHANGED <<cache, info, iteration, dev, start>>
    BY DEF GivesUp
  <1>2. /\ slotLine' \in Line /\ slotLine'.mode = m
        /\ slotLine'.lib = slotLine.lib /\ slotLine'.card = slotLine.card
        /\ slotLine'.port = slotLine.port
        /\ slotLine'.rst = slotLine.rst /\ slotLine'.clock = slotLine.clock
    BY ModeSet DEF RInv, ResetTypeOK
  <1>3. ResetTypeOK'
    BY <1>1, <1>2 DEF RInv, ResetTypeOK, Steps
  <1>4. Outcome(FALSE, cache, slotLine'.port, slotLine'.rst, slotLine'.clock, m) \in Promised
    BY <1>2, Answered, AllowsNoAgreement
  <1> QED BY <1>1, <1>2, <1>3, <1>4, Ending

LEMMA ProposedIsOfCard ==
  ASSUME NEW c \in Cards, NEW choice, Proposed(c, choice) # None
  PROVE  Proposed(c, choice) \in CardParams[c] /\ Proposed(c, choice) \in Params
  BY ProcedureAssumption DEF Proposed

LEMMA PpsStep == RInv /\ (PpsAnswered \/ PpsFails) => RInv'
  <1> SUFFICES ASSUME RInv, PpsAnswered \/ PpsFails PROVE RInv'
    OBVIOUS
  <1>0. stage = "pps" /\ slotLine.card = Slot /\ Slot \in Cards /\ fd \in {"best", "default"}
    BY Answered DEF RInv, ResetTypeOK, PpsAnswered, PpsFails
  <1>1. CASE PpsFails
    <2>1. PICK m \in Params : slotLine' = [slotLine EXCEPT !.mode = m]
      BY <1>1 DEF PpsFails
    <2> QED BY <1>0, <1>1, <2>1, GivingUpPps DEF PpsFails
  <1>2. CASE PpsAnswered
    <2>1. PICK agreed \in BOOLEAN :
            /\ \E m \in CardAt(Proposed(slotLine.card, IF agreed THEN fd ELSE "default")) :
                 slotLine' = [slotLine EXCEPT !.mode = m]
            /\ fd' = ChoiceAfterPps(agreed)
            /\ IF Proposed(slotLine.card, fd') # None THEN Goes("switch_serial") ELSE GivesUp
      BY <1>2 DEF PpsAnswered
    <2>2. fd' = (IF agreed THEN fd ELSE "default") /\ fd' \in {"best", "default"}
          /\ UNCHANGED <<cache, info>>
      BY <1>0, <1>2, <2>1 DEF ChoiceAfterPps, PpsAnswered
    <2> DEFINE q == Proposed(Slot, fd')
    <2>3. PICK m \in CardAt(q) : slotLine' = [slotLine EXCEPT !.mode = m]
      BY <1>0, <2>1, <2>2
    <2>4. CASE q = None
      <3>1. m \in Params /\ GivesUp
        BY <1>0, <2>1, <2>3, <2>4 DEF CardAt
      <3> QED BY <1>0, <2>2, <2>3, <3>1, GivingUpPps
    <2>5. CASE q # None
      <3>1. m = q /\ q \in Params
        BY <1>0, <2>3, <2>5, ProposedIsOfCard DEF CardAt
      <3>2. stage' = "switch_serial" /\ UNCHANGED <<iteration, dev, start, ok, cache, info>>
        BY <1>0, <2>1, <2>2, <2>5 DEF Goes
      <3>3. /\ slotLine' \in Line /\ slotLine'.mode = Proposed(Slot, fd')
            /\ slotLine'.lib = slotLine.lib /\ slotLine'.card = slotLine.card
            /\ slotLine'.port = slotLine.port
            /\ slotLine'.rst = slotLine.rst /\ slotLine'.clock = slotLine.clock
        BY <2>3, <3>1, ModeSet DEF RInv, ResetTypeOK
      <3>4. ResetTypeOK'
        BY <2>2, <3>2, <3>3 DEF RInv, ResetTypeOK, Steps
      <3>5. SameSlot' /\ NotYetDefault' /\ AtRst' /\ AtDefault' /\ EndsAsPromised'
        BY <1>0, <3>2, <3>3
        DEF RInv, SameSlot, NotYetDefault, AtRst, AtDefault, EndsAsPromised, Slot
      <3>6. AtCache'
        BY <1>0, <3>2 DEF RInv, AtCache, Slot
      <3>7. AtAgreed'
        <4>1. Slot' = Slot
          BY <3>2 DEF Slot
        <4> HIDE DEF q
        <4>2. q = Proposed(Slot, fd')
          BY DEF q
        <4> QED BY <2>5, <3>2, <3>3, <4>1, <4>2 DEF AtAgreed, Proposed
      <3> QED BY <3>4, <3>5, <3>6, <3>7 DEF RInv
    <2> QED BY <2>4, <2>5
  <1> QED BY <1>1, <1>2

(* The F and D are agreed on. *)
LEMMA Agreed ==
  ASSUME RInv, stage \in {"switch_serial", "switch_clock"}
  PROVE  /\ ResetTypeOK /\ start.line.lib /\ Reachable(start.line, dev) /\ Slot \in Cards
         /\ slotLine.card = Slot /\ slotLine.mode = Proposed(Slot, fd)
         /\ Proposed(Slot, fd) \in CardParams[Slot] /\ Proposed(Slot, fd) \in Params
         /\ cache.atr = Slot /\ cache.atrLength = start.cache.atrLength
         /\ slotLine.rst = "high" /\ slotLine.clock = DefaultParams /\ ok = FALSE
  <1>1. /\ ResetTypeOK /\ start.line.lib /\ Reachable(start.line, dev) /\ start.line \in Line
        /\ slotLine.card = Slot /\ slotLine.mode = Proposed(Slot, fd)
        /\ Proposed(Slot, fd) # None
        /\ cache.atr = Slot /\ cache.atrLength = start.cache.atrLength
        /\ slotLine.rst = "high" /\ slotLine.clock = DefaultParams /\ ok = FALSE
    BY DEF RInv, ResetTypeOK, SameSlot, AtRst, AtDefault, AtCache, AtAgreed
  <1>2. Slot \in Cards
    BY <1>1 DEF Line, Reachable, Slot
  <1> QED BY <1>1, <1>2, ProposedIsOfCard

LEMMA SwitchSerialStep == RInv /\ SwitchSerial => RInv'
  <1> SUFFICES ASSUME RInv, SwitchSerial PROVE RInv'
    OBVIOUS
  <1> DEFINE q == Proposed(Slot, fd)
  <1>0. /\ stage = "switch_serial" /\ SetsSerial(q, "switch_clock") /\ "switch_clock" \in Steps
        /\ q \in Params /\ ResetTypeOK
    BY Agreed DEF SwitchSerial, Steps
  <1>1. /\ ResetTypeOK' /\ UNCHANGED <<info, fd, iteration, dev, start>>
        /\ cache'.params = q /\ cache'.atr = cache.atr /\ cache'.atrLength = cache.atrLength
        /\ slotLine'.lib = slotLine.lib /\ slotLine'.card = slotLine.card
        /\ slotLine'.rst = slotLine.rst /\ slotLine'.clock = slotLine.clock
        /\ slotLine'.mode = slotLine.mode
        /\ \/ stage' = "switch_clock" /\ slotLine'.port = q /\ ok' = ok
           \/ stage' = "done" /\ slotLine'.port \in {slotLine.port, q} /\ ok' = FALSE
    BY <1>0, Serial
  <1>2. Slot' = Slot /\ Proposed(Slot, fd)' = q
    BY <1>1 DEF Slot, Proposed
  <1>3. CASE stage' = "switch_clock"
    <2>1. SameSlot' /\ NotYetDefault' /\ AtRst' /\ AtDefault' /\ EndsAsPromised'
      BY <1>0, <1>1, <1>3
      DEF RInv, SameSlot, NotYetDefault, AtRst, AtDefault, EndsAsPromised, Slot
    <2>2. AtCache'
      BY <1>0, <1>1, <1>3 DEF RInv, AtCache, Slot
    <2>3. AtAgreed'
      BY <1>0, <1>1, <1>2, <1>3, Agreed, CardAssumption DEF AtAgreed
    <2> QED BY <1>1, <2>1, <2>2, <2>3 DEF RInv
  <1>4. CASE stage' = "done"
    <2>1. slotLine.port = DefaultParams
      BY <1>0 DEF RInv, AtDefault
    <2>2. cache' = [Copied(start.cache, Slot) EXCEPT !.params = q]
      <3> DEFINE k == Copied(start.cache, Slot)
      <3>1. start.cache \in AtrCache /\ cache' \in AtrCache /\ Slot \in Cards
        BY <1>0, <1>1, Agreed DEF ResetTypeOK
      <3>2. k \in AtrCache /\ k.atr = Slot /\ k.atrLength = start.cache.atrLength
        BY <3>1, CopiedCache
      <3> HIDE DEF k
      <3> DEFINE j == [k EXCEPT !.params = q]
      <3>3. j \in AtrCache /\ j.params = q /\ j.atr = Slot /\ j.atrLength = start.cache.atrLength
        BY <1>0, <3>2, CacheAt
      <3> HIDE DEF j
      <3>4. cache' = j
        BY <1>0, <1>1, <3>1, <3>3, Agreed, SameCache
      <3> QED BY <3>4 DEF j, k
    <2>3. Outcome(FALSE, cache', slotLine'.port, "high", DefaultParams, q) \in Promised
      <3>1. /\ start.line.lib /\ Reachable(start.line, dev) /\ q \in CardParams[Slot]
            /\ slotLine'.port \in {q, DefaultParams}
        BY <1>0, <1>1, <1>4, <2>1, Agreed
      <3> QED BY <2>2, <3>1, AllowsNoSwitch
    <2>4. slotLine'.rst = "high" /\ slotLine'.clock = DefaultParams /\ slotLine'.mode = q
      BY <1>0, <1>1, Agreed
    <2> QED BY <1>1, <1>4, <2>3, <2>4, Ending
  <1> QED BY <1>1, <1>3, <1>4

LEMMA SwitchClockStep == RInv /\ SwitchClock => RInv'
  <1> SUFFICES ASSUME RInv, SwitchClock PROVE RInv'
    OBVIOUS
  <1> DEFINE q == Proposed(Slot, fd)
  <1>1. /\ stage = "switch_clock" /\ stage' = "done" /\ ok' = TRUE
        /\ slotLine' = [slotLine EXCEPT !.clock = cache.params]
        /\ cache' = [cache EXCEPT !.atrLength = AtrLen[slotLine.card]]
        /\ UNCHANGED <<iteration, dev, start, info, fd>>
    BY DEF SwitchClock, SetsClock
  <1>2. /\ slotLine \in Line /\ cache \in AtrCache /\ ResetTypeOK
        /\ cache.params = q /\ slotLine.port = q /\ q \in Params /\ slotLine.mode = q
        /\ slotLine.card = Slot /\ Slot \in Cards /\ slotLine.rst = "high" /\ cache.atr = Slot
    BY <1>1, Agreed DEF RInv, AtAgreed, ResetTypeOK
  <1>3. AtrLen[Slot] \in 0..PCSC_MAX_ATR_SIZE
    <2>1. AtrLen[Slot] \in 2..PCSC_MAX_ATR_SIZE
      BY <1>2, CardAssumption
    <2> QED BY <2>1 DEF PCSC_MAX_ATR_SIZE
  <1> HIDE DEF q
  <1>4. /\ slotLine' \in Line /\ slotLine'.clock = q /\ slotLine'.port = q /\ slotLine'.mode = q
        /\ slotLine'.rst = "high" /\ slotLine'.lib = slotLine.lib
        /\ slotLine'.card = slotLine.card
    BY <1>1, <1>2 DEF Line
  <1>5. /\ cache' \in AtrCache
        /\ cache' = [atr |-> Slot, atrLength |-> AtrLen[Slot], params |-> q]
    BY <1>1, <1>2, <1>3 DEF AtrCache
  <1>6. ResetTypeOK'
    BY <1>1, <1>2, <1>4, <1>5 DEF ResetTypeOK, Steps
  <1>7. Outcome(TRUE, cache', q, "high", q, q) \in Promised
    BY <1>1, <1>5, Agreed, AllowsNegotiated DEF q
  <1> QED BY <1>1, <1>4, <1>6, <1>7, Ending

LEMMA ResetStep == RInv /\ [ResetNext]_resetVars => RInv'
  <1> SUFFICES ASSUME RInv, [ResetNext]_resetVars PROVE RInv'
    OBVIOUS
  <1>1. CASE ResetNext
    BY <1>1, RstDownStep, DefaultSerialStep, DefaultClockStep, RstUpStep, ReadAtrStep,
       NoAnswerStep, TriesAgainStep, ChoosesStep, PpsStep, SwitchSerialStep, SwitchClockStep
    DEF ResetNext
  <1>2. CASE UNCHANGED resetVars
    BY <1>2 DEF resetVars, RInv, ResetTypeOK, SameSlot, NotYetDefault, AtRst, AtDefault, AtCache,
                AtAgreed, EndsAsPromised, Left, Slot
  <1> QED BY <1>1, <1>2

LEMMA ResetBegins == ResetInit => RInv
  <1> SUFFICES ASSUME ResetInit PROVE RInv
    OBVIOUS
  <1>1. ResetTypeOK
    <2>1. NoInfo \in AtrInfo
      BY DEF NoInfo, AtrInfo
    <2>2. slotLine \in Line
      BY DEF ResetInit
    <2>3. start \in [line : Line, cache : AtrCache]
      BY <2>2 DEF ResetInit
    <2>4. stage \in Steps /\ fd \in {"best", "default"} /\ ok \in BOOLEAN
      BY Zenon DEF ResetInit, Steps
    <2>6. iteration = 1
      BY Zenon DEF ResetInit
    <2>7. iteration \in 1..2
      BY <2>6
    <2>5. dev \in Devices /\ cache \in AtrCache /\ info \in AtrInfo
      BY <2>1 DEF ResetInit
    <2> QED BY <2>2, <2>3, <2>4, <2>5, <2>7 DEF ResetTypeOK
  <1>2. SameSlot /\ NotYetDefault /\ AtRst /\ AtDefault /\ AtCache /\ AtAgreed /\ EndsAsPromised
    BY DEF ResetInit, SameSlot, NotYetDefault, AtRst, AtDefault, AtCache, AtAgreed,
           EndsAsPromised, Slot
  <1> QED BY <1>1, <1>2 DEF RInv

(* Wherever transport_reset gives up or succeeds, in its first iteration   *)
(* or in its second, for any card, parameters, line and cache: what it     *)
(* leaves is one of the outcomes that ReaderSession reckons with, and      *)
(* until then it speaks to the card at the rate the card is set to.        *)
THEOREM ResetKeepsContract == ResetSpec => []ResetKept
  <1>1. RInv => ResetKept
    <2> SUFFICES ASSUME RInv PROVE ResetKept
      OBVIOUS
    <2>1. SpeaksAtCardsRate
      BY DEF RInv, SameSlot, AtDefault, AfterReset, SpeaksAtCardsRate, Slot
    <2> QED BY <2>1 DEF RInv, ResetKept
  <1> QED BY ResetBegins, ResetStep, <1>1, PTL DEF ResetSpec
=============================================================================
