----------------------------- MODULE AtrReader -----------------------------
(***************************************************************************)
(* read_atr and parse_atr (iso7816_3/atr.c): the answer to reset, byte by  *)
(* byte, from a card that sends one of Answers.                            *)
(*                                                                         *)
(* T0 and every TD announce in their upper half which interface bytes come *)
(* next; the reader follows that chain, files the offset of every          *)
(* interface byte under its kind and level, and must find the end of the   *)
(* answer by itself: one byte too few and it is taken for the echo of the  *)
(* PPS request, one too many and the card has to time out.                 *)
(*                                                                         *)
(* A byte carries its place in the answer (kind and level), which the code *)
(* does not see, and its two halves where the code looks at them.          *)
(***************************************************************************)
EXTENDS Integers, SequencesExt

CONSTANTS
  MAX_ATR_SIZE,  \* 33 in PCSC's headers
  Answers        \* the answers to reset that cards send

InterfaceKinds == {"TA", "TB", "TC", "TD"}
Kinds == InterfaceKinds \cup {"TS", "T0", "HB", "TCK"}

Byte == [kind : Kinds, level : Nat, next : SUBSET InterfaceKinds, low : 0..15]

(***************************************************************************)
(* An answer as ISO/IEC 7816-3 lays it out: groups of interface bytes, of  *)
(* which all but the last end in a TD with a protocol, and k historical    *)
(* bytes.  "ts" is 0 for the direct convention; "tck" says whether the     *)
(* card sends a check byte and whether it is right; "sent" is the number   *)
(* of bytes after which the card stops.                                    *)
(***************************************************************************)
Answer ==
  [groups : Seq(SUBSET {"TA", "TB", "TC"}) \ {<<>>}, protocols : Seq(0..15),
   k : 0..15, ts : {0, 1}, tck : {"right", "wrong", "none"}, sent : Nat]

Announced(a, i) == a.groups[i] \cup (IF i < Len(a.groups) THEN {"TD"} ELSE {})

InterfaceByte(a, i, kind) ==
  [kind |-> kind, level |-> i - 1,
   next |-> IF kind = "TD" THEN Announced(a, i + 1) ELSE {},
   low  |-> IF kind = "TD" THEN a.protocols[i] ELSE 0]

PlainByte(kind, next, low) == [kind |-> kind, level |-> 0, next |-> next, low |-> low]

Group(a, i) ==
  LET kinds == SelectSeq(<<"TA", "TB", "TC", "TD">>, LAMBDA x : x \in Announced(a, i))
  IN [j \in 1..Len(kinds) |-> InterfaceByte(a, i, kinds[j])]

TckNeeded(a) == \E i \in 1..Len(a.protocols) : a.protocols[i] # 0

Body(a) ==
  <<PlainByte("TS", {}, a.ts), PlainByte("T0", Announced(a, 1), a.k)>> \o
  FlattenSeq([i \in 1..Len(a.groups) |-> Group(a, i)]) \o
  [j \in 1..a.k |-> PlainByte("HB", {}, 0)]

Tck(a) == IF a.tck = "none" THEN <<>>
          ELSE <<PlainByte("TCK", {}, IF a.tck = "right" THEN 0 ELSE 1)>>

Whole(a) == Body(a) \o Tck(a)

(* what of it is on the line before the card stops *)
OnLine(a) ==
  LET w == Whole(a) IN SubSeq(w, 1, IF a.sent < Len(w) THEN a.sent ELSE Len(w))

(* the bytes of a that are its answer; a check byte that T=0 does not have *)
(* is one too many                                                         *)
Proper(a) == IF TckNeeded(a) THEN Whole(a) ELSE Body(a)

Sound(a) ==
  /\ a.ts = 0
  /\ TckNeeded(a) => a.tck = "right"
  /\ Len(Proper(a)) <= MAX_ATR_SIZE
  /\ a.sent >= Len(Proper(a))

ASSUME AtrAssumption ==
  /\ MAX_ATR_SIZE \in 4..254
  /\ Answers \subseteq Answer
  /\ \A a \in Answers : Len(a.groups) = Len(a.protocols) + 1 /\ OnLine(a) \in Seq(Byte)

-----------------------------------------------------------------------------
VARIABLES
  pc,      \* where read_atr is
  answer,  \* what the card sends
  line,    \* bytes not yet read
  atr,     \* atr->atr, up to index i
  wanted,  \* the bits of level_mask not yet followed
  level,   \* the level of the loop
  offset,  \* atr->ta_offset .. td_offset
  status   \* what read_atr returned

vars == <<pc, answer, line, atr, wanted, level, offset, status>>

(* mutant: the offsets are signed *)
BadOffset_Signed == -1

BAD_ATR_OFFSET == 255
MAX_INTERFACE_BYTES_COUNT == MAX_ATR_SIZE - 3

NoOffsets == [x \in InterfaceKinds \X (0..MAX_INTERFACE_BYTES_COUNT-1) |-> BAD_ATR_OFFSET]

Returns(s) == pc' = "done" /\ status' = s /\ UNCHANGED <<wanted, level, offset>>

(* transport_recv_byte: a byte, or nothing within VTIME *)
Receives == line # <<>> /\ line' = Tail(line) /\ UNCHANGED answer

(* mutant: the limit is tested before the increment *)
NoRoomFor_OneMore(n) == Len(atr) + n > MAX_ATR_SIZE + 1

(* SAFE_INCREMENT_N, the index being Len(atr) - 1 *)
NoRoomFor(n) == Len(atr) + n > MAX_ATR_SIZE

Refused == Returns("unexpected_card_response") /\ UNCHANGED atr

ReadTs ==
  /\ pc = "ts" /\ Receives
  /\ IF Head(line).low # 0 THEN Refused
     ELSE /\ atr' = Append(atr, Head(line)) /\ pc' = "t0"
          /\ UNCHANGED <<wanted, level, offset, status>>

ReadT0 ==
  /\ pc = "t0" /\ Receives
  /\ atr' = Append(atr, Head(line)) /\ wanted' = Head(line).next /\ pc' = "interface"
  /\ UNCHANGED <<level, offset, status>>

(***************************************************************************)
(* The loop over levels: TA, TB, TC and TD in this order, each if it was   *)
(* announced; a TD announces the next level.                               *)
(***************************************************************************)
NextKind ==
  IF "TA" \in wanted THEN "TA" ELSE IF "TB" \in wanted THEN "TB"
  ELSE IF "TC" \in wanted THEN "TC" ELSE "TD"

(* mutant: the level is that of the TD that announced the byte *)
LevelAfter_Never(kind) == level

LevelAfter(kind) == IF kind = "TD" THEN level + 1 ELSE level

WantedAfter(kind, b) == IF kind = "TD" THEN b.next ELSE wanted \ {kind}

ReadInterfaceByte ==
  /\ pc = "interface" /\ wanted # {} /\ Receives
  /\ IF NoRoomFor(1) THEN Refused
     ELSE /\ atr' = Append(atr, Head(line))
          /\ wanted' = WantedAfter(NextKind, Head(line)) /\ level' = LevelAfter(NextKind)
          /\ UNCHANGED status
          (* the arrays end here; what a store behind them does is not modelled *)
          /\ IF level < MAX_INTERFACE_BYTES_COUNT
             THEN offset' = [offset EXCEPT ![<<NextKind, level>>] = Len(atr)] /\ UNCHANGED pc
             ELSE pc' = "outside" /\ UNCHANGED offset

(* LOWOCT of T0 *)
historical_bytes_len == atr[2].low

ReadHistoricalBytes ==
  /\ pc = "interface" /\ wanted = {}
  /\ UNCHANGED answer
  /\ LET n == historical_bytes_len IN
     IF NoRoomFor(n) THEN Refused /\ UNCHANGED line
     ELSE IF Len(line) < n
     THEN Returns("communication_error") /\ line' = <<>> /\ UNCHANGED atr
     ELSE /\ atr' = atr \o SubSeq(line, 1, n) /\ line' = SubSeq(line, n + 1, Len(line))
          /\ pc' = "tck" /\ UNCHANGED <<wanted, level, offset, status>>

(* mutant: the first TD alone decides *)
is_tck_present_first ==
  offset[<<"TD", 0>>] # BAD_ATR_OFFSET /\ atr[offset[<<"TD", 0>>] + 1].low # 0

is_tck_present ==
  \E l \in 0..MAX_INTERFACE_BYTES_COUNT-1 :
    /\ \A m \in 0..l : offset[<<"TD", m>>] # BAD_ATR_OFFSET
    /\ atr[offset[<<"TD", l>>] + 1].low # 0

(* the exclusive or of all bytes behind TS is zero with the right TCK only *)
is_tck_correct(b) == b.kind = "TCK" /\ b.low = 0

ReadTck ==
  /\ pc = "tck" /\ is_tck_present /\ Receives
  /\ IF NoRoomFor(1) THEN Refused
     ELSE /\ atr' = Append(atr, Head(line))
          /\ Returns(IF is_tck_correct(Head(line)) THEN "ok" ELSE "unexpected_card_response")

NoTck ==
  /\ pc = "tck" /\ ~is_tck_present
  /\ Returns("ok") /\ UNCHANGED <<answer, line, atr>>

ReadFails ==
  /\ line = <<>>
  /\ pc \in {"ts", "t0"} \/ (pc = "interface" /\ wanted # {}) \/ (pc = "tck" /\ is_tck_present)
  /\ Returns("communication_error")
  /\ UNCHANGED <<answer, line, atr>>

-----------------------------------------------------------------------------
Init ==
  /\ pc = "ts" /\ answer \in Answers
  /\ line = OnLine(answer)
  /\ atr = <<>> /\ wanted = {} /\ level = 0 /\ offset = NoOffsets /\ status = "none"

Next ==
  \/ ReadTs
  \/ ReadT0
  \/ ReadInterfaceByte
  \/ ReadHistoricalBytes
  \/ ReadTck
  \/ NoTck
  \/ ReadFails

Spec == Init /\ [][Next]_vars

-----------------------------------------------------------------------------
(* Properties *)

(* Every variable has its type. *)
AtrTypeOK ==
  /\ pc \in {"ts", "t0", "interface", "tck", "done", "outside"}
  /\ answer \in Answer
  /\ line \in Seq(Byte) /\ atr \in Seq(Byte)
  /\ wanted \subseteq InterfaceKinds /\ level \in Nat
  /\ offset \in [InterfaceKinds \X (0..MAX_INTERFACE_BYTES_COUNT-1) -> 0..255]
  /\ status \in {"none", "ok", "communication_error", "unexpected_card_response"}

(* However long a chain of interface bytes and historical bytes an answer  *)
(* announces, what is stored stays within atr->atr, and every offset filed *)
(* is that of a byte that was stored and fits its uint8_t.                 *)
AtrFitsBuffer ==
  /\ AtrTypeOK
  /\ Len(atr) <= MAX_ATR_SIZE
  /\ \A x \in DOMAIN offset : offset[x] # BAD_ATR_OFFSET => offset[x] < Len(atr)

(* When the answer has been read, each interface byte is filed under the   *)
(* kind and the level it has in the answer, and nothing else is: what      *)
(* parse_atr takes for TA1, TA2, TC1, TC2 or a TD is that byte.            *)
OffsetsNameTheirBytes ==
  status = "ok" =>
    \A x \in DOMAIN offset :
      IF x[2] < Len(answer.groups) /\ x[1] \in Announced(answer, x[2] + 1)
      THEN atr[offset[x] + 1].kind = x[1] /\ atr[offset[x] + 1].level = x[2]
      ELSE offset[x] = BAD_ATR_OFFSET

(* An answer is accepted exactly if it is one that ISO/IEC 7816-3 and the  *)
(* buffer allow, and then it is the whole of it that has been read: no     *)
(* byte of it is left to be taken for an echo.                             *)
SoundAnswersAccepted ==
  pc = "done" =>
    /\ status = "ok" <=> Sound(answer)
    /\ status = "ok" => atr = Proper(answer)

(* "All offset fields have values in between 0..MAX_ATR_SIZE" (atr.h), and *)
(* the arrays of them "anything except T0 & TCK": an answer that fits the  *)
(* buffer has an entry for every interface byte.                           *)
EveryLevelHasAnEntry == pc # "outside"
=============================================================================
