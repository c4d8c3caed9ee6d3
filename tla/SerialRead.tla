----------------------------- MODULE SerialRead -----------------------------
(***************************************************************************)
(* Bit banged serial reads of pigpio.c: a character is put together from   *)
(* the changes of a GPIO's level and from the timeouts of its watchdog, in *)
(* the alert thread (waveRxSerial), and taken from a ring by the caller    *)
(* (gpioSerialRead).                                                       *)
(*                                                                         *)
(* A bit lasts four ticks, and an edge is seen up to a tick late.  A       *)
(* character is the set of its bits that are one.                          *)
(***************************************************************************)
EXTENDS Integers, Sequences, FiniteSets

CONSTANTS
    dataBits,       \* the bits of a character
    rxTimeout,      \* of the watchdog, in bits
    bufSize,        \* SRX_BUF_SIZE, in characters
    MaxCharacters   \* bound: characters sent

ASSUME SerialAssumption ==
    {dataBits, rxTimeout, MaxCharacters} \subseteq Nat \ {0} /\ bufSize \in Nat \ {0, 1}

VARIABLES
    rx,         \* wfRx[gpio].s: bit, data, level and invert; whether the watchdog
                \* is set; the bits since an edge and since the start bit, and
                \* how late that was seen
    ring,       \* buf, readPos and writePos
    line,       \* the transmitter: the present level, the levels to come, the
                \* characters begun
    sent,       \* history: the characters sent and not yet put together
    stored,     \* history: those that entered the ring and were not read
    wrong,      \* history: a character was put together otherwise than sent
    lapped      \* history: one was stored while readPos was past the end

serialVars == <<rx, ring, line, sent, stored, wrong, lapped>>

Characters == SUBSET (1 .. dataBits)
PI_TIMEOUT == 2
fullBit == 4
halfBit == 2
Frame == dataBits + rxTimeout + 2          \* bits after which nothing changes

SerialTypeOK ==
    /\ rx \in [bit : -1 .. dataBits, data : Characters, level : {0, 1, 3}, invert : {0, 1},
               wdog : BOOLEAN, age : 0 .. rxTimeout, bits : 0 .. Frame, late : {0, 1}]
    /\ ring \in [buf : [0 .. bufSize - 1 -> Characters], readPos : 0 .. bufSize,
                 writePos : 0 .. bufSize - 1]
    /\ line \in [level : {0, 1}, rest : UNION {[1 .. n -> {0, 1}] : n \in 0 .. dataBits + 1},
                 count : 0 .. MaxCharacters]

SerialInit ==
    /\ \E invert \in {0, 1} :
         rx = [bit |-> -1, data |-> {}, level |-> 0, invert |-> invert, wdog |-> FALSE,
               age |-> 0, bits |-> 0, late |-> 0]
    /\ ring = [readPos |-> 0, writePos |-> 0, buf |-> [i \in 0 .. bufSize - 1 |-> {}]]
    /\ line = [level |-> 1, rest |-> <<>>, count |-> 0]
    /\ sent = <<>> /\ stored = <<>> /\ wrong = FALSE /\ lapped = FALSE

(***************************************************************************)
(* waveRxSerial                                                            *)
(***************************************************************************)
\* level ^ invert: a timeout becomes 3, which is not PI_TIMEOUT, when inverted.
Seen(raw) == IF rx.invert = 0 THEN raw ELSE IF raw = PI_TIMEOUT THEN 3 ELSE 1 - raw

\* The first bit whose middle is not past.
BitAt(diffTicks) ==
    LET ahead == {b \in rx.bit .. dataBits : diffTicks <= halfBit + fullBit * b}
    IN IF ahead = {} THEN dataBits + 1 ELSE CHOOSE b \in ahead : \A c \in ahead : b <= c

\* The bits whose middle is past had the level from before the edge.
BitsFound(bit, lastLevel) ==
    (IF rx.bit = 0 THEN {} ELSE rx.data) \cup
    {b \in 1 .. dataBits : lastLevel = 1 /\ rx.bit <= b /\ b < bit}

\* (mutant: the lateness of the edge before is kept)
StartBitLate(level, late) ==
    [rx EXCEPT !.bit = IF level = 0 THEN 0 ELSE -1, !.data = {},
               !.level = IF level = PI_TIMEOUT THEN @ ELSE level, !.wdog = level = 0, !.age = 0]
\* A low level begins a character and sets the watchdog; else the line idles.
StartBit(level, late) ==
    [rx EXCEPT !.bit = IF level = 0 THEN 0 ELSE -1, !.data = {},
               !.level = IF level = PI_TIMEOUT THEN @ ELSE level,
               !.wdog = level = 0, !.age = 0, !.bits = 0, !.late = late]

\* The receiver after a level or a timeout, and the character it completed.
waveRxSerial(raw, bits, late) ==
    LET level == Seen(raw)
        diffTicks == fullBit * bits + late - rx.late
        lastLevel == IF level = PI_TIMEOUT THEN rx.level ELSE IF level = 0 THEN 1 ELSE 0
        bit == BitAt(diffTicks)
        data == BitsFound(bit, lastLevel)
    IN CASE rx.bit < 0 /\ level = 0 -> [rx |-> StartBit(0, late), done |-> FALSE, data |-> {}]
         [] rx.bit < 0 /\ level # 0 -> [rx |-> [rx EXCEPT !.age = 0], done |-> FALSE, data |-> {}]
         [] rx.bit >= 0 /\ bit > dataBits ->
                [rx |-> StartBit(level, late), done |-> TRUE, data |-> data]
         [] rx.bit >= 0 /\ bit <= dataBits ->
                [rx |-> [rx EXCEPT !.bit = bit, !.data = data, !.age = 0, !.bits = bits,
                                   !.level = IF level = PI_TIMEOUT THEN @ ELSE level],
                 done |-> FALSE, data |-> {}]

\* (mutant: writePos does not wrap)
TakeOn(out) ==
    LET next == ring.writePos + 1 IN
    /\ rx' = out.rx
    /\ IF out.done
       THEN /\ ring' = [ring EXCEPT !.buf[ring.writePos] = out.data,
                                    !.writePos = IF next # ring.readPos THEN next ELSE @]
            /\ stored' = IF next # ring.readPos THEN Append(stored, out.data) ELSE stored
            /\ lapped' = (lapped \/ ring.readPos = bufSize)
            /\ wrong' = (wrong \/ sent = <<>> \/ out.data # Head(sent))
       ELSE UNCHANGED <<ring, stored, lapped, wrong>>
\* A completed character enters the ring unless writePos would catch readPos.
Take(out) ==
    LET next == (ring.writePos + 1) % bufSize IN
    /\ rx' = out.rx
    /\ IF out.done
       THEN /\ ring' = [ring EXCEPT !.buf[ring.writePos] = out.data,
                                    !.writePos = IF next # ring.readPos THEN next ELSE @]
            /\ stored' = IF next # ring.readPos THEN Append(stored, out.data) ELSE stored
            /\ lapped' = (lapped \/ ring.readPos = bufSize)
            /\ wrong' = (wrong \/ sent = <<>> \/ out.data # Head(sent))
       ELSE UNCHANGED <<ring, stored, lapped, wrong>>
Pending(out) == IF out.done /\ sent # <<>> THEN Tail(sent) ELSE sent

(***************************************************************************)
(* The line                                                                *)
(***************************************************************************)
Passed == IF rx.bit >= 0 /\ rx.bits < Frame THEN rx.bits + 1 ELSE rx.bits
Raw(level) == IF rx.invert = 0 THEN level ELSE 1 - level

\* A character: its start bit, its bits, and the stop bit, which may last.
SendStart ==
    /\ line.rest = <<>> /\ line.level = 1 /\ line.count < MaxCharacters
    /\ \E c \in Characters, late \in {0, 1} :
         LET out == waveRxSerial(Raw(0), Passed, late)
             bits == [b \in 1 .. dataBits |-> IF b \in c THEN 1 ELSE 0]
         IN /\ line' = [level |-> 0, rest |-> Append(bits, 1), count |-> line.count + 1]
            /\ Take(out)
            /\ sent' = Append(Pending(out), c)

SendBit ==
    /\ line.rest # <<>>
    /\ line' = [line EXCEPT !.level = Head(line.rest), !.rest = Tail(@)]
    /\ IF Head(line.rest) = line.level
       THEN /\ rx' = [rx EXCEPT !.bits = Passed, !.age = IF rx.wdog /\ @ < rxTimeout THEN @ + 1 ELSE @]
            /\ UNCHANGED <<ring, sent, stored, wrong, lapped>>
       ELSE \E late \in {0, 1} :
              LET out == waveRxSerial(Raw(Head(line.rest)), Passed, late)
              IN Take(out) /\ sent' = Pending(out)

\* A bit time during which the line stays idle.
Rest ==
    /\ line.rest = <<>> /\ rx.wdog
    /\ rx' = [rx EXCEPT !.bits = Passed, !.age = IF @ < rxTimeout THEN @ + 1 ELSE @]
    /\ UNCHANGED <<ring, line, sent, stored, wrong, lapped>>

\* The watchdog fires, when the alert thread comes to it.
TimeOut ==
    /\ rx.wdog /\ rx.age = rxTimeout
    /\ LET out == waveRxSerial(PI_TIMEOUT, rx.bits, rx.late)
       IN Take(out) /\ sent' = Pending(out)
    /\ UNCHANGED line

(***************************************************************************)
(* gpioSerialRead: the copy, with readPos moved on, and then brought back  *)
(* to the start.                                                           *)
(***************************************************************************)
Prefix(s, n) == SubSeq(s, 1, n)

gpioSerialRead ==
    /\ ring.readPos < bufSize /\ ring.readPos # ring.writePos
    /\ LET n == IF ring.writePos > ring.readPos THEN ring.writePos - ring.readPos
                ELSE bufSize - ring.readPos
       IN \E m \in 1 .. n :
            LET copy == [i \in 1 .. m |-> ring.buf[ring.readPos + i - 1]] IN
            /\ ring' = [ring EXCEPT !.readPos = @ + m]
            /\ wrong' = (wrong \/ (~ lapped /\ (m > Len(stored) \/ copy # Prefix(stored, m))))
            /\ stored' = SubSeq(stored, m + 1, Len(stored))
    /\ UNCHANGED <<rx, line, sent, lapped>>

WrapReadPos ==
    /\ ring.readPos >= bufSize
    /\ ring' = [ring EXCEPT !.readPos = 0]
    /\ UNCHANGED <<rx, line, sent, stored, wrong, lapped>>

SerialNext == SendStart \/ SendBit \/ Rest \/ TimeOut \/ gpioSerialRead \/ WrapReadPos
SerialSpec == SerialInit /\ [][SerialNext]_serialVars

-----------------------------------------------------------------------------
(***************************************************************************)
(* Properties                                                              *)
(***************************************************************************)
\* Every character is put together as it was sent, one for one and in order,
\* whatever the gaps, the timeouts within it and the lateness of its edges.
\* The ring holds those that found room, and none is overwritten or given
\* twice, unless one came in while gpioSerialRead was between two statements.
CharactersAsSent ==
    /\ SerialTypeOK
    /\ rx.invert = 0 =>
        /\ ~ wrong
        /\ lapped \/ Len(stored) = (ring.writePos - ring.readPos) % bufSize
=============================================================================
