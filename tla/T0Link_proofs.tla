--------------------------- MODULE T0Link_proofs ---------------------------
EXTENDS T0Link, SequenceTheorems, TLAPS

(***************************************************************************)
(* The invariants of T0Exchange hold for every set of commands, every      *)
(* length of buffer and whatever arrives on the line.                      *)
(***************************************************************************)

(* Where the loop stands, the bytes reserved, read and sent determine each *)
(* other.  Beyond the invariants themselves: only a burst reserves bytes   *)
(* it has not read; nothing has been received while command data is left;  *)
(* and "ok" is set on the way out only.                                    *)
Accounts ==
  /\ pc \in {"write", "echo", "proc"} => need = 0
  /\ pc = "data" => left = 0
  /\ pc # "idle" /\ left > 0 => size = IF pc = "sw2" THEN 2 ELSE 0
  /\ pc = "sw2" => size >= 2
  /\ pc # "idle" => result # "ok"

IInv == TypeOK /\ ResponseFitsBuffer /\ CommandSentOnce /\ ResponseShape /\ Accounts

(* What the queue holds after a byte has been taken from it, or added.     *)
LEMMA QueueTyped ==
  ASSUME rx \in Seq(Byte)
  PROVE  /\ rx # <<>> => Head(rx) \in Byte /\ Tail(rx) \in Seq(Byte)
         /\ \A b \in Byte : Append(rx, b) \in Seq(Byte)
  <1>1. rx # <<>> => Head(rx) \in Byte /\ Tail(rx) \in Seq(Byte)
    BY HeadTailProperties
  <1>2. \A b \in Byte : Append(rx, b) \in Seq(Byte)
    BY AppendProperties
  <1> QED BY <1>1, <1>2

(* A command that is taken gets a buffer with room for its response.       *)
LEMMA Sizes ==
  ASSUME NEW a \in Apdus
  PROVE  /\ Nc(a) \in 0..MaxNe-1 /\ Ne(a) \in 0..MaxNe /\ a.rx_len \in Nat
         /\ ResponseFits(a) => Ne(a) + 2 <= a.rx_len
  <1>1. a \in [tx_len : Nat, p3 : 0..MaxNe-1, le : 0..MaxNe-1, rx_len : Nat]
    BY T0Assumption
  <1>2. Nc(a) \in 0..MaxNe-1
    BY <1>1, T0Assumption DEF Nc
  <1>3. Ne(a) \in 0..MaxNe
    BY <1>1, T0Assumption DEF Ne, le_to_ne
  <1> QED BY <1>1, <1>2, <1>3 DEF ResponseFits

LEMMA BeginKeeps ==
  ASSUME IInv, NEW a \in Apdus, Begin(a)
  PROVE  IInv'
  <1> USE DEF IInv
  <1>1. CASE ~Malformed(a) /\ ResponseFits(a)
    <2>1. /\ pc' = "write" /\ hdr' = APDU_HEADER_SIZE /\ nc' = Nc(a) /\ ne' = Ne(a)
          /\ left' = Nc(a) /\ burst' = 0 /\ rxLen' = a.rx_len
          /\ size' = 0 /\ need' = 0 /\ stored' = 0 /\ intact' = TRUE
          /\ result' = "none" /\ cmd' = 1 - cmd /\ rx' = rx
      BY <1>1 DEF Begin
    <2>2. TypeOK'
      BY <2>1, Sizes, T0Assumption DEF TypeOK, APDU_HEADER_SIZE, Results
    <2>3. ResponseFitsBuffer' /\ CommandSentOnce' /\ ResponseShape' /\ Accounts'
      BY <1>1, <2>1, Sizes, T0Assumption
      DEF ResponseFitsBuffer, CommandSentOnce, ResponseShape, Accounts, capacity, free_space,
          Sending, APDU_HEADER_SIZE
    <2> QED BY <2>2, <2>3
  <1>2. CASE ~(~Malformed(a) /\ ResponseFits(a))
    <2>1. /\ result' \in {"invalid_params", "insufficient_buffer"} /\ cmd' = 1 - cmd
          /\ UNCHANGED <<pc, nc, ne, hdr, left, burst, rxLen, size, need, stored, intact, rx>>
      BY <1>2 DEF Begin
    <2> QED
      BY <2>1
      DEF TypeOK, Results, ResponseFitsBuffer, CommandSentOnce, ResponseShape, Accounts,
          capacity, free_space, Sending
  <1> QED BY <1>1, <1>2

(* Giving up is harmless at any point. *)
LEMMA FailsKeeps ==
  ASSUME IInv, NEW status \in Results \ {"ok"}, Fails(status),
         rx' \in Seq(Byte), intact' \in BOOLEAN
  PROVE  IInv'
  BY DEF IInv, Fails, TypeOK, Results, ResponseFitsBuffer, CommandSentOnce, ResponseShape,
         Accounts, capacity, free_space, Sending

LEMMA WriteKeeps ==
  ASSUME IInv, Write
  PROVE  IInv'
  <1> USE DEF IInv
  <1>1. rx' \in Seq(Byte)
    <2>1. [v |-> "other", role |-> "echo", cmd |-> cmd] \in Byte
      BY DEF TypeOK, Byte, Classes
    <2> QED BY <2>1, QueueTyped DEF Write, TypeOK
  <1>2. TypeOK' /\ ResponseFitsBuffer' /\ CommandSentOnce' /\ ResponseShape' /\ Accounts'
    BY <1>1
    DEF Write, TypeOK, ResponseFitsBuffer, CommandSentOnce, ResponseShape, Accounts, capacity,
        free_space, Sending, APDU_HEADER_SIZE
  <1> QED BY <1>2

LEMMA ReadEchoKeeps ==
  ASSUME IInv, ReadEcho
  PROVE  IInv'
  <1>1. rx' \in Seq(Byte)
    BY QueueTyped DEF ReadEcho, EchoRead, IInv, TypeOK
  <1>2. intact' \in BOOLEAN
    BY DEF ReadEcho, IInv, TypeOK
  <1> QED
    BY <1>1, <1>2
    DEF IInv, ReadEcho, TypeOK, ResponseFitsBuffer, CommandSentOnce, ResponseShape, Accounts,
        capacity, free_space, Sending, APDU_HEADER_SIZE

(* The four meanings of a procedure byte. *)
LEMMA ReadProcKeeps ==
  ASSUME IInv, ReadProc
  PROVE  IInv'
  <1>1. rx' \in Seq(Byte)
    BY QueueTyped DEF ReadProc, IInv, TypeOK
  <1>2. intact' \in BOOLEAN
    BY DEF ReadProc, IInv, TypeOK
  <1>3. ProcIgnored(Head(rx)) \/ ProcSw1(Head(rx)) \/ ProcAck(Head(rx)) \/ ProcNack(Head(rx))
    BY DEF ReadProc
  <1>4. pc = "proc" /\ need = 0 /\ Sending = 0
    BY DEF ReadProc, IInv, Accounts, CommandSentOnce
  <1>5. free_space >= 2 /\ free_space \in Nat /\ left \in Nat
    BY <1>4 DEF IInv, TypeOK, ResponseFitsBuffer, free_space, capacity
  <1>6. ASSUME Fails("unexpected_card_response")
        PROVE  IInv'
    BY <1>1, <1>2, <1>6, FailsKeeps DEF Results
  <1>7. ASSUME NEW m \in 1..left, Sends(m)
        PROVE  IInv'
    BY <1>1, <1>2, <1>4, <1>5, <1>7
    DEF IInv, Sends, Popped, TypeOK, ResponseFitsBuffer, CommandSentOnce, ResponseShape, Accounts,
        capacity, free_space, Sending, APDU_HEADER_SIZE
  <1>8. ASSUME left = 0, NEW m \in Nat, ~NoRoomForData => m \in 1..free_space - 2, Receives(m)
        PROVE  IInv'
    <2>1. CASE NoRoomForData
      BY <1>6, <1>8, <2>1 DEF Receives
    <2>2. CASE ~NoRoomForData
      BY <1>1, <1>2, <1>4, <1>5, <1>8, <2>2
      DEF IInv, Receives, TypeOK, ResponseFitsBuffer, CommandSentOnce, ResponseShape, Accounts,
          capacity, free_space, Sending
    <2> QED BY <2>1, <2>2
  <1>9. CASE ProcIgnored(Head(rx))
    BY <1>1, <1>2, <1>9
    DEF IInv, ProcIgnored, TypeOK, ResponseFitsBuffer, CommandSentOnce, ResponseShape, Accounts,
        capacity, free_space, Sending
  <1>10. CASE ProcSw1(Head(rx))
    BY <1>1, <1>2, <1>4, <1>5, <1>10
    DEF IInv, ProcSw1, TypeOK, ResponseFitsBuffer, CommandSentOnce, ResponseShape, Accounts,
        capacity, free_space, Sending
  <1>11. CASE ProcAck(Head(rx))
    <2>1. CASE DataToSend
      BY <1>5, <1>7, <1>11, <2>1 DEF ProcAck, DataToSend, AllData
    <2>2. CASE ~DataToSend
      BY <1>5, <1>8, <1>11, <2>2 DEF ProcAck, DataToSend, NoRoomForData
    <2> QED BY <2>1, <2>2
  <1>12. CASE ProcNack(Head(rx))
    <2>1. CASE DataToSend
      BY <1>5, <1>7, <1>12, <2>1 DEF ProcNack, DataToSend
    <2>2. CASE ~DataToSend
      BY <1>5, <1>8, <1>12, <2>2 DEF ProcNack, DataToSend, NoRoomForData
    <2> QED BY <2>1, <2>2
  <1> QED BY <1>3, <1>9, <1>10, <1>11, <1>12

LEMMA ReadDataKeeps ==
  ASSUME IInv, ReadData \/ ReadSw2
  PROVE  IInv'
  <1>1. rx' \in Seq(Byte)
    BY QueueTyped DEF ReadData, ReadSw2, IInv, TypeOK
  <1>2. intact' \in BOOLEAN
    BY DEF ReadData, ReadSw2, IInv, TypeOK
  <1>3. CASE ReadData
    BY <1>1, <1>2, <1>3
    DEF IInv, ReadData, TypeOK, ResponseFitsBuffer, CommandSentOnce, ResponseShape, Accounts,
        capacity, free_space, Sending
  <1>4. CASE ReadSw2
    BY <1>1, <1>2, <1>4
    DEF IInv, ReadSw2, TypeOK, Results, ResponseFitsBuffer, CommandSentOnce, ResponseShape,
        Accounts, capacity, free_space, Sending
  <1> QED BY <1>3, <1>4

(* Bytes come, and a reset drops them: the driver has not moved. *)
LEMMA QueueKeeps ==
  ASSUME IInv, UNCHANGED driver, rx' \in Seq(Byte)
  PROVE  IInv'
  BY DEF IInv, driver, TypeOK, ResponseFitsBuffer, CommandSentOnce, ResponseShape, Accounts,
         capacity, free_space, Sending

LEMMA IInvInit == Init => IInv
  BY T0Assumption
  DEF Init, IInv, TypeOK, Results, ResponseFitsBuffer, CommandSentOnce, ResponseShape, Accounts,
      capacity, free_space, Sending, APDU_HEADER_SIZE

LEMMA IInvStep == IInv /\ [Next]_vars => IInv'
  <1> SUFFICES ASSUME IInv, [Next]_vars PROVE IInv'
    OBVIOUS
  <1>1. ASSUME NEW a \in Apdus, Begin(a) PROVE IInv'
    BY <1>1, BeginKeeps
  <1>2. CASE Write
    BY <1>2, WriteKeeps
  <1>3. CASE ReadEcho
    BY <1>3, ReadEchoKeeps
  <1>4. CASE ReadProc
    BY <1>4, ReadProcKeeps
  <1>5. CASE ReadData \/ ReadSw2
    BY <1>5, ReadDataKeeps
  <1>6. CASE IoFails
    BY <1>6, FailsKeeps DEF IoFails, Results, IInv, TypeOK
  <1>7. CASE Flush
    <2>1. rx' \in Seq(Byte)
      BY <1>7 DEF Flush
    <2> QED BY <1>7, <2>1, QueueKeeps DEF Flush
  <1>8. ASSUME NEW b \in Incoming, Arrives(b) PROVE IInv'
    <2>1. rx' \in Seq(Byte)
      BY <1>8, QueueTyped, T0Assumption DEF Arrives, IInv, TypeOK
    <2> QED BY <1>8, <2>1, QueueKeeps DEF Arrives
  <1>9. CASE UNCHANGED vars
    <2>1. UNCHANGED driver /\ rx' = rx
      BY <1>9 DEF vars
    <2>2. rx' \in Seq(Byte)
      BY <2>1 DEF IInv, TypeOK
    <2> QED BY <2>1, <2>2, QueueKeeps
  <1> QED BY <1>1, <1>2, <1>3, <1>4, <1>5, <1>6, <1>7, <1>8, <1>9 DEF Next

THEOREM Invariance == Spec => []IInv
  BY IInvInit, IInvStep, PTL DEF Spec

(* t0_transceive_data never stores or reserves a byte outside the buffer   *)
(* the caller was found to have, whatever the line delivers.               *)
THEOREM BufferSafe == Spec => []ResponseFitsBuffer
  BY Invariance, PTL DEF IInv

(* No byte of a command is sent twice, skipped or made up.                 *)
THEOREM SentOnce == Spec => []CommandSentOnce
  BY Invariance, PTL DEF IInv

(* Every variable of the exchange keeps its type, for every command and    *)
(* every byte that comes; and a command that ends well has a response of a *)
(* legal length, and no response data if the card left command data on the *)
(* driver's hands.                                                         *)
THEOREM ResponseKeptAlways == Spec => []ResponseKept
<1>1. IInv => ResponseKept
  BY DEF IInv, ResponseKept
<1> QED BY Invariance, <1>1, PTL

-----------------------------------------------------------------------------
(***************************************************************************)
(* T0Link implements T0Exchange: a card on the line is one way in which    *)
(* bytes may arrive, and a reset of the reader one way to empty the queue. *)
(* And with a card that keeps to the protocol the two ends agree on where  *)
(* the command stands, whatever its length and however far the card is     *)
(* ahead of the driver: reading the bytes in the queue leads the driver to *)
(* where the card is.                                                      *)
(***************************************************************************)

(* Whatever the card sends, it sends by putting a byte in the queue. *)
LEMMA SendingArrives ==
  ASSUME NEW v, NEW role, SendsByte(v, role)
  PROVE  Next
  BY DEF SendsByte, Next

LEMMA LinkStep == [LinkNext]_linkVars => [Next]_vars
  <1> SUFFICES ASSUME [LinkNext]_linkVars PROVE [Next]_vars
    OBVIOUS
  <1>1. ASSUME NEW a \in Apdus, Command(a) PROVE Next
    BY <1>1 DEF Command, Next
  <1>2. CASE LinkWrite
    BY <1>2 DEF LinkWrite, Next
  <1>3. CASE LinkReads
    BY <1>3 DEF LinkReads, DriverReads, Next
  <1>4. CASE LinkTimesOut \/ LinkFails
    BY <1>4 DEF LinkTimesOut, TimesOut, LinkFails, Next
  <1>5. CASE SendsNull
    BY <1>5, SendingArrives DEF SendsNull
  <1>6. CASE CardAnswers
    BY <1>6, SendingArrives DEF CardAnswers, SendsAck, SendsNack, SendsData, SendsSw1, SendsSw2
  <1>7. CASE CardLeaves
    BY <1>7 DEF CardLeaves
  <1>8. CASE Reset
    <2>1. pc = "idle" /\ rx' = <<>> /\ UNCHANGED driver
      BY <1>8 DEF Reset, NoCommandRuns, FlushedQueue
    <2>2. CASE rx = <<>>
      BY <2>1, <2>2 DEF vars
    <2>3. CASE rx # <<>>
      BY <2>1, <2>3 DEF Flush, Next
    <2> QED BY <2>2, <2>3
  <1>9. CASE UNCHANGED linkVars
    BY <1>9 DEF linkVars
  <1> QED BY <1>1, <1>2, <1>3, <1>4, <1>5, <1>6, <1>7, <1>8, <1>9 DEF LinkNext

(* Every behaviour of the driver with a card, prompt or late, present or   *)
(* gone, is one of the driver on an open line.                             *)
THEOREM LinkImplementsExchange == LinkSpec => OpenLine
  <1>1. LinkInit => Init
    BY DEF LinkInit
  <1> QED BY <1>1, LinkStep, PTL DEF LinkSpec, OpenLine, Spec

(* So the caller's buffer is safe with any card. *)
THEOREM LinkBufferSafe == LinkSpec => []ResponseFitsBuffer
  BY LinkImplementsExchange, BufferSafe DEF OpenLine

-----------------------------------------------------------------------------
(* Where an end of the line takes the command to stand: the echo of a byte *)
(* is still to come; the phase; the bytes that are left of the phase; and  *)
(* the data that is left to be asked for and to be announced.              *)
Phases == {"header", "datain", "proc", "dataout", "sw2"}

View ==
  {v \in [echo : BOOLEAN, phase : Phases, n : Nat, in : Nat, out : Nat] :
     /\ v.in = 0 \/ v.out = 0
     /\ v.phase \in {"datain", "dataout"} => v.n > 0}

At(p, k, i, o) == [echo |-> FALSE, phase |-> p, n |-> k, in |-> i, out |-> o]
Start == At("header", APDU_HEADER_SIZE, 0, 0)
Awaiting(v) == [v EXCEPT !.echo = TRUE]

(* Where reading byte b leads from v. *)
ReadsTransfer(v, k, w) ==
  w = IF v.in > 0 THEN At("datain", k, v.in - k, v.out) ELSE At("dataout", k, v.in, v.out - k)

Reads(v, b, w) ==
  \/ v.echo /\ b.role = "echo" /\ w = [v EXCEPT !.echo = FALSE]
  \/ /\ ~v.echo /\ v.phase = "proc"
     /\ \/ b.role = "proc" /\ b.v = "null" /\ w = v
        \/ b.role = "proc" /\ b.v = "ack" /\ v.in + v.out > 0 /\ ReadsTransfer(v, v.in + v.out, w)
        \/ b.role = "proc" /\ b.v = "nack" /\ v.in + v.out > 0 /\ ReadsTransfer(v, 1, w)
        \/ b.role = "sw1" /\ b.v = "sw" /\ w = At("sw2", 0, 0, 0)
  \/ /\ ~v.echo /\ v.phase = "dataout" /\ b.role = "data"
     /\ w = IF v.n = 1 THEN At("proc", 0, v.in, v.out) ELSE At("dataout", v.n - 1, v.in, v.out)
  \/ ~v.echo /\ v.phase = "sw2" /\ b.role = "sw2" /\ w = Start

(* Reading the bytes of q, all of command c, leads from v to w. *)
Path(s, q, c) ==
  /\ s \in [0..Len(q) -> View]
  /\ \A i \in 1..Len(q) : Reads(s[i-1], q[i], s[i]) /\ q[i].cmd = c

Joins(v, q, w, c) == \E s : Path(s, q, c) /\ s[0] = v /\ s[Len(q)] = w

LEMMA JoinsEmpty ==
  ASSUME NEW v \in View, NEW c
  PROVE  Joins(v, <<>>, v, c)
  <1> DEFINE s == [i \in 0..0 |-> v]
  <1>1. Path(s, <<>>, c) /\ s[0] = v /\ s[Len(<<>>)] = v
    BY DEF Path
  <1> QED BY <1>1 DEF Joins

LEMMA JoinsEnds ==
  ASSUME NEW q \in Seq(Byte), NEW v, NEW w, NEW c, Joins(v, q, w, c)
  PROVE  /\ v \in View /\ w \in View
         /\ q = <<>> => v = w
  <1>1. PICK s : Path(s, q, c) /\ s[0] = v /\ s[Len(q)] = w
    BY DEF Joins
  <1>2. Len(q) \in Nat /\ (q = <<>> => Len(q) = 0)
    BY LenProperties
  <1>3. 0 \in 0..Len(q) /\ Len(q) \in 0..Len(q)
    BY <1>2
  <1> QED BY <1>1, <1>2, <1>3 DEF Path

(* The first byte of the queue is read ... *)
LEMMA JoinsHead ==
  ASSUME NEW q \in Seq(Byte), q # <<>>, NEW v, NEW w, NEW c, Joins(v, q, w, c)
  PROVE  /\ Head(q).cmd = c
         /\ \E u \in View : Reads(v, Head(q), u) /\ Joins(u, Tail(q), w, c)
  <1>1. PICK s : Path(s, q, c) /\ s[0] = v /\ s[Len(q)] = w
    BY DEF Joins
  <1>2. /\ Len(q) \in Nat \ {0} /\ Head(q) = q[1]
        /\ Len(Tail(q)) = Len(q) - 1 /\ \A i \in 1..Len(Tail(q)) : Tail(q)[i] = q[i+1]
    BY EmptySeq, HeadTailProperties
  <1> DEFINE t == [i \in 0..Len(q)-1 |-> s[i+1]]
  <1>3. s \in [0..Len(q) -> View]
        /\ \A i \in 1..Len(q) : Reads(s[i-1], q[i], s[i]) /\ q[i].cmd = c
    BY <1>1 DEF Path
  <1>4. t \in [0..Len(q)-1 -> View]
    BY <1>2, <1>3
  <1>5. ASSUME NEW i \in 1..Len(Tail(q))
        PROVE  Reads(t[i-1], Tail(q)[i], t[i]) /\ Tail(q)[i].cmd = c
    <2>1. i + 1 \in 1..Len(q) /\ i \in 0..Len(q)-1 /\ i - 1 \in 0..Len(q)-1
      BY <1>2
    <2>2. t[i-1] = s[i] /\ t[i] = s[i+1] /\ Tail(q)[i] = q[i+1]
      BY <1>2, <2>1
    <2>3. Reads(s[(i+1)-1], q[i+1], s[i+1]) /\ q[i+1].cmd = c
      BY <1>3, <2>1
    <2>4. (i+1)-1 = i
      OBVIOUS
    <2> QED BY <2>2, <2>3, <2>4
  <1>6. Path(t, Tail(q), c)
    BY <1>2, <1>4, <1>5 DEF Path
  <1>7. t[0] = s[1] /\ t[Len(Tail(q))] = w
    BY <1>1, <1>2
  <1>8. Joins(s[1], Tail(q), w, c)
    BY <1>6, <1>7 DEF Joins
  <1>9. 1 \in 1..Len(q) /\ 1 \in 0..Len(q) /\ 1 - 1 = 0
    BY <1>2
  <1>10. s[1] \in View /\ Reads(v, Head(q), s[1]) /\ Head(q).cmd = c
    BY <1>1, <1>2, <1>3, <1>9
  <1> QED BY <1>8, <1>10

(* ... and another one joins it. *)
LEMMA JoinsAppend ==
  ASSUME NEW q \in Seq(Byte), NEW v, NEW w, NEW c, Joins(v, q, w, c),
         NEW b \in Byte, b.cmd = c, NEW u \in View, Reads(w, b, u)
  PROVE  Joins(v, Append(q, b), u, c)
  <1> DEFINE p == Append(q, b)
  <1>1. PICK s : Path(s, q, c) /\ s[0] = v /\ s[Len(q)] = w
    BY DEF Joins
  <1>2. /\ Len(q) \in Nat /\ Len(p) = Len(q) + 1
        /\ \A i \in 1..Len(q) : p[i] = q[i]
        /\ p[Len(q) + 1] = b
    BY AppendProperties, LenProperties
  <1>3. s \in [0..Len(q) -> View]
        /\ \A i \in 1..Len(q) : Reads(s[i-1], q[i], s[i]) /\ q[i].cmd = c
    BY <1>1 DEF Path
  <1> DEFINE t == [i \in 0..Len(q)+1 |-> IF i <= Len(q) THEN s[i] ELSE u]
  <1>4. t \in [0..Len(p) -> View]
    <2>1. ASSUME NEW i \in 0..Len(q)+1 PROVE (IF i <= Len(q) THEN s[i] ELSE u) \in View
      BY <1>2, <1>3
    <2> QED BY <1>2, <2>1
  <1>5. ASSUME NEW i \in 1..Len(p) PROVE Reads(t[i-1], p[i], t[i]) /\ p[i].cmd = c
    <2>1. CASE i <= Len(q)
      <3>1. i \in 1..Len(q) /\ i - 1 \in 0..Len(q)+1 /\ i \in 0..Len(q)+1 /\ i - 1 <= Len(q)
        BY <1>2, <2>1
      <3>2. t[i-1] = s[i-1] /\ t[i] = s[i] /\ p[i] = q[i]
        BY <1>2, <2>1, <3>1
      <3> QED BY <1>3, <3>1, <3>2
    <2>2. CASE i = Len(q) + 1
      <3>1. i - 1 = Len(q) /\ i - 1 \in 0..Len(q)+1 /\ i \in 0..Len(q)+1 /\ ~(i <= Len(q))
        BY <1>2, <2>2
      <3>2. t[i-1] = w /\ t[i] = u /\ p[i] = b
        BY <1>1, <1>2, <2>2, <3>1
      <3> QED BY <3>2
    <2> QED BY <1>2, <2>1, <2>2
  <1>6. Path(t, p, c)
    BY <1>4, <1>5 DEF Path
  <1>7. t[0] = v /\ t[Len(p)] = u
    BY <1>1, <1>2
  <1> QED BY <1>6, <1>7 DEF Joins

(* Whoever has bytes to write finds the queue empty. *)
LEMMA SilentWhileWriting ==
  ASSUME NEW q \in Seq(Byte), NEW v, NEW w, NEW c, Joins(v, q, w, c),
         ~v.echo, v.phase \in {"header", "datain"}
  PROVE  q = <<>> /\ w = v
  <1>1. \A b, u : ~Reads(v, b, u)
    BY DEF Reads
  <1>2. q = <<>>
    BY <1>1, JoinsHead
  <1>3. q = <<>> => v = w
    BY JoinsEnds
  <1> QED BY <1>2, <1>3

-----------------------------------------------------------------------------
(* Where the driver stands, and where the card.  The data that the driver  *)
(* has room for counts only where it has no data to send: the card answers *)
(* a command with data both ways by the status bytes alone.                *)
Room == IF nc = 0 THEN free_space - 2 ELSE 0

Onward ==
  IF hdr > 0 THEN At("header", hdr, 0, 0)
  ELSE IF burst > 0 THEN At("datain", burst, left, Room)
  ELSE At("proc", 0, left, Room)

DriverView ==
  IF pc = "idle" THEN Start
  ELSE IF pc = "write" THEN Onward
  ELSE IF pc = "echo" THEN Awaiting(Onward)
  ELSE IF pc = "proc" THEN At("proc", 0, left, Room)
  ELSE IF pc = "data" THEN At("dataout", need, left, Room)
  ELSE At("sw2", 0, 0, 0)

CardView ==
  IF phase = "header" THEN At("header", n, 0, 0)
  ELSE IF phase = "proc" THEN At("proc", 0, in, out)
  ELSE IF phase = "sw2" THEN At("sw2", 0, 0, 0)
  ELSE At(phase, n, in, out)

(* While no command has failed, reading what is in the queue leads the     *)
(* driver to where the card is (or was, when it left).                     *)
Sync ==
  clean => \E w \in View : Joins(DriverView, rx, w, cmd) /\ (phase # "gone" => w = CardView)

(* The command that runs is the one the caller gave and the card heard. *)
OneCommand ==
  /\ pc # "idle" => nc = Nc(apdu) /\ ne = Ne(apdu)
  /\ clean /\ pc # "idle" /\ phase # "gone" =>
       (phase = "header" /\ n = APDU_HEADER_SIZE) \/ heard = cmd

(* Nothing fails by itself, and a caller who resets goes on only from a    *)
(* clean state.                                                            *)
Reported ==
  /\ clean /\ pc # "idle" => intact
  /\ faults = {} => clean /\ phase # "gone" /\ ~Failed(result)
  /\ ResetsAfterError => /\ ~clean => pc = "idle" /\ Failed(result)
                         /\ OwnResponse

LinkTyped == clean \in BOOLEAN /\ phase \in Phases \cup {"gone"} /\ apdu \in Apdus

LInv == LinkTyped /\ Sync /\ OneCommand /\ Reported

(* ISO/IEC 7816-3 knows no command with a length of data of zero.          *)
ISOCommands == \A a \in Apdus : a.tx_len > APDU_HEADER_SIZE => a.p3 > 0

(* What the numbers of the driver are good for as a view of the line.      *)
ViewsTyped ==
  /\ pc \in {"write", "echo", "proc", "data"} =>
       Room \in Nat /\ left \in Nat /\ (Room = 0 \/ left = 0)
  /\ pc \in {"write", "echo"} => Onward \in View /\ ~Onward.echo
  /\ DriverView \in View

LEMMA DriverViewTyped == IInv => ViewsTyped
  <1> SUFFICES ASSUME IInv PROVE ViewsTyped
    OBVIOUS
  <1>1. ASSUME pc \in {"write", "echo", "proc", "data"}
        PROVE  Room \in Nat /\ left \in Nat /\ (Room = 0 \/ left = 0)
    BY <1>1 DEF IInv, TypeOK, ResponseFitsBuffer, CommandSentOnce, Room, free_space, capacity
  <1>2. ASSUME pc \in {"write", "echo"}
        PROVE  Onward \in View /\ ~Onward.echo
    BY <1>1, <1>2 DEF IInv, TypeOK, Onward, View, At, Phases
  <1>3. DriverView \in View
    <2>1. CASE pc = "idle" \/ pc = "sw2"
      BY <2>1 DEF DriverView, Start, View, At, Phases, APDU_HEADER_SIZE
    <2>2. CASE pc = "write"
      BY <1>2, <2>2 DEF DriverView
    <2>3. CASE pc = "echo"
      BY <1>2, <2>3 DEF DriverView, View, Awaiting
    <2>4. CASE pc = "proc"
      BY <1>1, <2>4 DEF DriverView, View, At, Phases
    <2>5. CASE pc = "data"
      BY <1>1, <2>5 DEF DriverView, View, At, Phases, IInv, TypeOK, ResponseFitsBuffer
    <2> QED BY <2>1, <2>2, <2>3, <2>4, <2>5 DEF IInv, TypeOK
  <1> QED BY <1>1, <1>2, <1>3 DEF ViewsTyped

LEMMA DriverViewTypedNext == IInv' => ViewsTyped'
  BY DriverViewTyped, PTL

(* In step: between two commands, and while it writes, the driver finds    *)
(* the line silent, and the card where it takes it to be.                  *)
LEMMA Silent ==
  ASSUME IInv, LInv, clean, pc \in {"idle", "write"}
  PROVE  rx = <<>> /\ (phase # "gone" => CardView = DriverView)
  <1>1. PICK w \in View : Joins(DriverView, rx, w, cmd) /\ (phase # "gone" => w = CardView)
    BY DEF LInv, Sync
  <1>2. rx \in Seq(Byte)
    BY DEF IInv, TypeOK
  <1>3. ~DriverView.echo /\ DriverView.phase \in {"header", "datain"}
    <2>1. CASE pc = "idle"
      BY <2>1 DEF DriverView, Start, At
    <2>2. CASE pc = "write"
      <3>1. hdr > 0 \/ burst > 0
        BY <2>2 DEF IInv, TypeOK, CommandSentOnce, Sending
      <3> QED BY <2>2, <3>1 DEF DriverView, Onward, At
    <2> QED BY <2>1, <2>2
  <1>4. rx = <<>> /\ w = DriverView
    BY <1>1, <1>2, <1>3, SilentWhileWriting
  <1> QED BY <1>1, <1>4

(* A card that sends does so during a command, and in answer to it.        *)
LEMMA CardSpeaks ==
  ASSUME IInv, LInv, clean, phase \in Sender
  PROVE  pc # "idle" /\ heard = cmd
  <1>1. pc # "idle"
    BY Silent DEF Sender, CardView, DriverView, Start, At
  <1> QED BY <1>1 DEF LInv, OneCommand, Sender

-----------------------------------------------------------------------------
(* The steps.  Each keeps LInv; `driver` and the card's variables change   *)
(* together in LinkWrite alone.                                            *)
LEMMA CommandInStep ==
  ASSUME IInv, LInv, NEW a \in Apdus, Command(a)
  PROVE  LInv'
  <1>1. pc = "idle" /\ rx' = rx /\ apdu' = a /\ UNCHANGED <<phase, n, in, out, heard, clean, faults>>
        /\ (ResetsAfterError => clean) /\ Begin(a)
    BY DEF Command, Begin, cardVars
  <1>2. \/ /\ pc' = "write" /\ hdr' = APDU_HEADER_SIZE /\ nc' = Nc(a) /\ ne' = Ne(a)
           /\ result' = "none" /\ intact' = TRUE
        \/ pc' = "idle" /\ result' \in {"invalid_params", "insufficient_buffer"}
    BY <1>1 DEF Begin
  <1>3. DriverView = Start /\ DriverView' = Start
    BY <1>1, <1>2 DEF DriverView, Onward, Start, APDU_HEADER_SIZE
  <1>4. CardView' = CardView
    BY <1>1 DEF CardView
  <1>5. Sync'
    <2>1. SUFFICES ASSUME clean PROVE Sync'
      BY <1>1 DEF Sync
    <2>2. rx = <<>> /\ (phase # "gone" => CardView = Start) /\ Start \in View
      BY <1>1, <1>3, <2>1, Silent, DriverViewTyped DEF ViewsTyped
    <2>3. Joins(Start, <<>>, Start, cmd')
      BY <2>2, JoinsEmpty
    <2> QED BY <1>1, <1>3, <1>4, <2>2, <2>3 DEF Sync
  <1>6. OneCommand'
    <2>1. ASSUME pc' # "idle", clean', phase' # "gone"
          PROVE  phase' = "header" /\ n' = APDU_HEADER_SIZE
      BY <1>1, <1>3, <2>1, Silent DEF CardView, Start, At
    <2> QED BY <1>1, <1>2, <2>1 DEF OneCommand
  <1>7. Reported'
    BY <1>1, <1>2 DEF LInv, Reported, OwnResponse, Failed
  <1>8. LinkTyped'
    BY <1>1 DEF LInv, LinkTyped
  <1> QED BY <1>5, <1>6, <1>7, <1>8 DEF LInv

(* The card hears what is written while it waits for it. *)
LEMMA HeardInStep ==
  ASSUME ISOCommands, IInv, LInv, Write, CardHears, clean, phase # "gone",
         UNCHANGED <<apdu, clean>>
  PROVE  /\ CardView' = Onward'
         /\ (phase' = "header" /\ n' = APDU_HEADER_SIZE) \/ heard' = cmd'
         /\ phase' \in Phases
  <1>1. pc = "write" /\ nc' = nc /\ ne' = ne /\ left' = left /\ size' = size /\ cmd' = cmd
    BY DEF Write
  <1>2. CardView = Onward
    BY <1>1, Silent DEF DriverView
  <1>3. (phase = "header" /\ n = APDU_HEADER_SIZE) \/ heard = cmd
    BY <1>1 DEF LInv, OneCommand
  <1>4. hdr \in Nat /\ burst \in Nat /\ hdr + burst > 0 /\ (hdr > 0 => left = nc /\ burst = 0 /\ size = 0)
    BY <1>1 DEF IInv, TypeOK, CommandSentOnce, Sending, ResponseFitsBuffer, Accounts
  <1>5. CASE hdr > 0
    <2>1. phase = "header" /\ n = hdr
      BY <1>2, <1>5 DEF CardView, Onward, At
    <2>2. HearsHeader
      BY <2>1 DEF CardHears, HearsData, HearsNothing, Sender
    <2>3. hdr' = hdr - 1 /\ burst' = 0
      BY <1>4, <1>5 DEF Write
    <2>4. CASE n > 1
      <3>1. n' = n - 1 /\ phase' = "header" /\ heard' = IF n = APDU_HEADER_SIZE THEN cmd ELSE heard
        BY <2>1, <2>2, <2>4 DEF HearsHeader
      <3> QED BY <1>1, <1>3, <1>4, <2>1, <2>3, <2>4, <3>1 DEF CardView, Onward, At, Phases
    <2>5. CASE ~(n > 1)
      <3>1. n = 1 /\ hdr = 1 /\ heard = cmd /\ HeaderOfOneCommand
        BY <1>3, <1>4, <1>5, <2>1, <2>5 DEF HeaderOfOneCommand, APDU_HEADER_SIZE
      <3>2. /\ phase' = "proc" /\ heard' = heard
            /\ in' = (IF TakesData THEN apdu.p3 ELSE 0)
            /\ out' = (IF GivesData THEN DataGiven ELSE 0)
        BY <2>2, <3>1 DEF HearsHeader, APDU_HEADER_SIZE
      <3>3. nc = Nc(apdu) /\ ne = Ne(apdu) /\ apdu \in Apdus
        BY <1>1 DEF LInv, OneCommand, LinkTyped
      <3>4. apdu \in [tx_len : Nat, p3 : 0..MaxNe-1, le : 0..MaxNe-1, rx_len : Nat]
        BY <3>3, T0Assumption
      <3>5. in' = left
        BY <1>4, <1>5, <3>2, <3>3 DEF Nc, TakesData
      <3>6. out' = Room'
        <4>1. Room' = IF nc = 0 THEN ne ELSE 0
          BY <1>1, <1>4, <1>5 DEF Room, free_space, capacity, IInv, TypeOK
        <4>2. CASE apdu.tx_len = APDU_HEADER_SIZE
          BY <3>2, <3>3, <3>4, <4>1, <4>2
          DEF Nc, Ne, le_to_ne, GivesData, DataGiven, APDU_HEADER_SIZE
        <4>3. CASE apdu.tx_len > APDU_HEADER_SIZE
          BY <3>2, <3>3, <3>4, <4>1, <4>3 DEF ISOCommands, Nc, GivesData, APDU_HEADER_SIZE
        <4>4. CASE apdu.tx_len < APDU_HEADER_SIZE
          BY <3>2, <3>3, <3>4, <4>1, <4>4 DEF Nc, Ne, GivesData, APDU_HEADER_SIZE
        <4> QED BY <3>4, <4>2, <4>3, <4>4 DEF APDU_HEADER_SIZE
      <3>7. Onward' = At("proc", 0, left, Room')
        BY <1>1, <2>3, <3>1 DEF Onward
      <3> QED BY <1>1, <3>1, <3>2, <3>5, <3>6, <3>7 DEF CardView, Phases
    <2> QED BY <2>4, <2>5
  <1>6. CASE hdr = 0
    <2>1. phase = "datain" /\ n = burst /\ in = left /\ out = Room /\ burst > 0
      BY <1>2, <1>4, <1>6 DEF CardView, Onward, At
    <2>2. HearsData
      BY <2>1 DEF CardHears, HearsHeader, HearsNothing, Sender
    <2>3. hdr' = 0 /\ burst' = burst - 1 /\ Room' = Room
      BY <1>1, <1>6 DEF Write, Room, free_space, capacity
    <2>4. heard' = cmd'
      BY <1>1, <1>3, <2>1, <2>2 DEF HearsData
    <2>5. CASE n = 1
      <3>1. phase' = "proc" /\ in' = in /\ out' = out
        BY <2>2, <2>5 DEF HearsData
      <3> QED BY <1>1, <2>1, <2>3, <2>4, <2>5, <3>1 DEF CardView, Onward, At, Phases
    <2>6. CASE n # 1
      <3>1. phase' = "datain" /\ n' = n - 1 /\ in' = in /\ out' = out
        BY <2>2, <2>6 DEF HearsData
      <3> QED BY <1>1, <1>4, <2>1, <2>3, <2>4, <2>6, <3>1 DEF CardView, Onward, At, Phases
    <2> QED BY <2>5, <2>6
  <1> QED BY <1>4, <1>5, <1>6

LEMMA WriteInStep ==
  ASSUME ISOCommands, IInv, IInv', LInv, LinkWrite
  PROVE  LInv'
  <1>1. Write /\ CardHears /\ UNCHANGED <<apdu, clean, faults>> /\ UNCHANGED <<nc, ne, result, intact, cmd>>
        /\ pc = "write" /\ pc' = "echo"
    BY DEF LinkWrite, Write
  <1>2. phase = "gone" => phase' = "gone"
    BY <1>1 DEF CardHears, HearsHeader, HearsData, HearsNothing, Sender, cardVars
  <1>3. ASSUME clean, phase # "gone"
        PROVE  /\ CardView' = Onward'
               /\ (phase' = "header" /\ n' = APDU_HEADER_SIZE) \/ heard' = cmd'
               /\ phase' \in Phases
    BY <1>1, <1>3, HeardInStep
  <1>4. phase' \in Phases \cup {"gone"}
    <2>1. phase \in Phases \cup {"gone"}
      BY DEF LInv, LinkTyped
    <2> QED BY <1>1, <2>1
        DEF CardHears, HearsHeader, HearsData, HearsNothing, cardVars, Phases
  <1>5. Sync'
    <2>1. SUFFICES ASSUME clean PROVE Sync'
      BY <1>1 DEF Sync
    <2> DEFINE b == [v |-> "other", role |-> "echo", cmd |-> cmd]
    <2>2. rx = <<>> /\ rx' = Append(rx, b)
      BY <1>1, <2>1, Silent DEF Write
    <2>3. DriverView' = Awaiting(Onward') /\ Onward' \in View /\ ~Onward'.echo /\ DriverView' \in View
      BY <1>1, DriverViewTypedNext DEF DriverView, ViewsTyped
    <2>4. b \in Byte
      BY DEF IInv, TypeOK, Byte, Classes
    <2>5. Reads(DriverView', b, Onward')
      BY <2>3 DEF Reads, Awaiting, View
    <2>6. Joins(DriverView', <<>>, DriverView', cmd)
      BY <2>3, JoinsEmpty
    <2>7. <<>> \in Seq(Byte)
      BY EmptySeq
    <2>8. Joins(DriverView', rx', Onward', cmd')
      BY <1>1, <2>2, <2>3, <2>4, <2>5, <2>6, <2>7, JoinsAppend
    <2>9. phase' # "gone" => Onward' = CardView'
      BY <1>2, <1>3, <2>1
    <2> QED BY <2>3, <2>8, <2>9 DEF Sync
  <1>6. OneCommand'
    BY <1>1, <1>2, <1>3 DEF LInv, OneCommand
  <1>7. Reported'
    <2>1. faults = {} => phase' # "gone"
      BY <1>3 DEF LInv, Reported, Phases
    <2> QED BY <1>1, <2>1 DEF LInv, Reported, OwnResponse, Failed
  <1> QED BY <1>1, <1>4, <1>5, <1>6, <1>7 DEF LInv, LinkTyped

(* The driver takes the byte it reads for what its sender meant by it, and *)
(* goes on to where the byte leads.                                        *)
ReadAsMeant(u) ==
  DriverView' = u /\ intact' = intact /\ (pc' = "idle" => result' = "ok")

LEMMA EchoAsMeant ==
  ASSUME IInv, ReadEcho, NEW u, Reads(DriverView, Head(rx), u), Head(rx).cmd = cmd
  PROVE  ReadAsMeant(u)
  <1>1. pc = "echo" /\ DriverView = Awaiting(Onward) /\ Onward \in View /\ ~Onward.echo
    BY DriverViewTyped DEF ReadEcho, ViewsTyped, DriverView
  <1>2. Head(rx).role = "echo" /\ u = [Awaiting(Onward) EXCEPT !.echo = FALSE]
    BY <1>1 DEF Reads, Awaiting, View
  <1>3. u = Onward
    BY <1>1, <1>2 DEF Awaiting, View
  <1>4. intact' = intact /\ Onward' = Onward
    BY <1>2 DEF ReadEcho, Meant, IInv, TypeOK, Onward, Room, free_space, capacity
  <1>5. CASE Sending > 0
    BY <1>3, <1>4, <1>5 DEF ReadEcho, ReadAsMeant, DriverView
  <1>6. CASE ~(Sending > 0)
    <2>1. hdr = 0 /\ burst = 0
      BY <1>6 DEF Sending, IInv, TypeOK
    <2>2. pc' = "proc" /\ UNCHANGED <<left, nc, ne, size>>
      BY <1>6 DEF ReadEcho
    <2>3. DriverView' = Onward
      BY <2>1, <2>2 DEF DriverView, Onward, Room, free_space, capacity
    <2> QED BY <1>3, <1>4, <2>2, <2>3 DEF ReadAsMeant
  <1> QED BY <1>5, <1>6

(* The data that a procedure byte asks for or announces. *)
LEMMA TransferAsMeant ==
  ASSUME IInv, pc = "proc", NEW k \in Nat \ {0}, k <= left + Room, NEW u,
         ReadsTransfer(DriverView, k, u),
         left > 0 => Sends(k),
         left = 0 => Receives(k)
  PROVE  DriverView' = u /\ pc' # "idle"
  <1>1. /\ Room \in Nat /\ left \in Nat /\ (Room = 0 \/ left = 0)
        /\ hdr = 0 /\ size \in Nat /\ ne \in Nat
        /\ DriverView = At("proc", 0, left, Room)
    BY DriverViewTyped
    DEF ViewsTyped, DriverView, IInv, TypeOK, CommandSentOnce, Sending
  <1>2. CASE left > 0
    <2>1. u = At("datain", k, left - k, Room)
      BY <1>1, <1>2 DEF ReadsTransfer, At
    <2>2. pc' = "write" /\ left' = left - k /\ burst' = k /\ UNCHANGED <<nc, ne, hdr, size>>
      BY <1>2 DEF Sends, Popped
    <2> QED BY <1>1, <2>1, <2>2 DEF DriverView, Onward, Room, free_space, capacity
  <1>3. CASE left = 0
    <2>1. u = At("dataout", k, 0, Room - k)
      BY <1>1, <1>3 DEF ReadsTransfer, At
    <2>2. nc = 0 /\ free_space - 2 = Room /\ Room > 0
      BY <1>1, <1>3 DEF Room
    <2>3. ~NoRoomForData
      BY <1>1, <2>2 DEF NoRoomForData, free_space, capacity
    <2>4. pc' = "data" /\ size' = size + k /\ need' = k /\ UNCHANGED <<nc, ne, left>>
      BY <1>3, <2>3 DEF Receives
    <2>5. Room' = Room - k
      BY <1>1, <2>2, <2>4 DEF Room, free_space, capacity
    <2> QED BY <1>3, <2>1, <2>4, <2>5 DEF DriverView
  <1> QED BY <1>1, <1>2, <1>3

LEMMA ProcAsMeant ==
  ASSUME IInv, ReadProc, NEW u, Reads(DriverView, Head(rx), u), Head(rx).cmd = cmd
  PROVE  ReadAsMeant(u)
  <1> DEFINE b == Head(rx)
  <1>1. /\ pc = "proc" /\ DriverView = At("proc", 0, left, Room)
        /\ intact' = (intact /\ Meant(b, IF b.v = "sw" THEN "sw1" ELSE "proc"))
        /\ ProcIgnored(b) \/ ProcSw1(b) \/ ProcAck(b) \/ ProcNack(b)
    BY DEF ReadProc, DriverView
  <1>2. /\ Room \in Nat /\ left \in Nat /\ (Room = 0 \/ left = 0) /\ free_space >= 2
        /\ free_space \in Int /\ intact \in BOOLEAN
    BY <1>1, DriverViewTyped DEF ViewsTyped, IInv, TypeOK, ResponseFitsBuffer, free_space, capacity
  <1>3. \/ b.role = "proc" /\ b.v = "null" /\ u = DriverView
        \/ b.role = "proc" /\ b.v = "ack" /\ left + Room > 0 /\ ReadsTransfer(DriverView, left + Room, u)
        \/ b.role = "proc" /\ b.v = "nack" /\ left + Room > 0 /\ ReadsTransfer(DriverView, 1, u)
        \/ b.role = "sw1" /\ b.v = "sw" /\ u = At("sw2", 0, 0, 0)
    BY <1>1 DEF Reads, At
  <1>4. intact' = intact
    BY <1>1, <1>2, <1>3 DEF Meant
  <1>5. CASE b.v = "null"
    <2>1. ProcIgnored(b) /\ u = DriverView
      BY <1>1, <1>3, <1>5 DEF ProcSw1, ProcAck, ProcNack
    <2>2. pc' = "proc" /\ UNCHANGED <<left, nc, ne, size>>
      BY <1>1, <2>1 DEF ProcIgnored
    <2>3. DriverView' = DriverView
      BY <1>1, <2>2 DEF DriverView, Room, free_space, capacity
    <2> QED BY <1>4, <2>1, <2>2, <2>3 DEF ReadAsMeant
  <1>6. CASE b.v = "ack"
    <2>1. ProcAck(b) /\ left + Room > 0 /\ ReadsTransfer(DriverView, left + Room, u)
      BY <1>1, <1>3, <1>6 DEF ProcSw1, ProcIgnored, ProcNack
    <2>2. left > 0 => Sends(left + Room)
      <3>1. left > 0 => left + Room = left
        BY <1>2
      <3> QED BY <2>1, <3>1 DEF ProcAck, DataToSend, AllData
    <2>3. left = 0 => Receives(left + Room)
      <3>1. left = 0 => left + Room = free_space - 2
        BY <1>2, <2>1 DEF Room
      <3> QED BY <2>1, <3>1 DEF ProcAck, DataToSend
    <2>4. DriverView' = u /\ pc' # "idle"
      BY <1>1, <1>2, <2>1, <2>2, <2>3, TransferAsMeant
    <2> QED BY <1>4, <2>4 DEF ReadAsMeant
  <1>7. CASE b.v = "nack"
    <2>1. ProcNack(b) /\ left + Room > 0 /\ ReadsTransfer(DriverView, 1, u)
      BY <1>1, <1>3, <1>7 DEF ProcSw1, ProcIgnored, ProcAck
    <2>2. (left > 0 => Sends(1)) /\ (left = 0 => Receives(1))
      BY <2>1 DEF ProcNack, DataToSend
    <2>3. DriverView' = u /\ pc' # "idle"
      BY <1>1, <1>2, <2>1, <2>2, TransferAsMeant
    <2> QED BY <1>4, <2>3 DEF ReadAsMeant
  <1>8. CASE b.v = "sw"
    <2>1. ProcSw1(b) /\ u = At("sw2", 0, 0, 0)
      BY <1>1, <1>3, <1>8 DEF ProcIgnored, ProcAck, ProcNack
    <2>2. pc' = "sw2"
      BY <1>2, <2>1 DEF ProcSw1
    <2> QED BY <1>4, <2>1, <2>2 DEF ReadAsMeant, DriverView
  <1> QED BY <1>3, <1>5, <1>6, <1>7, <1>8

LEMMA DataAsMeant ==
  ASSUME IInv, ReadData \/ ReadSw2, NEW u, Reads(DriverView, Head(rx), u), Head(rx).cmd = cmd
  PROVE  ReadAsMeant(u)
  <1>1. CASE ReadData
    <2>1. DriverView = At("dataout", need, left, Room)
      BY <1>1 DEF ReadData, DriverView
    <2>2. Head(rx).role = "data"
          /\ u = IF need = 1 THEN At("proc", 0, left, Room) ELSE At("dataout", need - 1, left, Room)
      BY <2>1 DEF Reads, At
    <2>3. UNCHANGED <<left, nc, ne, size>> /\ need' = need - 1
          /\ pc' = IF need = 1 THEN "proc" ELSE "data"
      BY <1>1 DEF ReadData
    <2>4. intact' = intact
      <3>1. intact' = (intact /\ Meant(Head(rx), "data")) /\ intact \in BOOLEAN
        BY <1>1 DEF ReadData, IInv, TypeOK
      <3> QED BY <2>2, <3>1 DEF Meant
    <2> QED BY <2>2, <2>3, <2>4 DEF ReadAsMeant, DriverView, Room, free_space, capacity
  <1>2. CASE ReadSw2
    <2>1. DriverView = At("sw2", 0, 0, 0)
      BY <1>2 DEF ReadSw2, DriverView
    <2>2. Head(rx).role = "sw2" /\ u = Start
      BY <2>1 DEF Reads, At
    <2> QED BY <1>2, <2>2 DEF ReadSw2, Meant, IInv, TypeOK, ReadAsMeant, DriverView
  <1> QED BY <1>1, <1>2

LEMMA ReadsInStep ==
  ASSUME IInv, LInv, LinkReads
  PROVE  LInv'
  <1>1. DriverReads /\ rx # <<>> /\ rx' = Tail(rx) /\ pc # "idle"
        /\ UNCHANGED <<nc, ne, cmd>> /\ rx \in Seq(Byte)
    BY DEF LinkReads, DriverReads, ReadEcho, EchoRead, ReadProc, ReadData, ReadSw2, ProcIgnored,
           ProcSw1, ProcAck, ProcNack, Sends, Receives, Fails, IInv, TypeOK
  <1>2. /\ UNCHANGED <<cardVars, apdu, faults>>
        /\ clean' = (clean /\ ~(pc' = "idle" /\ Failed(result')))
    BY DEF LinkReads, Quiet
  <1>3. CardView' = CardView /\ UNCHANGED <<phase, n, heard>>
    BY <1>2 DEF CardView, cardVars
  <1>4. ASSUME clean
        PROVE  /\ \E w \in View : Joins(DriverView', Tail(rx), w, cmd) /\ (phase # "gone" => w = CardView)
               /\ intact' = intact /\ (pc' = "idle" => result' = "ok")
    <2>1. PICK w \in View : Joins(DriverView, rx, w, cmd) /\ (phase # "gone" => w = CardView)
      BY <1>4 DEF LInv, Sync
    <2>2. PICK u \in View : Reads(DriverView, Head(rx), u) /\ Joins(u, Tail(rx), w, cmd)
      BY <1>1, <2>1, JoinsHead
    <2>3. Head(rx).cmd = cmd
      BY <1>1, <2>1, JoinsHead
    <2>4. ReadAsMeant(u)
      BY <1>1, <2>2, <2>3, EchoAsMeant, ProcAsMeant, DataAsMeant DEF DriverReads
    <2> QED BY <2>1, <2>2, <2>4 DEF ReadAsMeant
  <1>5. clean' = clean
    BY <1>2, <1>4 DEF Failed, LInv, LinkTyped
  <1>6. Sync'
    BY <1>1, <1>3, <1>4, <1>5 DEF Sync
  <1>7. OneCommand'
    BY <1>1, <1>2, <1>3, <1>5 DEF LInv, OneCommand, Nc, Ne
  <1>8. Reported'
    <2>1. clean => intact /\ intact'
      BY <1>1, <1>4 DEF LInv, Reported
    <2>2. faults = {} => ~Failed(result')
      <3>1. faults = {} => clean /\ ~Failed(result)
        BY DEF LInv, Reported
      <3>2. pc' # "idle" => result' = result
        BY <1>1 DEF DriverReads, ReadEcho, ReadProc, ReadData, ReadSw2, ProcIgnored, ProcSw1,
                    ProcAck, ProcNack, Sends, Receives, Fails
      <3> QED BY <1>4, <3>1, <3>2 DEF Failed
    <2>3. ResetsAfterError => clean
      BY <1>1 DEF LInv, Reported
    <2> QED BY <1>1, <1>2, <1>3, <1>5, <2>1, <2>2, <2>3 DEF LInv, Reported, OwnResponse
  <1>9. LinkTyped'
    BY <1>2, <1>3, <1>5 DEF LInv, LinkTyped
  <1> QED BY <1>6, <1>7, <1>8, <1>9 DEF LInv

(* What fails, failed for a reason: the card kept silent for too long, or  *)
(* was not there, or the port was at fault.                                *)
LEMMA FailureInStep ==
  ASSUME IInv, LInv, LinkTimesOut \/ LinkFails
  PROVE  LInv'
  <1>1. IoFails /\ Quiet
    BY DEF LinkTimesOut, TimesOut, LinkFails
  <1>2. pc' = "idle" /\ result' = "communication_error" /\ UNCHANGED <<phase, apdu, faults>>
    BY <1>1 DEF IoFails, Fails, Quiet, cardVars
  <1>3. ~clean' /\ Failed(result') /\ clean' \in BOOLEAN
    BY <1>1, <1>2 DEF Quiet, Failed, LInv, LinkTyped
  <1>4. faults # {}
    <2>1. CASE LinkFails
      BY <2>1 DEF LinkFails
    <2>2. CASE LinkTimesOut
      <3>1. SUFFICES ASSUME faults = {} PROVE FALSE
        OBVIOUS
      <3>2. clean /\ phase # "gone" /\ phase \notin Sender
        BY <2>2, <3>1 DEF LinkTimesOut, LInv, Reported
      <3>3. PICK w \in View : Joins(DriverView, rx, w, cmd) /\ w = CardView
        BY <3>2 DEF LInv, Sync
      <3>4. rx \in Seq(Byte) /\ rx = <<>> /\ pc # "write" /\ pc # "idle"
        BY <2>2 DEF LinkTimesOut, TimesOut, IoFails, IInv, TypeOK
      <3>5. DriverView = CardView
        BY <3>3, <3>4, JoinsEnds
      <3>6. ~CardView.echo /\ CardView.phase \in {"header", "datain"}
        BY <3>2 DEF CardView, At, Sender, LInv, LinkTyped, Phases
      <3>7. pc # "echo"
        <4>1. SUFFICES ASSUME pc = "echo" PROVE FALSE
          OBVIOUS
        <4>2. DriverView = Awaiting(Onward) /\ Onward \in View
          BY <4>1, DriverViewTyped DEF DriverView, ViewsTyped
        <4>3. DriverView.echo
          BY <4>2 DEF Awaiting, View
        <4> QED BY <3>5, <3>6, <4>3
      <3> QED BY <3>4, <3>5, <3>6, <3>7 DEF DriverView, At, IInv, TypeOK
    <2> QED BY <2>1, <2>2
  <1>5. Sync' /\ OneCommand' /\ LinkTyped'
    BY <1>2, <1>3 DEF Sync, OneCommand, LinkTyped, LInv
  <1>6. Reported'
    BY <1>2, <1>3, <1>4 DEF Reported, OwnResponse
  <1> QED BY <1>5, <1>6 DEF LInv

(* Each byte the card sends says where it goes next. *)
CardSends == SendsNull \/ SendsAck \/ SendsNack \/ SendsData \/ SendsSw1 \/ SendsSw2

LEMMA SentAsMeant ==
  ASSUME CardSends
  PROVE  /\ phase \in Sender /\ phase' \in Phases /\ heard' = heard
         /\ \E b \in Incoming :
              /\ Arrives(b) /\ b.cmd = heard
              /\ CardView \in View => CardView' \in View /\ Reads(CardView, b, CardView')
  <1>1. CASE SendsNull
    <2>1. phase = "proc" /\ UNCHANGED <<phase, n, in, out, heard>>
      BY <1>1 DEF SendsNull, cardVars
    <2>2. CardView' = CardView /\ CardView = At("proc", 0, in, out)
      BY <2>1 DEF CardView
    <2>3. \A b : b.role = "proc" /\ b.v = "null" => Reads(CardView, b, CardView')
      BY <2>2 DEF Reads, At
    <2> QED BY <1>1, <2>1, <2>2, <2>3 DEF SendsNull, SendsByte, Sender, Phases
  <1>2. ASSUME NEW k, phase = "proc", Transfers(k), k = in + out \/ k = 1
        PROVE  /\ phase' \in Phases
               /\ CardView \in View => /\ CardView' \in View /\ in + out > 0
                                       /\ ReadsTransfer(CardView, k, CardView')
    <2>1. CardView = At("proc", 0, in, out) /\ CardView' = At(phase', n', in', out')
          /\ phase' \in {"datain", "dataout"}
      BY <1>2 DEF CardView, Transfers
    <2>2. SUFFICES ASSUME CardView \in View
                   PROVE  CardView' \in View /\ in + out > 0 /\ ReadsTransfer(CardView, k, CardView')
      BY <2>1 DEF Phases
    <2>3. in \in Nat /\ out \in Nat /\ (in = 0 \/ out = 0)
      BY <2>1, <2>2 DEF View, At
    <2>4. CASE in > 0
      <3>1. out = 0 /\ phase' = "datain" /\ n' = k /\ in' = in - k /\ out' = out /\ in >= k /\ k \in Nat \ {0}
        BY <1>2, <2>3, <2>4 DEF Transfers
      <3> QED BY <2>1, <2>3, <2>4, <3>1 DEF ReadsTransfer, At, View, Phases
    <2>5. CASE in = 0
      <3>1. out > 0 /\ phase' = "dataout" /\ n' = k /\ out' = out - k /\ in' = in /\ out >= k /\ k \in Nat \ {0}
        BY <1>2, <2>3, <2>5 DEF Transfers
      <3> QED BY <2>1, <2>3, <2>5, <3>1 DEF ReadsTransfer, At, View, Phases
    <2> QED BY <2>3, <2>4, <2>5
  <1>3. CASE SendsAck
    <2>1. phase = "proc" /\ Transfers(in + out) /\ heard' = heard
      BY <1>3 DEF SendsAck
    <2>2. CardView = At("proc", 0, in, out)
      BY <2>1 DEF CardView
    <2>3. \A b : b.role = "proc" /\ b.v = "ack" /\ in + out > 0 /\ ReadsTransfer(CardView, in + out, CardView')
                 => Reads(CardView, b, CardView')
      BY <2>2 DEF Reads, At
    <2> QED BY <1>2, <1>3, <2>1, <2>3 DEF SendsAck, SendsByte, Sender
  <1>4. CASE SendsNack
    <2>1. phase = "proc" /\ Transfers(1) /\ heard' = heard
      BY <1>4 DEF SendsNack
    <2>2. CardView = At("proc", 0, in, out)
      BY <2>1 DEF CardView
    <2>3. \A b : b.role = "proc" /\ b.v = "nack" /\ in + out > 0 /\ ReadsTransfer(CardView, 1, CardView')
                 => Reads(CardView, b, CardView')
      BY <2>2 DEF Reads, At
    <2> QED BY <1>2, <1>4, <2>1, <2>3 DEF SendsNack, SendsByte, Sender
  <1>5. CASE SendsData
    <2>1. phase = "dataout" /\ n' = n - 1 /\ phase' = (IF n = 1 THEN "proc" ELSE "dataout")
          /\ UNCHANGED <<in, out, heard>>
      BY <1>5 DEF SendsData
    <2>2. CardView = At("dataout", n, in, out)
          /\ CardView' = IF n = 1 THEN At("proc", 0, in, out) ELSE At("dataout", n - 1, in, out)
      BY <2>1 DEF CardView
    <2>3. CardView \in View => CardView' \in View
      BY <2>2 DEF View, At, Phases
    <2>4. \A b : b.role = "data" => Reads(CardView, b, CardView')
      BY <2>2 DEF Reads, At
    <2> QED BY <1>5, <2>1, <2>3, <2>4 DEF SendsData, SendsByte, Sender, Phases
  <1>6. CASE SendsSw1
    <2>1. phase = "proc" /\ phase' = "sw2" /\ heard' = heard
      BY <1>6 DEF SendsSw1
    <2>2. CardView = At("proc", 0, in, out) /\ CardView' = At("sw2", 0, 0, 0)
      BY <2>1 DEF CardView
    <2>3. CardView' \in View
      BY <2>2 DEF View, At, Phases
    <2>4. \A b : b.role = "sw1" /\ b.v = "sw" => Reads(CardView, b, CardView')
      BY <2>2 DEF Reads, At
    <2> QED BY <1>6, <2>1, <2>3, <2>4 DEF SendsSw1, SendsByte, Sender, Phases
  <1>7. CASE SendsSw2
    <2>1. phase = "sw2" /\ phase' = "header" /\ n' = APDU_HEADER_SIZE /\ heard' = heard
      BY <1>7 DEF SendsSw2
    <2>2. CardView = At("sw2", 0, 0, 0) /\ CardView' = Start
      BY <2>1 DEF CardView, Start
    <2>3. CardView' \in View
      BY <2>2 DEF View, At, Start, Phases, APDU_HEADER_SIZE
    <2>4. \A b : b.role = "sw2" => Reads(CardView, b, CardView')
      BY <2>2 DEF Reads, At
    <2> QED BY <1>7, <2>1, <2>3, <2>4 DEF SendsSw2, SendsByte, Sender, Phases
  <1> QED BY <1>1, <1>3, <1>4, <1>5, <1>6, <1>7 DEF CardSends

LEMMA SendingInStep ==
  ASSUME IInv, LInv, CardSends, UNCHANGED <<apdu, clean, faults>>
  PROVE  LInv'
  <1>1. PICK b \in Incoming :
          /\ Arrives(b) /\ b.cmd = heard
          /\ CardView \in View => CardView' \in View /\ Reads(CardView, b, CardView')
    BY SentAsMeant
  <1>2. phase \in Sender /\ phase' \in Phases /\ heard' = heard
    BY SentAsMeant
  <1>3. phase # "gone" /\ phase' # "gone" /\ phase # "header"
    BY <1>2 DEF Sender, Phases
  <1>4. UNCHANGED driver /\ rx' = Append(rx, b)
    BY <1>1 DEF Arrives
  <1>5. DriverView' = DriverView
    BY <1>4 DEF driver, DriverView, Onward, Room, free_space, capacity
  <1>6. Sync'
    <2>1. SUFFICES ASSUME clean PROVE Sync'
      BY DEF Sync
    <2>2. CardView \in View /\ Joins(DriverView, rx, CardView, cmd)
      BY <1>3, <2>1 DEF LInv, Sync
    <2>3. b \in Byte /\ b.cmd = cmd /\ rx \in Seq(Byte)
      BY <1>1, <1>2, <2>1, CardSpeaks, T0Assumption DEF IInv, TypeOK
    <2>4. Joins(DriverView, rx', CardView', cmd)
      BY <1>1, <1>4, <2>2, <2>3, JoinsAppend
    <2> QED BY <1>1, <1>4, <1>5, <2>2, <2>4 DEF Sync, driver
  <1>7. OneCommand'
    BY <1>2, <1>3, <1>4 DEF LInv, OneCommand, driver
  <1>8. Reported'
    BY <1>3, <1>4 DEF LInv, Reported, OwnResponse, driver
  <1> QED BY <1>2, <1>6, <1>7, <1>8 DEF LInv, LinkTyped

LEMMA LeavingInStep ==
  ASSUME IInv, LInv, CardLeaves \/ UNCHANGED linkVars
  PROVE  LInv'
  <1>1. UNCHANGED <<driver, rx, n, heard, apdu, clean, faults>>
        /\ \/ phase' = "gone" /\ faults # {}
           \/ phase' = phase /\ UNCHANGED cardVars
    BY DEF CardLeaves, linkVars, cardVars, vars
  <1>2. DriverView' = DriverView /\ cmd' = cmd
    BY <1>1 DEF driver, DriverView, Onward, Room, free_space, capacity
  <1>3. phase' # "gone" => phase # "gone" /\ CardView' = CardView
    BY <1>1 DEF CardView, cardVars
  <1>4. Sync'
    BY <1>1, <1>2, <1>3 DEF LInv, Sync
  <1>5. OneCommand' /\ Reported' /\ LinkTyped'
    BY <1>1, <1>3 DEF LInv, OneCommand, Reported, OwnResponse, LinkTyped, driver, Nc, Ne
  <1> QED BY <1>4, <1>5 DEF LInv

LEMMA ResetInStep ==
  ASSUME IInv, LInv, Reset
  PROVE  LInv'
  <1>1. /\ pc = "idle" /\ rx' = <<>> /\ UNCHANGED <<driver, apdu, faults>> /\ clean'
        /\ phase' = "header" /\ n' = APDU_HEADER_SIZE
    BY DEF Reset, NoCommandRuns, FlushedQueue
  <1>2. DriverView' = Start /\ CardView' = Start /\ Start \in View
    BY <1>1 DEF driver, DriverView, CardView, Start, View, At, Phases, APDU_HEADER_SIZE
  <1>3. Sync'
    <2>1. Joins(Start, <<>>, Start, cmd')
      BY <1>2, JoinsEmpty
    <2> QED BY <1>1, <1>2, <2>1 DEF Sync
  <1>4. OneCommand'
    BY <1>1 DEF OneCommand, driver
  <1>5. Reported'
    BY <1>1 DEF LInv, Reported, OwnResponse, Failed, driver
  <1>6. LinkTyped'
    <2>1. clean' \in BOOLEAN
      BY DEF Reset
    <2> QED BY <1>1, <2>1 DEF LInv, LinkTyped, Phases
  <1> QED BY <1>3, <1>4, <1>5, <1>6 DEF LInv

LEMMA LInvInit == LinkInit => LInv
  <1> SUFFICES ASSUME LinkInit PROVE LInv
    OBVIOUS
  <1>1. /\ pc = "idle" /\ rx = <<>> /\ phase = "header" /\ n = APDU_HEADER_SIZE
        /\ clean = TRUE /\ apdu \in Apdus /\ result = "none"
    BY DEF LinkInit, Init
  <1>2. DriverView = Start /\ CardView = Start /\ Start \in View
    BY <1>1 DEF DriverView, CardView, Start, View, At, Phases, APDU_HEADER_SIZE
  <1>3. Sync
    BY <1>1, <1>2, JoinsEmpty DEF Sync
  <1> QED BY <1>1, <1>3 DEF LInv, OneCommand, Reported, OwnResponse, Failed, LinkTyped, Phases

LEMMA LInvStep ==
  ASSUME ISOCommands
  PROVE  IInv /\ IInv' /\ LInv /\ [LinkNext]_linkVars => LInv'
  <1> SUFFICES ASSUME IInv, IInv', LInv, [LinkNext]_linkVars PROVE LInv'
    OBVIOUS
  <1>1. ASSUME NEW a \in Apdus, Command(a) PROVE LInv'
    BY <1>1, CommandInStep
  <1>2. CASE LinkWrite
    BY <1>2, WriteInStep
  <1>3. CASE LinkReads
    BY <1>3, ReadsInStep
  <1>4. CASE LinkTimesOut \/ LinkFails
    BY <1>4, FailureInStep
  <1>5. CASE (SendsNull /\ UNCHANGED <<apdu, clean, faults>>) \/ CardAnswers
    BY <1>5, SendingInStep DEF CardAnswers, CardSends
  <1>6. CASE CardLeaves \/ UNCHANGED linkVars
    BY <1>6, LeavingInStep
  <1>7. CASE Reset
    BY <1>7, ResetInStep
  <1> QED BY <1>1, <1>2, <1>3, <1>4, <1>5, <1>6, <1>7 DEF LinkNext

LEMMA LinkInvariance ==
  ASSUME ISOCommands
  PROVE  LinkSpec => [](IInv /\ LInv)
  <1>1. LinkSpec => []IInv
    BY LinkImplementsExchange, Invariance, PTL DEF OpenLine
  <1>2. LinkInit => LInv
    BY LInvInit
  <1>3. IInv /\ IInv' /\ LInv /\ [LinkNext]_linkVars => LInv'
    BY LInvStep
  <1> QED BY <1>1, <1>2, <1>3, PTL DEF LinkSpec

(* At every point where nothing is under way on the line, the card waits   *)
(* for what the driver is about to write, and has left what the driver     *)
(* still has to send or has room for; between two commands the line is     *)
(* silent.  So it is for every length of data and of response, however far *)
(* the card runs ahead of the driver, as long as no command has failed.    *)
THEOREM EndsInStep ==
  ASSUME ISOCommands
  PROVE  LinkSpec => []InStep
  <1>1. IInv /\ LInv => InStep
    <2> SUFFICES ASSUME IInv, LInv, clean, phase # "gone"
                 PROVE  InStep
      BY DEF InStep
    <2>1. CASE pc \in {"idle", "write"}
      <3>1. rx = <<>> /\ CardView = DriverView
        BY <2>1, Silent
      <3>2. pc = "idle" => phase = "header" /\ n = APDU_HEADER_SIZE
        BY <3>1 DEF CardView, DriverView, Start, At
      <3>3. pc = "write" => n = Sending /\ phase = IF hdr > 0 THEN "header" ELSE "datain"
        <4>1. pc = "write" => hdr \in Nat /\ burst \in Nat /\ hdr + burst > 0 /\ (hdr > 0 => burst = 0)
          BY DEF IInv, TypeOK, CommandSentOnce, Sending
        <4> QED BY <3>1, <4>1 DEF CardView, DriverView, Onward, At, Sending
      <3> QED BY <2>1, <3>1, <3>2, <3>3 DEF InStep
    <2>2. CASE pc \notin {"idle", "write"}
      <3>1. rx = <<>> => DriverView = CardView
        BY JoinsEnds DEF LInv, Sync, IInv, TypeOK
      <3> QED BY <2>2, <3>1 DEF InStep, CardView, DriverView, At, Room
    <2> QED BY <2>1, <2>2
  <1> QED BY <1>1, LinkInvariance, PTL

(* A caller who resets the reader after an error is never given an answer  *)
(* that is not the card's answer to the command; and with a card that      *)
(* keeps to its waiting time, on a line that works, no command fails.      *)
THEOREM ReportsAreTrue ==
  ASSUME ISOCommands, ResetsAfterError
  PROVE  LinkSpec => []TrueReports
  <1>1. LInv => TrueReports
    BY DEF LInv, Reported, TrueReports, NoFalseAlarm
  <1> QED BY <1>1, LinkInvariance, PTL

(* The byte that sendrecv.c reads and drops after each byte it writes is   *)
(* the echo of that byte, if the caller resets the reader after an error.  *)
(* (Run link_late shows that it need not be, if the caller does not.)      *)
THEOREM EchoesAreOwn ==
  ASSUME ISOCommands, ResetsAfterError
  PROVE  LinkSpec => []EchoIsSynchronous
  <1>1. IInv /\ LInv => EchoIsSynchronous
    <2> SUFFICES ASSUME IInv, LInv, pc = "echo", rx # <<>>
                 PROVE  Meant(Head(rx), "echo")
      BY DEF EchoIsSynchronous
    <2>1. clean /\ rx \in Seq(Byte)
      BY DEF LInv, Reported, IInv, TypeOK
    <2>2. PICK w \in View : Joins(DriverView, rx, w, cmd)
      BY <2>1 DEF LInv, Sync
    <2>3. Head(rx).cmd = cmd /\ \E u \in View : Reads(DriverView, Head(rx), u)
      BY <2>1, <2>2, JoinsHead
    <2>4. DriverView.echo
      BY DriverViewTyped DEF DriverView, ViewsTyped, Awaiting, View
    <2> QED BY <2>3, <2>4 DEF Reads, Meant
  <1> QED BY <1>1, LinkInvariance, PTL
=============================================================================
