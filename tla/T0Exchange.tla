----------------------------- MODULE T0Exchange -----------------------------
(***************************************************************************)
(* t0_transmit_apdu (iso7816_3/apdu_t0.c): one T=0 command after another,  *)
(* byte by byte, over a serial line that echoes what is written, with the  *)
(* two buffer views of utils/buffer_view.c and the byte functions of       *)
(* transport/sendrecv.c.                                                   *)
(*                                                                         *)
(* The other end of the line is left open: in Spec it may send any byte at *)
(* any time, or none; T0Link puts a card there.  Between two commands the  *)
(* reader may be reset, which empties the queue.                           *)
(*                                                                         *)
(* A byte is known by what the procedure-byte loop makes of it: "null" is  *)
(* 0x60, "sw" any other 0x6X and any 0x9X, "ack" the instruction byte,     *)
(* "nack" its complement, "other" the rest.  A data byte may be any of     *)
(* these.  Every byte also carries what its sender meant by it and the     *)
(* number of the command it belongs to, which the code does not see and    *)
(* the properties use.                                                     *)
(***************************************************************************)
EXTENDS Integers, Sequences

CONSTANTS
  MaxNe,       \* APDU_MAX_NE_VALUE, the number of values of a byte (256)
  Apdus,       \* the commands that are tried
  MaxQueue,    \* unread bytes the model lets pile up (a bound)
  Incoming     \* the bytes the other end may send

Classes == {"null", "sw", "ack", "nack", "other"}
Byte == [v : Classes, role : {"echo", "proc", "data", "sw1", "sw2"}, cmd : {0, 1}]

ASSUME T0Assumption ==
  /\ MaxNe \in Nat \ {0}
  /\ Apdus \subseteq [tx_len : Nat, p3 : 0..MaxNe-1, le : 0..MaxNe-1, rx_len : Nat]
  /\ MaxQueue \in Nat \ {0}
  /\ Incoming \subseteq Byte

VARIABLES
  pc,      \* where t0_transmit_apdu is
  nc, ne,  \* command data to send, response data to expect
  hdr,     \* header bytes not yet written
  left,    \* bytes of send_data that have not been popped
  burst,   \* bytes popped from send_data and not yet written
  rxLen,   \* length of the caller's buffer
  size,    \* size of recv_data: bytes stored or reserved
  need,    \* bytes reserved in recv_data and not yet read
  stored,  \* bytes written to the caller's buffer
  intact,  \* every byte read during this command was the one it was taken for
  result,  \* status of the last command
  rx,      \* bytes in the receive queue of the port
  cmd      \* number of the current command, modulo 2

driver == <<pc, nc, ne, hdr, left, burst, rxLen, size, need, stored, intact, result, cmd>>
vars == <<driver, rx>>

APDU_HEADER_SIZE == 5

(* b is a byte of this command that its sender meant in this role *)
Meant(b, role) == b.role = role /\ b.cmd = cmd

Results == {"none", "ok", "invalid_params", "insufficient_buffer",
            "communication_error", "unexpected_card_response"}

(***************************************************************************)
(* The command: its length, its fifth byte (p3) and its last one (le), and *)
(* the length of the buffer the caller passes for the response.            *)
(***************************************************************************)

(* mutant: a length byte of zero means zero *)
LeAsIs(le) == le

le_to_ne(le) == IF le = 0 THEN MaxNe ELSE le

Nc(a) == IF a.tx_len > APDU_HEADER_SIZE THEN a.p3 ELSE 0

Ne(a) ==
  CASE a.tx_len = APDU_HEADER_SIZE -> le_to_ne(a.p3)
    [] a.tx_len > APDU_HEADER_SIZE /\ a.tx_len = APDU_HEADER_SIZE + a.p3 + 1 -> le_to_ne(a.le)
    [] OTHER -> 0

Malformed(a) ==
  \/ a.tx_len < APDU_HEADER_SIZE - 1
  \/ /\ a.tx_len > APDU_HEADER_SIZE
     /\ a.tx_len - APDU_HEADER_SIZE - a.p3 \notin {0, 1}

(* mutant: the two status bytes are forgotten *)
DataFits(a) == a.rx_len >= Ne(a)

ResponseFits(a) == a.rx_len >= Ne(a) + 2

Fails(status) ==
  /\ pc' = "idle" /\ result' = status
  /\ UNCHANGED <<nc, ne, hdr, left, burst, rxLen, size, need, stored, cmd>>

Begin(a) ==
  /\ pc = "idle"
  /\ cmd' = 1 - cmd
  /\ UNCHANGED rx
  /\ IF ~Malformed(a) /\ ResponseFits(a)
     THEN /\ pc' = "write" /\ hdr' = APDU_HEADER_SIZE
          /\ nc' = Nc(a) /\ ne' = Ne(a)
          /\ left' = Nc(a) /\ burst' = 0 /\ rxLen' = a.rx_len
          /\ size' = 0 /\ need' = 0 /\ stored' = 0 /\ intact' = TRUE
          /\ result' = "none"
     ELSE /\ result' = IF Malformed(a) THEN "invalid_params" ELSE "insufficient_buffer"
          /\ UNCHANGED <<pc, nc, ne, hdr, left, burst, rxLen, size, need, stored, intact>>

(***************************************************************************)
(* do_transport_send_byte: one byte is written; the line echoes it; the    *)
(* next byte of the port, whatever it is, is read and dropped.             *)
(***************************************************************************)
Sending == hdr + burst

(* The bytes of a command are what they are; those the driver never looks  *)
(* at again, its echoes, are not told apart.                               *)
Write ==
  /\ pc = "write" /\ Len(rx) < MaxQueue
  /\ rx' = Append(rx, [v |-> "other", role |-> "echo", cmd |-> cmd])
  /\ pc' = "echo"
  /\ IF hdr > 0 THEN hdr' = hdr - 1 /\ UNCHANGED burst
                ELSE burst' = burst - 1 /\ UNCHANGED hdr
  /\ UNCHANGED <<nc, ne, left, rxLen, size, need, stored, intact, result, cmd>>

(* mutant: the echo is left in the queue *)
EchoNotRead == UNCHANGED rx

EchoRead == rx' = Tail(rx)

ReadEcho ==
  /\ pc = "echo" /\ rx # <<>>
  /\ EchoRead
  /\ intact' = (intact /\ Meant(Head(rx), "echo"))
  /\ pc' = IF Sending > 0 THEN "write" ELSE "proc"
  /\ UNCHANGED <<nc, ne, hdr, left, burst, rxLen, size, need, stored, result, cmd>>

(***************************************************************************)
(* t0_transceive_data: the loop over procedure bytes.                      *)
(***************************************************************************)
capacity == ne + 2
free_space == capacity - size

(* mutant: one byte only is kept free for the two status bytes *)
NoRoomForData_OneByte == free_space <= 1

(* mutant: one byte of data is not enough room *)
NoRoomForData_TooEarly == free_space <= 3

NoRoomForData == free_space <= 2

(* mutant: the byte is read, but not removed *)
PeekedOnly(n) == left

Popped(n) == left - n

Sends(n) ==
  /\ pc' = "write" /\ left' = Popped(n) /\ burst' = n
  /\ UNCHANGED <<nc, ne, hdr, rxLen, size, need, stored, result, cmd>>

Receives(n) ==
  IF NoRoomForData
  THEN Fails("unexpected_card_response")
  ELSE /\ pc' = "data" /\ size' = size + n /\ need' = n
       /\ UNCHANGED <<nc, ne, hdr, left, burst, rxLen, stored, result, cmd>>

(* NULL: wait on.  A byte of no meaning is not an error either. *)
ProcIgnored(b) ==
  /\ b.v \in {"null", "other"}
  /\ UNCHANGED <<pc, nc, ne, hdr, left, burst, rxLen, size, need, stored, result, cmd>>

(* SW1 is stored if there is room for it and for SW2 *)
ProcSw1(b) ==
  /\ b.v = "sw"
  /\ IF free_space >= 2
     THEN /\ pc' = "sw2" /\ size' = size + 2 /\ need' = 1
          /\ stored' = stored + 1
          /\ UNCHANGED <<nc, ne, hdr, left, burst, rxLen, result, cmd>>
     ELSE Fails("unexpected_card_response")

AllData == left

(* mutant: a command that expects a response receives first *)
DataToSend_NoResponse == left > 0 /\ ne = 0

DataToSend == left > 0

(* all that is left to send, or all that may be received *)
ProcAck(b) ==
  /\ b.v = "ack"
  /\ IF DataToSend THEN Sends(AllData) ELSE Receives(free_space - 2)

(* one byte *)
ProcNack(b) ==
  /\ b.v = "nack"
  /\ IF DataToSend THEN Sends(1) ELSE Receives(1)

ReadProc ==
  /\ pc = "proc" /\ rx # <<>>
  /\ rx' = Tail(rx)
  /\ intact' = (intact /\ Meant(Head(rx), IF Head(rx).v = "sw" THEN "sw1" ELSE "proc"))
  /\ LET b == Head(rx) IN ProcIgnored(b) \/ ProcSw1(b) \/ ProcAck(b) \/ ProcNack(b)

ReadData ==
  /\ pc = "data" /\ rx # <<>>
  /\ rx' = Tail(rx) /\ stored' = stored + 1
  /\ intact' = (intact /\ Meant(Head(rx), "data"))
  /\ need' = need - 1
  /\ pc' = IF need = 1 THEN "proc" ELSE "data"
  /\ UNCHANGED <<nc, ne, hdr, left, burst, rxLen, size, result, cmd>>

ReadSw2 ==
  /\ pc = "sw2" /\ rx # <<>>
  /\ rx' = Tail(rx) /\ stored' = stored + 1
  /\ intact' = (intact /\ Meant(Head(rx), "sw2"))
  /\ need' = 0 /\ pc' = "idle" /\ result' = "ok"
  /\ UNCHANGED <<nc, ne, hdr, left, burst, rxLen, size, cmd>>

(* a write or a read fails, or VTIME passes before there is a byte to read *)
IoFails ==
  /\ pc # "idle"
  /\ Fails("communication_error")
  /\ UNCHANGED <<rx, intact>>

TimesOut == pc # "write" /\ rx = <<>> /\ IoFails

DriverReads == ReadEcho \/ ReadProc \/ ReadData \/ ReadSw2

-----------------------------------------------------------------------------
(* A reset of the reader empties the queue (tcflush). *)
Flush ==
  /\ pc = "idle" /\ rx # <<>>
  /\ rx' = <<>>
  /\ UNCHANGED driver

(* The open end of the line. *)
Arrives(b) ==
  /\ Len(rx) < MaxQueue
  /\ rx' = Append(rx, b)
  /\ UNCHANGED driver

Init ==
  /\ pc = "idle" /\ nc = 0 /\ ne = 0 /\ hdr = 0 /\ left = 0 /\ burst = 0
  /\ rxLen = 2 /\ size = 0 /\ need = 0 /\ stored = 0 /\ intact = TRUE
  /\ result = "none" /\ rx = <<>> /\ cmd = 0

Next ==
  \/ \E a \in Apdus : Begin(a)
  \/ Write
  \/ ReadEcho
  \/ ReadProc
  \/ ReadData
  \/ ReadSw2
  \/ IoFails
  \/ Flush
  \/ \E b \in Incoming : Arrives(b)

Spec == Init /\ [][Next]_vars

-----------------------------------------------------------------------------
(* Properties *)

(* Every variable has its type. *)
TypeOK ==
  /\ pc \in {"idle", "write", "echo", "proc", "data", "sw2"}
  /\ nc \in 0..MaxNe-1 /\ ne \in 0..MaxNe
  /\ hdr \in 0..APDU_HEADER_SIZE /\ left \in Nat /\ burst \in Nat
  /\ rxLen \in Nat /\ size \in Nat /\ need \in Nat /\ stored \in Nat
  /\ intact \in BOOLEAN /\ result \in Results /\ cmd \in {0, 1}
  /\ rx \in Seq(Byte)

(* Whatever the other end of the line sends, the bytes stored and reserved *)
(* stay within the buffer the caller was found to have, every reserved     *)
(* byte is accounted for, and whenever a procedure byte is waited for      *)
(* there is room for both status bytes: the two "card sent more data than  *)
(* expected" returns of the SW1 branch are never taken.                    *)
ResponseFitsBuffer ==
  /\ size <= capacity /\ capacity <= rxLen
  /\ stored + need = size
  /\ pc \in {"write", "echo", "proc", "data"} => free_space >= 2
  /\ pc = "data" => need > 0
  /\ pc = "sw2" => need = 1

(* No command byte is sent twice or skipped, and none is sent that the     *)
(* command does not have: what has been popped, what is left and what has  *)
(* been written add up, and no data is written before the header is out.   *)
CommandSentOnce ==
  /\ left + burst <= nc
  /\ hdr > 0 => left = nc /\ burst = 0 /\ stored = 0
  /\ pc = "write" => Sending > 0
  /\ pc \in {"proc", "data", "sw2"} => Sending = 0

(* A command that ends well returns at least the two status bytes and no   *)
(* more than it asked for, every one of them read from the line; and a     *)
(* command whose data the card did not take returns the status bytes alone:*)
(* data goes one way at a time.                                            *)
ResponseShape ==
  result = "ok" =>
    /\ size = stored /\ size \in 2..ne + 2
    /\ left > 0 => size = 2

(* Every state of a command is one the code knows, and what it returns has *)
(* a shape that T=0 knows.                                                 *)
ResponseKept == TypeOK /\ ResponseShape

Idle == pc = "idle"

(* the byte read changes nothing *)
Ignores == pc = "proc" /\ pc' = "proc" /\ Len(rx') = Len(rx) - 1

(* A read returns by VTIME, with a byte or without one; a write returns.  *)
Fairness ==
  WF_vars(DriverReads) /\ WF_vars(TimesOut) /\ WF_vars(Write \/ (pc = "write" /\ IoFails))

LiveSpec == Spec /\ Fairness

(* Every command ends, unless the card keeps sending NULL or meaningless   *)
(* bytes for ever: nothing else in the loop can go on without an end.      *)
CommandsEnd ==
  <>[][~Ignores]_vars => []<>Idle
=============================================================================
