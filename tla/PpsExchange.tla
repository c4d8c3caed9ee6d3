---------------------------- MODULE PpsExchange ----------------------------
(***************************************************************************)
(* do_pps_exchange (iso7816_3/pps.c), after an answer to reset that was    *)
(* read: the request proposes F and D in PPS1, the card replies, and both  *)
(* sides must come out with the same F and D.  The line echoes the request *)
(* and each byte written takes the next byte of the line for its echo, so  *)
(* what the answer to reset left on the line moves the reply.              *)
(***************************************************************************)
EXTENDS AtrReader

CONSTANT Replies  \* what cards reply

(* A reply: whether its PPSS, protocol, PPS1 and check byte are those of   *)
(* the request or right (0) or not (1), the bytes it announces, and the    *)
(* number of bytes after which the card stops.                             *)
Reply == [ppss : {0, 1}, protocol : {0, 1}, announced : SUBSET {"PPS1", "PPS2", "PPS3"},
          pps1 : {0, 1}, pck : {0, 1}, sent : Nat]

NoReply == [ppss |-> 0, protocol |-> 0, announced |-> {}, pps1 |-> 0, pck |-> 0, sent |-> 0]

ASSUME PpsAssumption == Replies \subseteq Reply

VARIABLES
  step,    \* where do_pps_exchange is
  reply,   \* what the card replies
  queue,   \* bytes not yet read
  pps,     \* pps_response: the bytes read
  left,    \* announced bytes not yet read
  result   \* what do_pps_exchange returned

ppsVars == <<step, reply, queue, pps, left, result>>

PpsByte(kind, low, next) == [kind |-> kind, low |-> low, next |-> next]

Ppsi(announced, low) ==
  LET kinds == SelectSeq(<<"PPS1", "PPS2", "PPS3">>, LAMBDA x : x \in announced)
  IN [j \in 1..Len(kinds) |-> PpsByte(kinds[j], IF kinds[j] = "PPS1" THEN low ELSE 0, {})]

Frame(ppss, protocol, announced, pps1, pck) ==
  <<PpsByte("PPSS", ppss, {}), PpsByte("PPS0", protocol, announced)>> \o
  Ppsi(announced, pps1) \o <<PpsByte("PCK", pck, {})>>

(* build_pps_request *)
Request == Frame(0, 0, {"PPS1"}, 0, 0)

Sent(r) ==
  LET f == Frame(r.ppss, r.protocol, r.announced, r.pps1, r.pck)
  IN SubSeq(f, 1, IF r.sent < Len(f) THEN r.sent ELSE Len(f))

(* what the answer to reset left on the line *)
Strays == [j \in 1..Len(line) |-> PpsByte("stray", 0, {})]

(* mutant: the echoes are left on the line *)
EchoesLeft == 0

(* transport_send_bytes: as many bytes are read as are written *)
EchoesRead == Len(Request)

SendRequest ==
  /\ step = "request" /\ pc = "done" /\ status = "ok"
  /\ reply' \in Replies
  /\ LET all == Strays \o Request \o Sent(reply')
     IN queue' = SubSeq(all, EchoesRead + 1, Len(all))
  /\ step' = "ppss"
  /\ UNCHANGED <<vars, pps, left, result>>

(***************************************************************************)
(* read_pps_response                                                       *)
(***************************************************************************)
PpsReturns(r) == step' = "done" /\ result' = r

PpsReads == queue # <<>> /\ queue' = Tail(queue) /\ pps' = Append(pps, Head(queue))

PpsReadFails ==
  /\ step \in {"ppss", "pps0", "ppsi", "pck"} /\ queue = <<>>
  /\ PpsReturns("communication_error")
  /\ UNCHANGED <<vars, reply, queue, pps, left>>

ReadPpss ==
  /\ step = "ppss" /\ PpsReads
  /\ IF Head(queue).kind = "PPSS" /\ Head(queue).low = 0
     THEN step' = "pps0" /\ UNCHANGED result
     ELSE PpsReturns("unexpected_card_response")
  /\ UNCHANGED <<vars, reply, left>>

ReadPps0 ==
  /\ step = "pps0" /\ PpsReads
  /\ left' = Head(queue).next
  /\ step' = IF left' = {} THEN "pck" ELSE "ppsi"
  /\ UNCHANGED <<vars, reply, result>>

NextPpsi == IF "PPS1" \in left THEN "PPS1" ELSE IF "PPS2" \in left THEN "PPS2" ELSE "PPS3"

ReadPpsi ==
  /\ step = "ppsi" /\ PpsReads
  /\ left' = left \ {NextPpsi}
  /\ step' = IF left' = {} THEN "pck" ELSE "ppsi"
  /\ UNCHANGED <<vars, reply, result>>

(***************************************************************************)
(* get_pps_exchange_status.  The request has neither PPS2 nor PPS3, so a   *)
(* response may not have them; it may leave out PPS1.                      *)
(***************************************************************************)
SameProtocol == pps[2].low = 0
HasPps(kind) == kind \in pps[2].next
Pps1Matches == pps[3].low = 0

get_pps_exchange_status ==
  IF ~SameProtocol \/ (HasPps("PPS1") /\ ~Pps1Matches) \/ HasPps("PPS2") \/ HasPps("PPS3")
  THEN "pps_exchange_failed"
  ELSE IF HasPps("PPS1") THEN "ok" ELSE "pps_exchange_use_default_f_d"

(* the exclusive or of all bytes is zero with the right PCK only *)
PckCorrect(b) == b.kind = "PCK" /\ b.low = 0

ReadPck ==
  /\ step = "pck" /\ PpsReads
  /\ PpsReturns(IF PckCorrect(Head(queue)) THEN get_pps_exchange_status
                ELSE "unexpected_card_response")
  /\ UNCHANGED <<vars, reply, left>>

-----------------------------------------------------------------------------
PpsInit ==
  /\ Init
  /\ step = "request" /\ reply = NoReply /\ queue = <<>> /\ pps = <<>> /\ left = {}
  /\ result = "none"

PpsNext ==
  \/ Next /\ UNCHANGED ppsVars
  \/ SendRequest
  \/ ReadPpss
  \/ ReadPps0
  \/ ReadPpsi
  \/ ReadPck
  \/ PpsReadFails

PpsSpec == PpsInit /\ [][PpsNext]_<<vars, ppsVars>>

-----------------------------------------------------------------------------
(* Properties *)

(* The F and D a card goes over to with the reply it gave. *)
CardSpeed(r) ==
  CASE "PPS1" \notin r.announced -> "default"
    [] r.pps1 = 0 -> "proposed"
    [] OTHER -> "another"

(* ... and those the driver goes over to. *)
DriverSpeed == IF result = "ok" THEN "proposed" ELSE "default"

Acceptable(r) ==
  /\ r.ppss = 0 /\ r.protocol = 0 /\ r.pck = 0
  /\ r.announced \subseteq {"PPS1"} /\ ("PPS1" \in r.announced => r.pps1 = 0)
  /\ r.sent >= Cardinality(r.announced) + 3

(* The exchange succeeds exactly if the card replied as ISO/IEC 7816-3 has *)
(* it and the answer to reset left nothing on the line; then the driver    *)
(* goes over to the F and D the card goes over to, it has read the card's  *)
(* reply and not the echo of its own request, and all of it.               *)
AgreesWithCard ==
  step = "done" =>
    /\ result \in {"ok", "pps_exchange_use_default_f_d"} <=>
         Acceptable(reply) /\ OnLine(answer) = Proper(answer)
    /\ result \in {"ok", "pps_exchange_use_default_f_d"} =>
         /\ DriverSpeed = CardSpeed(reply)
         /\ pps = Sent(reply) /\ queue = <<>>
=============================================================================
