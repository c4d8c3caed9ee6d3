------------------------------- MODULE T0Link -------------------------------
(***************************************************************************)
(* The T=0 command loop of the driver with a card at the other end of the  *)
(* line: T0Exchange, with the bytes that arrive those of a card that keeps *)
(* to ISO/IEC 7816-3.  The card hears every byte that is written while it  *)
(* listens; a byte written while it is sending is lost on it.              *)
(*                                                                         *)
(* Around the loop stands the caller: after a failed command the driver    *)
(* leaves the line as it is (reader.c: "figure out whether to reset the    *)
(* card in case of communication error"), so whether the reader is reset   *)
(* before the next command is up to pcscd.  Both are modelled.             *)
(***************************************************************************)
EXTENDS T0Exchange

CONSTANTS
  Faults,           \* the sets of faults that may occur together
  ResetsAfterError  \* the caller resets the reader after a command that failed

(* "late": the card answers after the driver has given up; "gone": it is   *)
(* removed; "os": a read or a write fails                                  *)
ASSUME LinkAssumption ==
  /\ Faults \subseteq SUBSET {"late", "gone", "os"}
  /\ ResetsAfterError \in BOOLEAN

VARIABLES
  phase,   \* what the card is doing
  n,       \* bytes it still has to hear, or to send, in this phase
  in,      \* command data bytes it has not asked for yet
  out,     \* response data bytes it has not started to send
  heard,   \* the command whose first header byte it heard
  apdu,    \* the command as the caller gave it
  clean,   \* no command has failed since the last reset
  faults   \* what may go wrong in this behaviour

cardVars == <<phase, n, in, out, heard>>
linkVars == <<vars, cardVars, apdu, clean, faults>>

Sender == {"proc", "dataout", "sw2"}
Failed(status) == status \in {"communication_error", "unexpected_card_response"}

(***************************************************************************)
(* The card hears a byte.  The header tells it how much data it has to ask *)
(* for or to send; one pieced together from two commands may tell it       *)
(* anything.  A command with data in both directions is answered in T=0 by *)
(* the status bytes 61XX alone.                                            *)
(***************************************************************************)
HeaderOfOneCommand == heard = cmd /\ hdr = 1

(* what the card does with P3: it expects that much, or sends that much,   *)
(* the zero standing for the longest response                              *)
TakesData == apdu.tx_len > APDU_HEADER_SIZE
GivesData == apdu.tx_len = APDU_HEADER_SIZE
DataGiven == IF apdu.p3 = 0 THEN MaxNe ELSE apdu.p3

HearsHeader ==
  /\ phase = "header"
  /\ heard' = IF n = APDU_HEADER_SIZE THEN cmd ELSE heard
  /\ IF n > 1
     THEN n' = n - 1 /\ UNCHANGED <<phase, in, out>>
     ELSE /\ phase' = "proc" /\ n' = 0
          /\ IF HeaderOfOneCommand
             THEN /\ in' = IF TakesData THEN apdu.p3 ELSE 0
                  /\ out' = IF GivesData THEN DataGiven ELSE 0
             ELSE in' \in 0..MaxNe-1 /\ out' \in {o \in 0..MaxNe : in' > 0 => o = 0}

HearsData ==
  /\ phase = "datain"
  /\ n' = n - 1
  /\ phase' = IF n = 1 THEN "proc" ELSE "datain"
  /\ UNCHANGED <<in, out, heard>>

HearsNothing == phase \in Sender \cup {"gone"} /\ UNCHANGED cardVars

CardHears == HearsHeader \/ HearsData \/ HearsNothing

(***************************************************************************)
(* The card sends a byte.                                                  *)
(***************************************************************************)
SendsByte(v, role) ==
  \E b \in Incoming : b.v = v /\ b.role = role /\ b.cmd = heard /\ Arrives(b)

SendsNull == phase = "proc" /\ SendsByte("null", "proc") /\ UNCHANGED cardVars

(* k bytes of command data are asked for, or k of response data announced  *)
Transfers(k) ==
  \/ /\ in >= k /\ in > 0
     /\ phase' = "datain" /\ n' = k /\ in' = in - k /\ UNCHANGED out
  \/ /\ out >= k /\ out > 0
     /\ phase' = "dataout" /\ n' = k /\ out' = out - k /\ UNCHANGED in

SendsAck ==
  /\ phase = "proc" /\ SendsByte("ack", "proc")
  /\ Transfers(in + out) /\ UNCHANGED heard

SendsNack ==
  /\ phase = "proc" /\ SendsByte("nack", "proc")
  /\ Transfers(1) /\ UNCHANGED heard

SendsData ==
  /\ phase = "dataout" /\ \E v \in Classes : SendsByte(v, "data")
  /\ n' = n - 1 /\ phase' = IF n = 1 THEN "proc" ELSE "dataout"
  /\ UNCHANGED <<in, out, heard>>

SendsSw1 ==
  /\ phase = "proc" /\ SendsByte("sw", "sw1")
  /\ phase' = "sw2" /\ UNCHANGED <<n, in, out, heard>>

SendsSw2 ==
  /\ phase = "sw2" /\ \E v \in Classes : SendsByte(v, "sw2")
  /\ phase' = "header" /\ n' = APDU_HEADER_SIZE
  /\ UNCHANGED <<in, out, heard>>

CardAnswers == (SendsAck \/ SendsNack \/ SendsData \/ SendsSw1 \/ SendsSw2) /\ UNCHANGED <<apdu, clean, faults>>

CardLeaves ==
  /\ "gone" \in faults /\ phase # "gone"
  /\ phase' = "gone"
  /\ UNCHANGED <<vars, n, in, out, heard, apdu, clean, faults>>

(***************************************************************************)
(* The driver, and its caller.  VTIME is derived from the waiting time of  *)
(* the card: a card that keeps to it is heard out.                         *)
(***************************************************************************)
Quiet ==
  /\ UNCHANGED <<cardVars, apdu, faults>>
  /\ clean' = (clean /\ ~(pc' = "idle" /\ Failed(result')))

Command(a) ==
  /\ ResetsAfterError => clean
  /\ Begin(a) /\ apdu' = a
  /\ UNCHANGED <<cardVars, clean, faults>>

LinkWrite == Write /\ CardHears /\ UNCHANGED <<apdu, clean, faults>>

LinkReads == DriverReads /\ Quiet

LinkTimesOut ==
  /\ TimesOut /\ Quiet
  /\ "late" \in faults \/ phase \notin Sender

LinkFails == "os" \in faults /\ IoFails /\ Quiet

(* mutant: the reset does not flush the queue *)
KeepsQueue == rx

FlushedQueue == <<>>

(* mutant: a reset may come while a command is running *)
ResetsAnyTime == TRUE

(* the driver tells pcscd that it is not thread safe *)
NoCommandRuns == pc = "idle"

(* IFDHPowerICC: the port is flushed, and a card, this one or another one, *)
(* starts anew                                                             *)
Reset ==
  /\ NoCommandRuns
  /\ rx' = FlushedQueue
  /\ phase' = "header" /\ n' = APDU_HEADER_SIZE /\ in' = 0 /\ out' = 0 /\ heard' = 0
  /\ clean' = TRUE
  /\ UNCHANGED <<driver, apdu, faults>>

LinkInit ==
  /\ Init
  /\ phase = "header" /\ n = APDU_HEADER_SIZE /\ in = 0 /\ out = 0 /\ heard = 0
  /\ apdu \in Apdus /\ clean = TRUE /\ faults \in Faults

LinkNext ==
  \/ \E a \in Apdus : Command(a)
  \/ LinkWrite
  \/ LinkReads
  \/ LinkTimesOut
  \/ LinkFails
  \/ SendsNull /\ UNCHANGED <<apdu, clean, faults>>
  \/ CardAnswers
  \/ CardLeaves
  \/ Reset

LinkSpec == LinkInit /\ [][LinkNext]_linkVars

-----------------------------------------------------------------------------
(* Properties *)

(* The card's account of a command and the driver's are the same: the card *)
(* waits for as many bytes as the driver is about to write, and, when      *)
(* nothing is under way on the line, has as many left to ask for, to send  *)
(* or to announce as the driver has to send or has room for.  Between two  *)
(* commands the line is silent and the card waits for a header.            *)
InStep ==
  clean /\ phase # "gone" =>
    /\ pc = "idle" => rx = <<>> /\ phase = "header" /\ n = APDU_HEADER_SIZE
    /\ pc = "write" => /\ rx = <<>> /\ n = Sending
                       /\ phase = IF hdr > 0 THEN "header" ELSE "datain"
    /\ pc = "proc" /\ rx = <<>> =>
         phase = "proc" /\ in = left /\ (nc = 0 => out = free_space - 2)
    /\ pc = "data" /\ rx = <<>> => phase = "dataout" /\ n = need
    /\ pc = "sw2" /\ rx = <<>> => phase = "sw2"

(* A command that ends well returns the answer to it: every byte that was  *)
(* read while it ran, echoes included, was sent in answer to it and for    *)
(* what it was taken for.  (After one that failed, the next may be given   *)
(* what is left of the answer, until the reader is reset.)                 *)
OwnResponse ==
  clean /\ pc = "idle" /\ result = "ok" => intact

(* With a card that keeps to its waiting time and a line that works, no    *)
(* command that is accepted fails.                                         *)
NoFalseAlarm == faults = {} => ~Failed(result)

(* What a command reports is true, whether good or bad. *)
TrueReports == OwnResponse /\ NoFalseAlarm

(* "handle synchronous echo byte" (sendrecv.c): the byte that is read and  *)
(* dropped after each byte written is the echo of that byte.               *)
EchoIsSynchronous ==
  pc = "echo" /\ rx # <<>> => Meant(Head(rx), "echo")

(* The driver returns from write and from read, by VTIME if need be; the   *)
(* card, however many NULL bytes it sends, gets on with the command.       *)
LinkFairness ==
  /\ WF_linkVars(LinkWrite) /\ WF_linkVars(LinkReads) /\ WF_linkVars(LinkTimesOut)
  /\ SF_linkVars(CardAnswers)

LiveLinkSpec == LinkSpec /\ LinkFairness

(* Every command that is accepted ends, whatever goes wrong; and ends well *)
(* if nothing does.                                                        *)
CommandsSucceed ==
  pc # "idle" ~> pc = "idle" /\ (faults = {} => result = "ok")

(* With a card on the line, the driver does what it may do on an open one: *)
(* what T0Exchange shows holds here.                                       *)
OpenLine == Spec
=============================================================================
