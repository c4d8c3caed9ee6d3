-------------------------------- MODULE MCT0 --------------------------------
(***************************************************************************)
(* The T=0 loop for TLC.  `family` "open" is T0Exchange: a line on which   *)
(* anything arrives, commands with up to two bytes of data, responses of   *)
(* up to three, every length from 3 to 9 and caller's buffers of 2 to 5    *)
(* bytes.  "link" is T0Link with the four cases of an APDU (nothing,       *)
(* response, data, both), up to two bytes of data and three of response.   *)
(***************************************************************************)
EXTENDS T0Link

CONSTANT Families
VARIABLE family

(* P3 and the last byte of a command count only where they are lengths;    *)
(* the zero, and a length that is not the longest, are tried               *)
MCOpenApdus ==
  {a \in [tx_len : 3..8, p3 : 0..2, le : {0, 1}, rx_len : {2, 3, 5}] :
     /\ a.tx_len <= 4 => a.p3 = 0
     /\ a.tx_len # APDU_HEADER_SIZE + a.p3 + 1 => a.le = 0
     /\ a.rx_len = 2 => a.tx_len = 4}

(* who sends a byte, and in which command, is not looked at *)
MCOpenIncoming == {b \in Byte : b.role = "proc" /\ b.cmd = 0}

(* No command has an Lc of zero: ISO/IEC 7816-3 knows none, and the card   *)
(* takes the fifth byte of such a header for the length of a response.     *)
MCLinkApdus ==
  {a \in [tx_len : 4..8, p3 : 0..2, le : {0, 1}, rx_len : {5}] :
     /\ ~Malformed(a) /\ (a.tx_len > APDU_HEADER_SIZE => a.p3 > 0)
     /\ (a.tx_len < APDU_HEADER_SIZE => a.p3 = 0)
     /\ (a.tx_len <= APDU_HEADER_SIZE + a.p3 => a.le = 0)}

(* data and SW2 may look like any other byte *)
MCLinkIncoming ==
  {b \in Byte : /\ b.role = "proc" => b.v \in {"null", "ack", "nack"}
                /\ b.role = "sw1" => b.v = "sw"
                /\ b.role # "echo"
                /\ b.role \in {"data", "sw2"} => b.v \in {"null", "sw", "ack"}}

(* nothing goes wrong, or anything may *)
MCFaults == {{}, {"late", "gone", "os"}}

MCApdus == MCOpenApdus \cup MCLinkApdus
MCIncoming == MCOpenIncoming \cup MCLinkIncoming

(* There is no card on an open line, and everything may go wrong there:    *)
(* what T0Link states of a card says nothing of it.                        *)
OpenInit ==
  /\ Init
  /\ phase = "gone" /\ n = 0 /\ in = 0 /\ out = 0 /\ heard = 0
  /\ apdu = (CHOOSE a \in MCLinkApdus : TRUE)
  /\ clean = FALSE /\ faults = {"late", "gone", "os"}

MCInit ==
  /\ family \in Families
  /\ apdu \in MCLinkApdus
  /\ \/ family = "link" /\ LinkInit
     \/ family = "open" /\ OpenInit

OpenNext ==
  \/ \E a \in MCOpenApdus : Begin(a)
  \/ Write
  \/ ReadEcho
  \/ ReadProc
  \/ ReadData
  \/ ReadSw2
  \/ IoFails
  \/ Flush
  \/ \E b \in MCOpenIncoming : Arrives(b)

MCNext ==
  /\ UNCHANGED family
  /\ \/ family = "open" /\ OpenNext /\ UNCHANGED <<cardVars, apdu, clean, faults>>
     \/ family = "link" /\ LinkNext /\ apdu' \in MCLinkApdus

(* Fairness of the one, LinkFairness of the other *)
MCFairness ==
  /\ WF_vars(family = "open" /\ DriverReads)
  /\ WF_vars(family = "open" /\ TimesOut)
  /\ WF_vars(family = "open" /\ (Write \/ (pc = "write" /\ IoFails)))
  /\ WF_linkVars(family = "link" /\ LinkWrite)
  /\ WF_linkVars(family = "link" /\ LinkReads)
  /\ WF_linkVars(family = "link" /\ LinkTimesOut)
  /\ SF_linkVars(family = "link" /\ CardAnswers)

MCSpec == MCInit /\ [][MCNext]_<<family, linkVars>> /\ MCFairness

(* Every command ends; on the link it ends well where nothing goes wrong. *)
EveryCommandEnds ==
  /\ family = "open" => CommandsEnd
  /\ family = "link" => CommandsSucceed
=============================================================================
