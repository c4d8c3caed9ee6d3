---------------------------- MODULE MCHandshake ----------------------------
(***************************************************************************)
(* What is worked out with a card after a reset, and the reset itself, for *)
(* TLC: `family` "bytes" is AtrReader and PpsExchange, "speed" is          *)
(* SpeedSelection, "reset" is ResetProcedure.                              *)
(***************************************************************************)
EXTENDS PpsExchange, SpeedSelection, ResetProcedure, TLC

CONSTANT HandshakeFamilies

(* For a buffer of nine bytes, which holds six levels: answers of up to    *)
(* three groups, some of them too long, some cut off, some with a wrong    *)
(* check byte, one that should not be there, or none; and every kind of    *)
(* reply to the PPS request.                                               *)
MCGroups == {{}, {"TA"}, {"TA", "TB", "TC"}}

MCAnswer(groups, protocols, k, ts, tck, sent) ==
  [groups |-> groups, protocols |-> protocols, k |-> k, ts |-> ts, tck |-> tck, sent |-> sent]

MCAnswers ==
  UNION {{MCAnswer(g, p, k, ts, tck, sent) :
            g \in [1..n -> MCGroups], p \in [1..n-1 -> {0, 1}], k \in {0, 2},
            ts \in {0, 1}, tck \in {"right", "wrong", "none"}, sent \in {4, 15}} : n \in 1..3}

MCReplies ==
  {r \in [ppss : {0, 1}, protocol : {0, 1}, announced : SUBSET {"PPS1", "PPS2", "PPS3"},
          pps1 : {0, 1}, pck : {0, 1}, sent : {2, 6}] :
     /\ r.pps1 = 0 \/ "PPS1" \in r.announced
     /\ r.ppss + r.protocol + r.pps1 + r.pck <= 1}

(* T0, and TDs to the end of the buffer *)
MCChains == {MCAnswer([i \in 1..n |-> {}], [i \in 1..n-1 |-> 0], 0, 0, "none", 40) : n \in 1..34}

(* Three cards: one that negotiates or falls back, one that enforces T=1   *)
(* until it is reset again, and one whose F and D the driver cannot serve; *)
(* from every state of the line.                                           *)
CONSTANTS t0card, twomode, odd, fallback, fast, dflt, uart, other

MCCards == {t0card, twomode, odd}
MCParams == {dflt, fallback, fast}
MCDevices == {uart, other}
MCAtrLen == (t0card :> 3) @@ (twomode :> 5) @@ (odd :> 4)

MCAtr(ta2Info, t0Info, ta1Info) == [ta2 |-> ta2Info, t0 |-> t0Info, ta1 |-> ta1Info]

MCCardAnswers ==
  (t0card :> {MCAtr("absent", TRUE, "usable"), MCAtr("t0", TRUE, "absent")}) @@
  (twomode :> {MCAtr("other_changeable", FALSE, "usable"), MCAtr("absent", TRUE, "usable")}) @@
  (odd :> {MCAtr("absent", TRUE, "unusable"), MCAtr("absent", FALSE, "absent"),
           MCAtr("other", FALSE, "absent"), MCAtr("absent", TRUE, "usable")})
MCBest == (t0card :> fast) @@ (twomode :> fast) @@ (odd :> None)
MCFallback == (t0card :> fallback) @@ (twomode :> fallback) @@ (odd :> None)
MCCardParams == (t0card :> {fast, fallback}) @@ (twomode :> {fast, fallback}) @@ (odd :> {})
MCTwoModeCards == {twomode}

(* the cached ATR is of one of two cards, or there is none *)
MCResetInit == /\ ResetInit /\ cache.atrLength \in {0, 3} /\ cache.atr \in {None, t0card}
               /\ slotLine.port \in {None, dflt, fast}

-----------------------------------------------------------------------------
VARIABLE family

handshakeVars == <<family, vars, ppsVars, speedVars, resetVars>>

NoLine == [lib |-> FALSE, port |-> None, rst |-> "input", clock |-> None, card |-> None,
           mode |-> None]
NoCache == [atr |-> None, atrLength |-> 0, params |-> None]

(* where no speed is chosen, no answer is read, and nothing is reset *)
HandshakeInit ==
  /\ family \in HandshakeFamilies
  /\ family # "bytes" => answer = CHOOSE a \in Answers : TRUE
  /\ family # "speed" => wi = 10 /\ ta1 = f_d_index_default /\ speedPc = "chosen"
  /\ PpsInit /\ SpeedInit
  /\ family # "reset" => slotLine = NoLine /\ cache = NoCache /\ dev = WiredDevice
  /\ MCResetInit

HandshakeNext ==
  /\ UNCHANGED family
  /\ \/ family = "bytes" /\ PpsNext /\ UNCHANGED <<speedVars, resetVars>>
     \/ family = "speed" /\ SpeedNext /\ UNCHANGED <<vars, ppsVars, resetVars>>
     \/ family = "reset" /\ ResetNext /\ UNCHANGED <<vars, ppsVars, speedVars>>

HandshakeSpec == /\ HandshakeInit /\ [][HandshakeNext]_handshakeVars
                 /\ WF_resetVars(family = "reset" /\ ResetNext)

(* Every reset ends, also of a card that asks for another one every time.  *)
ResetEnds == family = "reset" => Ends
=============================================================================
