-------------------------- MODULE MCReaderSession --------------------------
(***************************************************************************)
(* ReaderSession on a small instance: two Luns, two devices of which one   *)
(* is wired to the slot, a table of two entries, one card that negotiates  *)
(* and one that speaks T=1 only and asks for a second reset.               *)
(***************************************************************************)
EXTENDS ReaderSession, TLC

CONSTANTS t0card, t1card, fallback, fast, dflt, uart, other, lun0, lun1

MCCards == {t0card, t1card}
MCParams == {dflt, fallback, fast}
MCDevices == {uart, other}
MCAtrLen == (t0card :> 3) @@ (t1card :> 5)
MCCardParams == (t0card :> {fallback, fast}) @@ (t1card :> {})
MCTwoModeCards == {t1card}
MCLuns == {lun0, lun1}
(* every Lun has a device of its own *)
MCChannels == {<<lun0, uart>>, <<lun1, other>>}
=============================================================================
