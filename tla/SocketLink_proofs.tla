-------------------------- MODULE SocketLink_proofs --------------------------
(***************************************************************************)
(* Theorems about a client of the daemon.  Its callbacks are at the end.   *)
(*                                                                         *)
(* The calls that threads of a client make on one connection: each reads   *)
(* its own reply to the last byte, and no thread that stops leaves the     *)
(* others locked out; for calls that are shielded from cancellation, as    *)
(* those of pigpiod_if2.c are, and functions that read bytes back exactly  *)
(* where the server sends them.                                            *)
(***************************************************************************)
EXTENDS SocketLink, ClientCallbacks, FiniteSetTheorems, SequenceTheorems,
        WellFoundedInduction, TLAPS

Inside(t) ==
  client[t].pc \in {"sending", "receiving", "reading", "discarding", "unlocking"}
Quiet == toServer = <<>> /\ toClient = <<>>

(* The reply of a call that reads bytes has as many as its header says.    *)
Extends(t, res) == IF UnlocksItself(t) /\ res > 0 THEN res ELSE 0
Asked(t) ==
  /\ toClient = <<>>
  /\ \E f \in Functions : toServer = <<[by |-> t, call |-> f]>> /\ f.reads = client[t].reads
Answered(t) ==
  /\ toServer = <<>>
  /\ Len(toClient) >= 1 /\ toClient[1].by = t /\ toClient[1].part = "header"
  /\ Len(toClient) = 1 + Extends(t, toClient[1].res)
  /\ \A i \in 2..Len(toClient) : toClient[i] = Byte(t)

Pcs == {"outside", "locking", "sending", "receiving", "reading", "discarding", "unlocking",
        "ended"}
Sent == [by : Clients, call : Functions]
Part == [by : Clients, part : {"header", "byte"}, res : Int]
Caller == [pc : Pcs, reads : {"value", "bytes"}, left : Nat, cancelled : BOOLEAN]
Typed ==
  /\ alive \in BOOLEAN /\ gCmdMutex \in Clients \union {Nobody}
  /\ client \in [Clients -> Caller]
  /\ toServer \in Seq(Sent) /\ toClient \in Seq(Part)

(* The holder of the mutex is inside a call; on a connection that works    *)
(* nobody else is, and what is on its way is the call's own.               *)
HolderInside == \A t \in Clients : gCmdMutex = t => Inside(t)
OwnCall(t) ==
  /\ Inside(t) => gCmdMutex = t
  /\ At(t, "sending") \/ At(t, "unlocking") => Quiet
  /\ At(t, "receiving") => Asked(t) \/ Answered(t)
  /\ At(t, "reading") \/ At(t, "discarding") =>
       /\ toServer = <<>> /\ Len(toClient) = client[t].left
       /\ \A i \in 1..Len(toClient) : toClient[i] = Byte(t)
InStep == alive => /\ gCmdMutex = Nobody => Quiet
                   /\ \A t \in Clients : OwnCall(t)

IInv == Typed /\ HolderInside /\ InStep
-----------------------------------------------------------------------------
(* What the steps do to the thread that takes them.                        *)
Others(t) == \A u \in Clients : u # t => client'[u] = client[u]

LEMMA GoesTo ==
  ASSUME Typed, NEW t \in Clients, NEW pc \in Pcs, Goes(t, pc)
  PROVE  /\ client' \in [Clients -> Caller] /\ Others(t)
         /\ client'[t].pc = pc
         /\ client'[t].reads = client[t].reads /\ client'[t].left = client[t].left
  BY DEF Typed, Caller, Goes, Others

LEMMA ReturnsTo ==
  ASSUME Typed, NEW t \in Clients, Returns(t)
  PROVE  /\ client' \in [Clients -> Caller] /\ Others(t)
         /\ client'[t].pc = "outside"
  BY DEF Typed, Caller, Returns, Outside, Others, Pcs

LEMMA EndsAt ==
  ASSUME Typed, NEW t \in Clients,
         client' = [client EXCEPT ![t] = [Outside EXCEPT !.pc = "ended"]]
  PROVE  /\ client' \in [Clients -> Caller] /\ Others(t)
         /\ client'[t].pc = "ended"
  BY DEF Typed, Caller, Outside, Others, Pcs

LEMMA IsCancelled ==
  ASSUME Typed, NEW t \in Clients, client' = [client EXCEPT ![t].cancelled = TRUE]
  PROVE  /\ client' \in [Clients -> Caller] /\ Others(t)
         /\ client'[t].pc = client[t].pc
         /\ client'[t].reads = client[t].reads /\ client'[t].left = client[t].left
  BY DEF Typed, Caller, Others

LEMMA Awaits ==
  ASSUME Typed, NEW t \in Clients, NEW r \in {"value", "bytes"},
         client' = [client EXCEPT ![t].pc = "receiving", ![t].reads = r]
  PROVE  /\ client' \in [Clients -> Caller] /\ Others(t)
         /\ client'[t].pc = "receiving" /\ client'[t].reads = r
  BY DEF Typed, Caller, Others, Pcs

LEMMA CountsTo ==
  ASSUME Typed, NEW t \in Clients, NEW pc \in Pcs, NEW n \in Nat,
         client' = [client EXCEPT ![t].pc = pc, ![t].left = n]
  PROVE  /\ client' \in [Clients -> Caller] /\ Others(t)
         /\ client'[t].pc = pc /\ client'[t].left = n
  BY DEF Typed, Caller, Others

(* A step of the thread t, of which only t's own part has to be shown: the *)
(* others are outside, or the connection is broken.                        *)
LEMMA OwnStep ==
  ASSUME IInv, NEW t \in Clients, Others(t), Typed',
         alive' = alive, gCmdMutex' \in {gCmdMutex, t, Nobody},
         gCmdMutex' = t => Inside(t)',
         alive => /\ gCmdMutex = t \/ gCmdMutex = Nobody
                                   \/ (UNCHANGED <<gCmdMutex, toServer, toClient>>
                                       /\ ~Inside(t))
                  /\ gCmdMutex' = Nobody => Quiet'
                  /\ OwnCall(t)'
  PROVE  IInv'
  <1>1. HolderInside'
    BY SocketAssumption DEF IInv, HolderInside, Others, Inside, Nobody
  <1>2. ASSUME alive', NEW u \in Clients, u # t PROVE OwnCall(u)'
    <2>1. OwnCall(u) /\ client'[u] = client[u]
      BY <1>2 DEF IInv, InStep, Others
    <2>2. CASE gCmdMutex = t \/ gCmdMutex = Nobody
      <3>1. ~Inside(u)
        BY <1>2, <2>1, <2>2, SocketAssumption DEF OwnCall, Nobody
      <3> QED BY <2>1, <3>1 DEF OwnCall, Inside, At
    <2>3. CASE UNCHANGED <<gCmdMutex, toServer, toClient>>
      BY <2>1, <2>3 DEF OwnCall, Inside, At, Quiet, Asked, Answered, Extends, UnlocksItself
    <2> QED BY <1>2, <2>2, <2>3
  <1>3. InStep'
    BY <1>2 DEF InStep
  <1> QED BY <1>1, <1>3 DEF IInv
-----------------------------------------------------------------------------
(* One step per action.                                                    *)

LEMMA EmptySeqIs ==
  ASSUME NEW S, NEW s \in Seq(S), Len(s) = 0
  PROVE  s = <<>>
  OBVIOUS

LEMMA Holder ==
  ASSUME IInv, alive, NEW t \in Clients, Inside(t)
  PROVE  gCmdMutex = t /\ OwnCall(t)
  BY DEF IInv, InStep, OwnCall

LEMMA NotInside ==
  ASSUME IInv, NEW t \in Clients, ~Inside(t)
  PROVE  /\ gCmdMutex # t
         /\ alive /\ gCmdMutex = Nobody => Quiet
  BY DEF IInv, InStep, HolderInside

LEMMA EnterStep ==
  ASSUME IInv, NEW t \in Clients, Enter(t)
  PROVE  IInv'
  <1>1. ~Inside(t) /\ Goes(t, "locking") /\ UNCHANGED <<alive, toServer, toClient, gCmdMutex>>
    BY DEF Enter, At, Inside
  <1>2. client' \in [Clients -> Caller] /\ Others(t) /\ client'[t].pc = "locking"
    BY <1>1, GoesTo DEF IInv, Pcs
  <1>3. Typed'
    BY <1>1, <1>2 DEF IInv, Typed
  <1>4. OwnCall(t)'
    BY <1>2 DEF OwnCall, Inside, At
  <1>5. gCmdMutex' # t /\ (alive => (gCmdMutex' = Nobody => Quiet'))
    BY <1>1, NotInside DEF Quiet
  <1> QED BY <1>1, <1>2, <1>3, <1>4, <1>5, OwnStep

LEMMA LockStep ==
  ASSUME IInv, NEW t \in Clients, pml(t)
  PROVE  IInv'
  <1>1. /\ gCmdMutex = Nobody /\ gCmdMutex' = t /\ Goes(t, "sending")
        /\ UNCHANGED <<alive, toServer, toClient>>
    BY DEF pml
  <1>2. client' \in [Clients -> Caller] /\ Others(t) /\ client'[t].pc = "sending"
    BY <1>1, GoesTo DEF IInv, Pcs
  <1>3. Typed'
    BY <1>1, <1>2 DEF IInv, Typed
  <1>4. alive => Quiet'
    BY <1>1 DEF IInv, InStep, Quiet
  <1>5. Inside(t)' /\ (alive => OwnCall(t)')
    BY <1>1, <1>2, <1>4 DEF OwnCall, Inside, At
  <1>6. gCmdMutex' # Nobody
    BY <1>1, SocketAssumption DEF Nobody
  <1> QED BY <1>1, <1>2, <1>3, <1>5, <1>6, OwnStep

LEMMA SendStep ==
  ASSUME FunctionsAgree, IInv, NEW t \in Clients, SendCommand(t)
  PROVE  IInv'
  <1>1. Inside(t) /\ At(t, "sending") /\ alive /\ UNCHANGED <<alive, toClient, gCmdMutex>>
    BY DEF SendCommand, At, Inside
  <1>2. gCmdMutex = t /\ Quiet
    BY <1>1, Holder DEF OwnCall
  <1>3. PICK f \in Functions :
          /\ toServer' = Append(toServer, [by |-> t, call |-> f])
          /\ client' = [client EXCEPT ![t].pc = "receiving", ![t].reads = f.reads]
    BY DEF SendCommand
  <1>4. f.reads \in {"value", "bytes"}
    BY DEF FunctionsAgree
  <1>5. /\ client' \in [Clients -> Caller] /\ Others(t)
        /\ client'[t].pc = "receiving" /\ client'[t].reads = f.reads
    BY <1>3, <1>4, Awaits DEF IInv
  <1>6. toServer' = <<[by |-> t, call |-> f]>>
    BY <1>2, <1>3 DEF Quiet
  <1>7. Typed'
    <2>1. toServer' \in Seq(Sent)
      BY <1>6 DEF Sent
    <2> QED BY <1>1, <1>5, <2>1 DEF IInv, Typed
  <1>8. Asked(t)'
    BY <1>1, <1>2, <1>5, <1>6 DEF Asked, Quiet
  <1>9. Inside(t)' /\ OwnCall(t)'
    BY <1>1, <1>2, <1>5, <1>8 DEF OwnCall, Inside, At
  <1>10. gCmdMutex' # Nobody
    BY <1>1, <1>2, SocketAssumption DEF Nobody
  <1> QED BY <1>1, <1>2, <1>5, <1>7, <1>9, <1>10, OwnStep

LEMMA FailStep ==
  ASSUME IInv, NEW t \in Clients, Fail(t)
  PROVE  IInv'
  <1>1. /\ ~alive /\ gCmdMutex' = Nobody /\ (Goes(t, "unlocking") \/ Returns(t))
        /\ UNCHANGED <<alive, toServer, toClient>>
    BY DEF Fail
  <1>2. client' \in [Clients -> Caller] /\ Others(t)
    BY <1>1, GoesTo, ReturnsTo DEF IInv, Pcs
  <1>3. Typed'
    BY <1>1, <1>2 DEF IInv, Typed
  <1>4. gCmdMutex' # t
    BY <1>1, SocketAssumption DEF Nobody
  <1> QED BY <1>1, <1>2, <1>3, <1>4, OwnStep

LEMMA ReceiveStep ==
  ASSUME IInv, NEW t \in Clients, ReceiveResult(t)
  PROVE  IInv'
  <1> DEFINE res == Head(toClient).res
  <1>1. /\ Inside(t) /\ At(t, "receiving") /\ alive /\ toClient # <<>>
        /\ toClient' = Tail(toClient) /\ UNCHANGED <<alive, toServer>>
    BY DEF ReceiveResult, At, Inside
  <1>2. gCmdMutex = t /\ Answered(t)
    BY <1>1, Holder DEF OwnCall, Asked
  <1>3. toClient \in Seq(Part) /\ toClient # <<>> /\ res \in Int /\ res = toClient[1].res
    <2>1. toClient \in Seq(Part)
      BY DEF IInv, Typed
    <2>2. toClient[1] \in Part /\ Head(toClient) = toClient[1]
      BY <1>1, <2>1
    <2> QED BY <1>1, <2>1, <2>2 DEF Part
  <1>4. /\ toClient' \in Seq(Part) /\ toServer' = <<>>
        /\ Len(toClient') = Extends(t, res)
        /\ \A i \in 1..Len(toClient') : toClient'[i] = Byte(t)
    <2>1. /\ toClient' \in Seq(Part) /\ Len(toClient') = Len(toClient) - 1
          /\ \A i \in 1..Len(toClient') : toClient'[i] = toClient[i + 1]
      BY <1>1, <1>3
    <2>2. Len(toClient) = 1 + Extends(t, res)
      BY <1>2, <1>3 DEF Answered
    <2>3. Extends(t, res) \in Nat
      BY <1>3 DEF Extends
    <2>4. \A i \in 1..Len(toClient') : i + 1 \in 2..Len(toClient)
      BY <1>3, <2>1, <2>2, <2>3
    <2> QED BY <1>1, <1>2, <2>1, <2>2, <2>3, <2>4 DEF Answered
  <1>5. CASE UnlocksItself(t)
    <2>1. /\ client' = [client EXCEPT ![t].pc = IF res > 0 THEN "reading" ELSE "unlocking",
                                      ![t].left = IF res > 0 THEN res ELSE 0]
          /\ gCmdMutex' = t
      BY <1>2, <1>5 DEF ReceiveResult
    <2>2. /\ client' \in [Clients -> Caller] /\ Others(t)
          /\ client'[t].pc = IF res > 0 THEN "reading" ELSE "unlocking"
          /\ client'[t].left = Extends(t, res)
      <3> DEFINE pc == IF res > 0 THEN "reading" ELSE "unlocking"
                 left == IF res > 0 THEN res ELSE 0
      <3>1. pc \in Pcs /\ left \in Nat /\ left = Extends(t, res)
        BY <1>3, <1>5 DEF Pcs, Extends
      <3>2. client' = [client EXCEPT ![t].pc = pc, ![t].left = left]
        BY <2>1
      <3>3. pc = IF res > 0 THEN "reading" ELSE "unlocking"
        OBVIOUS
      <3> HIDE DEF pc, left
      <3>4. /\ client' \in [Clients -> Caller] /\ Others(t)
            /\ client'[t].pc = pc /\ client'[t].left = left
        BY <3>1, <3>2, CountsTo DEF IInv
      <3> QED BY <3>1, <3>3, <3>4
    <2>3. Typed'
      BY <1>1, <1>3, <1>4, <2>1, <2>2 DEF IInv, Typed
    <2>4. res > 0 => OwnCall(t)'
      BY <1>4, <2>1, <2>2 DEF OwnCall, Inside, At
    <2>5. ~(res > 0) => OwnCall(t)'
      <3> HAVE ~(res > 0)
      <3>1. Len(toClient') = 0
        BY <1>4, <1>5 DEF Extends
      <3>2. Quiet'
        BY <1>4, <3>1 DEF Quiet
      <3> QED BY <2>1, <2>2, <3>2 DEF OwnCall, At
    <2>6. Inside(t)' /\ gCmdMutex' # Nobody
      BY <2>1, <2>2, SocketAssumption DEF Inside, Nobody
    <2> QED BY <1>1, <1>2, <2>1, <2>2, <2>3, <2>4, <2>5, <2>6, OwnStep
  <1>6. CASE ~UnlocksItself(t)
    <2>1. Returns(t) /\ gCmdMutex' = Nobody
      BY <1>6 DEF ReceiveResult
    <2>2. client' \in [Clients -> Caller] /\ Others(t) /\ client'[t].pc = "outside"
      BY <2>1, ReturnsTo DEF IInv
    <2>3. Typed'
      BY <1>1, <1>4, <2>1, <2>2 DEF IInv, Typed
    <2>4. Quiet'
      <3>1. Len(toClient') = 0
        BY <1>4, <1>6 DEF Extends
      <3> QED BY <1>4, <3>1 DEF Quiet
    <2>5. OwnCall(t)' /\ gCmdMutex' # t
      BY <2>1, <2>2, SocketAssumption DEF OwnCall, Inside, At, Nobody
    <2> QED BY <1>1, <1>2, <2>1, <2>2, <2>3, <2>4, <2>5, OwnStep
  <1> QED BY <1>5, <1>6

LEMMA ReadStep ==
  ASSUME IInv, NEW t \in Clients, At(t, "reading") \/ At(t, "discarding"),
         ReadBytes(t, RecvBuf, "discarding")
  PROVE  IInv'
  <1> DEFINE n == IF client[t].left < RecvBuf THEN client[t].left ELSE RecvBuf
             rest == client[t].left - n
  <1>1. Inside(t) /\ UNCHANGED <<alive, toServer, gCmdMutex>>
    BY DEF ReadBytes, At, Inside
  <1>2. client[t].left \in Nat /\ n \in Nat /\ rest \in Nat
    BY SocketAssumption DEF IInv, Typed, Caller
  <1>3. /\ toClient' = IF alive THEN SubSeq(toClient, n + 1, Len(toClient)) ELSE toClient
        /\ client' = [client EXCEPT ![t].pc = "discarding", ![t].left = rest]
    BY DEF ReadBytes
  <1>4. /\ client' \in [Clients -> Caller] /\ Others(t)
        /\ client'[t].pc = "discarding" /\ client'[t].left = rest
    BY <1>2, <1>3, CountsTo DEF IInv, Pcs
  <1>5. toClient \in Seq(Part)
    BY DEF IInv, Typed
  <1>6. ASSUME alive PROVE /\ gCmdMutex = t /\ toServer' = <<>> /\ Len(toClient') = rest
                           /\ \A i \in 1..Len(toClient') : toClient'[i] = Byte(t)
    <2>1. /\ gCmdMutex = t /\ toServer = <<>> /\ Len(toClient) = client[t].left
          /\ \A i \in 1..Len(toClient) : toClient[i] = Byte(t)
      BY <1>1, <1>6, Holder DEF OwnCall
    <2>2. n <= Len(toClient) /\ toClient' = SubSeq(toClient, n + 1, Len(toClient))
      BY <1>2, <1>3, <1>6, <2>1
    <2> HIDE DEF n
    <2>3. /\ Len(toClient') = Len(toClient) - n
          /\ \A i \in 1..Len(toClient') : toClient'[i] = toClient[n + i]
      BY <1>2, <1>5, <2>2
    <2>4. \A i \in 1..Len(toClient') : n + i \in 1..Len(toClient)
      BY <1>2, <1>5, <2>3
    <2> QED BY <1>1, <2>1, <2>3, <2>4
  <1>7. toClient' \in Seq(Part)
    BY <1>2, <1>3, <1>5
  <1>8. Typed'
    BY <1>1, <1>4, <1>7 DEF IInv, Typed
  <1>9. Inside(t)' /\ (alive => OwnCall(t)')
    BY <1>1, <1>4, <1>6 DEF OwnCall, Inside, At
  <1>10. t # Nobody
    BY SocketAssumption DEF Nobody
  <1> QED BY <1>1, <1>4, <1>6, <1>8, <1>9, <1>10, OwnStep

LEMMA DiscardStep ==
  ASSUME IInv, NEW t \in Clients, DiscardBytes(t)
  PROVE  IInv'
  <1>1. At(t, "discarding") /\ Inside(t)
    BY DEF DiscardBytes, At, Inside
  <1>2. CASE client[t].left > 0
    BY <1>1, <1>2, ReadStep DEF DiscardBytes
  <1>3. CASE ~(client[t].left > 0)
    <2>1. Goes(t, "unlocking") /\ UNCHANGED <<alive, toServer, toClient, gCmdMutex>>
      BY <1>3 DEF DiscardBytes
    <2>2. client' \in [Clients -> Caller] /\ Others(t) /\ client'[t].pc = "unlocking"
      BY <2>1, GoesTo DEF IInv, Pcs
    <2>3. Typed'
      BY <2>1, <2>2 DEF IInv, Typed
    <2>4. ASSUME alive PROVE gCmdMutex = t /\ Quiet'
      <3>1. /\ gCmdMutex = t /\ toServer = <<>> /\ Len(toClient) = client[t].left
        BY <1>1, <2>4, Holder DEF OwnCall
      <3>2. Len(toClient) = 0 /\ toClient \in Seq(Part)
        BY <1>3, <3>1 DEF IInv, Typed, Caller
      <3> QED BY <2>1, <3>1, <3>2 DEF Quiet
    <2>5. Inside(t)' /\ (alive => OwnCall(t)')
      BY <2>1, <2>2, <2>4 DEF OwnCall, Inside, At
    <2> QED BY <2>1, <2>2, <2>3, <2>4, <2>5, OwnStep
  <1> QED BY <1>2, <1>3

LEMMA UnlockStep ==
  ASSUME IInv, NEW t \in Clients, pmu(t)
  PROVE  IInv'
  <1>1. /\ At(t, "unlocking") /\ Inside(t) /\ gCmdMutex' = Nobody /\ Returns(t)
        /\ UNCHANGED <<alive, toServer, toClient>>
    BY DEF pmu, At, Inside
  <1>2. client' \in [Clients -> Caller] /\ Others(t) /\ client'[t].pc = "outside"
    BY <1>1, ReturnsTo DEF IInv
  <1>3. Typed'
    BY <1>1, <1>2 DEF IInv, Typed
  <1>4. alive => gCmdMutex = t /\ Quiet'
    BY <1>1, Holder DEF OwnCall, Quiet
  <1>5. OwnCall(t)' /\ gCmdMutex' # t
    BY <1>1, <1>2, SocketAssumption DEF OwnCall, Inside, At, Nobody
  <1> QED BY <1>1, <1>2, <1>3, <1>4, <1>5, OwnStep

LEMMA CancelStep ==
  ASSUME IInv, NEW t \in Clients, stop_thread(t)
  PROVE  IInv'
  <1>1. /\ client' = [client EXCEPT ![t].cancelled = TRUE]
        /\ UNCHANGED <<alive, toServer, toClient, gCmdMutex>>
    BY DEF stop_thread
  <1>2. /\ client' \in [Clients -> Caller] /\ Others(t)
        /\ client'[t].pc = client[t].pc
        /\ client'[t].reads = client[t].reads /\ client'[t].left = client[t].left
    BY <1>1, IsCancelled DEF IInv
  <1>3. Typed'
    BY <1>1, <1>2 DEF IInv, Typed
  <1>4. Inside(t)' <=> Inside(t)
    BY <1>2 DEF Inside
  <1>5. alive => OwnCall(t)'
    <2>1. alive => OwnCall(t)
      BY DEF IInv, InStep
    <2> QED BY <1>1, <1>2, <2>1
            DEF OwnCall, Inside, At, Quiet, Asked, Answered, Extends, UnlocksItself
  <1>6. gCmdMutex' = t => Inside(t)'
    BY <1>1, <1>4 DEF IInv, HolderInside
  <1>7. alive => (gCmdMutex' = Nobody => Quiet')
    BY <1>1 DEF IInv, InStep, Quiet
  <1>8. alive => gCmdMutex = t \/ ~Inside(t)
    BY Holder
  <1> QED BY <1>1, <1>2, <1>3, <1>5, <1>6, <1>7, <1>8, OwnStep

LEMMA StopStep ==
  ASSUME Shielded, IInv, NEW t \in Clients, ThreadStops(t)
  PROVE  IInv'
  <1>1. /\ ~Inside(t) /\ UNCHANGED <<alive, toServer, toClient, gCmdMutex>>
        /\ client' = [client EXCEPT ![t] = [Outside EXCEPT !.pc = "ended"]]
    BY DEF ThreadStops, CancellationPoint, At, Inside
  <1>2. client' \in [Clients -> Caller] /\ Others(t) /\ client'[t].pc = "ended"
    BY <1>1, EndsAt DEF IInv
  <1>3. Typed'
    BY <1>1, <1>2 DEF IInv, Typed
  <1>4. OwnCall(t)'
    BY <1>2 DEF OwnCall, Inside, At
  <1>5. gCmdMutex' # t /\ (alive => (gCmdMutex' = Nobody => Quiet'))
    BY <1>1, NotInside DEF Quiet
  <1> QED BY <1>1, <1>2, <1>3, <1>4, <1>5, OwnStep

(* The server answers the call that is on its way, which is the holder's.  *)
LEMMA ServeStep ==
  ASSUME FunctionsAgree, IInv, Serve
  PROVE  IInv'
  <1>1. alive /\ toServer # <<>> /\ UNCHANGED <<alive, gCmdMutex, client>>
    BY DEF Serve
  <1>2. PICK t \in Clients : gCmdMutex = t
    BY <1>1 DEF IInv, InStep, Quiet, Typed
  <1>3. Inside(t) /\ OwnCall(t) /\ toServer \in Seq(Sent)
    BY <1>1, <1>2 DEF IInv, InStep, HolderInside, Typed
  <1>4. At(t, "receiving") /\ Asked(t)
    BY <1>1, <1>3 DEF Inside, At, OwnCall, Quiet, Answered
  <1>5. PICK f \in Functions :
          toServer = <<[by |-> t, call |-> f]>> /\ f.reads = client[t].reads
    BY <1>4 DEF Asked
  <1>6. Head(toServer).by = t /\ Head(toServer).call = f /\ toServer' = <<>>
    BY <1>5 DEF Serve
  <1>7. PICK res \in Results(f.cmd) :
          toClient' = toClient \o <<Header(t, res)>> \o Extension(t, f.cmd, res)
    BY <1>6 DEF Serve
  <1>8. res \in Int
    BY SocketAssumption DEF Results
  <1> DEFINE n == Extends(t, res)
             bytes == [i \in 1..n |-> Byte(t)]
  <1>9. n \in Nat /\ Extension(t, f.cmd, res) = bytes
    <2>1. n \in Nat
      BY <1>8 DEF Extends
    <2>2. f.cmd \in Extended <=> UnlocksItself(t)
      BY <1>5 DEF UnlocksItself, FunctionsAgree
    <2>3. CASE f.cmd \in Extended /\ res > 0
      <3>1. n = res
        BY <2>2, <2>3 DEF Extends
      <3>2. Extension(t, f.cmd, res) = [i \in 1..res |-> Byte(t)]
        BY <2>3 DEF Extension
      <3> HIDE DEF n
      <3>3. bytes = [i \in 1..res |-> Byte(t)]
        BY <3>1
      <3> QED BY <2>1, <3>2, <3>3
    <2>4. CASE ~(f.cmd \in Extended /\ res > 0)
      <3>1. n = 0
        BY <2>2, <2>4 DEF Extends
      <3>2. bytes \in Seq({Byte(t)}) /\ Len(bytes) = 0
        BY <3>1
      <3> HIDE DEF bytes
      <3>3. bytes = <<>>
        BY <3>2, EmptySeqIs
      <3> QED BY <2>1, <2>4, <3>3 DEF Extension
    <2> QED BY <2>1, <2>3, <2>4
  <1> HIDE DEF n
  <1>10. bytes \in Seq(Part) /\ Len(bytes) = n /\ \A i \in 1..n : bytes[i] = Byte(t)
    BY <1>9 DEF Byte, Part
  <1> HIDE DEF bytes
  <1>11. Header(t, res) \in Part /\ Header(t, res).by = t /\ Header(t, res).part = "header"
         /\ Header(t, res).res = res
    BY <1>8 DEF Header, Part
  <1>12. toClient' = <<Header(t, res)>> \o bytes
    BY <1>4, <1>7, <1>9, <1>11 DEF Asked
  <1>13. /\ toClient' \in Seq(Part) /\ Len(toClient') = 1 + n /\ toClient'[1] = Header(t, res)
         /\ \A i \in 2..Len(toClient') : toClient'[i] = Byte(t)
    BY <1>9, <1>10, <1>11, <1>12
  <1>14. Typed'
    BY <1>1, <1>6, <1>13 DEF IInv, Typed
  <1>15. Answered(t)'
    <2>1. Extends(t, res)' = n
      BY <1>1 DEF n, Extends, UnlocksItself
    <2>2. toClient'[1].by = t /\ toClient'[1].part = "header" /\ toClient'[1].res = res
      BY <1>11, <1>13
    <2> QED BY <1>1, <1>6, <1>9, <1>13, <2>1, <2>2 DEF Answered, n, Extends, UnlocksItself
  <1>16. \A u \in Clients : OwnCall(u)'
    <2> TAKE u \in Clients
    <2>1. CASE u = t
      BY <1>1, <1>2, <1>4, <1>15, <2>1 DEF OwnCall, At
    <2>2. CASE u # t
      <3>1. ~Inside(u)
        BY <1>1, <1>2, <2>2 DEF IInv, InStep, OwnCall
      <3> QED BY <1>1, <3>1 DEF OwnCall, Inside, At
    <2> QED BY <2>1, <2>2
  <1>17. HolderInside' /\ gCmdMutex' # Nobody
    BY <1>1, <1>2, SocketAssumption DEF IInv, HolderInside, Inside, Nobody
  <1> QED BY <1>14, <1>16, <1>17 DEF IInv, InStep

LEMMA DropStep ==
  ASSUME IInv, ConnectionDrops
  PROVE  IInv'
  <1>1. /\ alive' = FALSE /\ toServer' = <<>> /\ toClient' = <<>>
        /\ UNCHANGED <<gCmdMutex, client>>
    BY DEF ConnectionDrops
  <1>2. Typed'
    <2>1. toServer' \in Seq(Sent) /\ toClient' \in Seq(Part)
      BY <1>1
    <2>2. gCmdMutex' \in Clients \union {Nobody} /\ client' \in [Clients -> Caller]
      BY <1>1 DEF IInv, Typed
    <2> QED BY <1>1, <2>1, <2>2, Zenon DEF Typed
  <1>3. HolderInside'
    BY <1>1 DEF IInv, HolderInside, Inside
  <1>4. InStep'
    BY <1>1 DEF InStep
  <1> QED BY <1>2, <1>3, <1>4 DEF IInv

LEMMA SocketStep ==
  ASSUME Shielded, FunctionsAgree
  PROVE  IInv /\ [SocketNext]_linkVars => IInv'
  <1> SUFFICES ASSUME IInv, [SocketNext]_linkVars PROVE IInv'
    OBVIOUS
  <1>1. ASSUME NEW t \in Clients, Enter(t) \/ pml(t) \/ CallStep(t) \/ stop_thread(t)
                                  \/ ThreadStops(t)
        PROVE  IInv'
    <2>1. CASE CallStep(t)
      BY <2>1, FailStep, SendStep, ReceiveStep, ReadStep, DiscardStep, UnlockStep
      DEF CallStep, CopyBytes
    <2> QED BY <1>1, <2>1, EnterStep, LockStep, CancelStep, StopStep
  <1>2. CASE UNCHANGED linkVars
    <2>1. Typed' /\ HolderInside'
      BY <1>2 DEF linkVars, IInv, Typed, HolderInside, Inside
    <2>2. InStep'
      BY <1>2 DEF linkVars, IInv, InStep, OwnCall, Inside, At, Quiet, Asked, Answered, Extends,
                  UnlocksItself
    <2> QED BY <2>1, <2>2 DEF IInv
  <1> QED BY <1>1, <1>2, ServeStep, DropStep DEF SocketNext

LEMMA SocketBegins == SocketInit => IInv
  <1> SUFFICES ASSUME SocketInit PROVE IInv
    OBVIOUS
  <1>1. Typed
    BY DEF SocketInit, Typed, Caller, Outside, Pcs
  <1>2. HolderInside
    BY SocketAssumption DEF SocketInit, HolderInside, Nobody
  <1>3. InStep
    BY DEF SocketInit, InStep, OwnCall, Outside, Inside, At, Quiet
  <1> QED BY <1>1, <1>2, <1>3 DEF IInv

(* For any number of threads that make any calls and stop at any time, and *)
(* a connection that may break: as long as it works, a thread reads its    *)
(* own header and its own bytes, to the last, and a connection without a   *)
(* call is empty; and no thread that ends takes the mutex with it.         *)
THEOREM LinkKeepsCallsApart ==
  ASSUME Shielded, FunctionsAgree
  PROVE  SocketSpec => []LinkKept
  <1>1. IInv => LinkKept
    <2> SUFFICES ASSUME IInv PROVE LinkKept
      OBVIOUS
    <2>1. SocketTypeOK
      <3>1. Typed /\ toClient \in Seq(Part)
        BY DEF IInv, Typed
      <3>2. \A t \in Clients : client[t].pc \in Pcs /\ client[t].left \in Nat
        BY <3>1 DEF Typed, Caller
      <3>3. \A t \in Clients : client[t].cancelled \in BOOLEAN
        BY <3>1, Zenon DEF Typed, Caller
      <3>4. \A i \in DOMAIN toClient : toClient[i] \in Part
        BY <3>1
      <3>5. \A i \in DOMAIN toClient : toClient[i].by \in Clients
        BY <3>4 DEF Part
      <3>6. alive \in BOOLEAN /\ gCmdMutex \in Clients \union {Nobody}
        BY <3>1 DEF Typed
      <3> QED BY <3>2, <3>3, <3>5, <3>6, Zenon DEF SocketTypeOK, Pcs
    <2>2. EveryCallInStep
      <3> SUFFICES ASSUME alive PROVE EveryCallInStep
        BY DEF EveryCallInStep
      <3>1. ASSUME NEW t \in Clients PROVE ReadsItsOwn(t)
        <4>1. OwnCall(t) /\ toClient \in Seq(Part)
          BY DEF IInv, InStep, Typed
        <4>2. At(t, "receiving") /\ toClient # <<>> =>
                Head(toClient).by = t /\ Head(toClient).part = "header"
          BY <4>1 DEF OwnCall, Asked, Answered
        <4>3. client[t].pc \in {"reading", "discarding"} =>
                /\ Len(toClient) = client[t].left
                /\ \A i \in DOMAIN toClient : toClient[i] = Byte(t)
          BY <4>1 DEF OwnCall, At
        <4> QED BY <4>2, <4>3 DEF ReadsItsOwn
      <3>2. gCmdMutex = Nobody => toServer = <<>> /\ toClient = <<>>
        BY DEF IInv, InStep, Quiet
      <3> QED BY <3>1, <3>2 DEF EveryCallInStep
    <2>3. NobodyLockedOut
      BY DEF IInv, HolderInside, Inside, At, NobodyLockedOut
    <2>4. CallsMeanWhatTheySay
      <3>1. \A i \in DOMAIN toServer : toServer[i].call \in Functions
        <4>1. toServer \in Seq(Sent)
          BY DEF IInv, Typed
        <4>2. DOMAIN toServer = 1..Len(toServer)
          BY <4>1
        <4>3. \A i \in 1..Len(toServer) : toServer[i] \in Sent
          BY <4>1
        <4> QED BY <4>2, <4>3 DEF Sent
      <3> QED BY <3>1 DEF CallsMeanWhatTheySay, FunctionsAgree
    <2> QED BY <2>1, <2>2, <2>3, <2>4 DEF LinkKept
  <1> QED BY SocketBegins, SocketStep, <1>1, PTL DEF SocketSpec

-----------------------------------------------------------------------------
(***************************************************************************)
(* The callbacks of a client: the daemon is asked to report what there are *)
(* callbacks for, and reports are put together from their own halves, for  *)
(* any connections, callbacks, GPIO and events.                            *)
(***************************************************************************)
LEMMA Least ==
  ASSUME NEW T \in SUBSET Nat, T # {}
  PROVE  \E x \in T : \A y \in T : x <= y
<1>1. PICK x \in T : \A y \in T : ~(<<y, x>> \in OpToRel(<, Nat))
  BY WFMin, NatLessThanWellFounded
<1>2. \A y \in T : ~(y < x)
  BY <1>1 DEF OpToRel
<1> QED
  BY <1>2

ReportKinds == {"gpio", "event"}
BitSets == [gpio : SUBSET CallbackGpios, event : SUBSET CallbackEvents]
Connections == [inUse : BOOLEAN, up : BOOLEAN, bits : BitSets, last : SUBSET CallbackGpios]
Reports == [kind : {"levels", "wdog", "event", "alive"}, n : CallbackGpios \cup CallbackEvents \cup {0},
            level : SUBSET CallbackGpios]
HalfReports == [report : Reports, half : {1, 2}]

CallbackTypes ==
  /\ connection \in [Pis -> Connections] /\ daemon \in [Pis -> BitSets]
  /\ callbacks \subseteq Keys
  /\ bitsDue = NoRequest \/ bitsDue \in [pi : Pis, kind : ReportKinds]
  /\ stream \in [Pis -> Seq(HalfReports)] /\ buffer \in [Pis -> Seq(HalfReports)]
  /\ got \in Int /\ level \subseteq CallbackGpios
  /\ \A p, q \in Waiting : p = q

(* what the library believes to have asked for is what there are callbacks *)
(* for, and the daemon has been told of it or is about to be               *)
BitsKnown == \A i \in Pis, k \in ReportKinds : connection[i].bits[k] = Bits(i, k, callbacks)
DaemonTold ==
  ~leftOver => \A i \in Up, k \in ReportKinds :
                 bitsDue # [pi |-> i, kind |-> k] => daemon[i][k] = connection[i].bits[k]

(* the halves of the reports of a connection take turns, the second being  *)
(* of the report of the first; of one that is not used there are none      *)
TakeTurns(s) ==
  /\ Len(s) % 2 = 0 /\ \A k \in 1..Len(s) : s[k].half = IF k % 2 = 1 THEN 1 ELSE 2
  /\ \A k \in 1..Len(s) : k % 2 = 1 => s[k + 1].report = s[k].report
HalvesTakeTurns ==
  \A i \in Pis : /\ i \in Up => TakeTurns(buffer[i] \o stream[i])
                 /\ ~connection[i].inUse => /\ ~connection[i].up
                                             /\ buffer[i] = <<>> /\ stream[i] = <<>>

CallbacksInv == CallbackTypes /\ BitsKnown /\ DaemonTold /\ HalvesTakeTurns

(* where the threads are in the lists: on no callback they have passed; a  *)
(* callback is linked in while no other call is on its way, and those of   *)
(* pigpiod_if.c are for GPIO                                               *)
Walks == [at : {"idle", "standing", "stray", "end"}, on : SUBSET Keys, past : SUBSET Keys,
          report : Reports, changed : SUBSET CallbackGpios]
OnlyGpios ==
  library = "if" => /\ \A p \in callbacks \cup linked : p.kind = "gpio"
                    /\ \A i \in Pis : daemon[i].event = {}
InList(w, p) == p \notin w.past /\ w.at \notin {"idle", "end"}
WalksInv ==
  /\ walk \in [Pis -> Walks] /\ linked \subseteq Keys /\ older \in [Keys -> SUBSET Keys]
  /\ \A i \in Pis : \A p \in walk[i].on : InList(walk[i], p)
  /\ linked # {} => bitsDue = NoRequest /\ Waiting = {}
  /\ OnlyGpios

LEMMA CallbacksInvImplies ==
  ASSUME CallbacksInv, WalksInv
  PROVE  CallbacksKept
<1>1. CallbacksTypeOK
  <2>1. Cardinality(Waiting) <= 1
    <3>1. CASE Waiting = {}
      BY <3>1, FS_EmptySet
    <3>2. CASE Waiting # {}
      <4>1. PICK p : p \in Waiting
        BY <3>2
      <4>2. Waiting = {p}
        BY <4>1 DEF CallbacksInv, CallbackTypes
      <4>3. Cardinality({p}) = 1
        BY FS_Singleton
      <4> QED
        BY <4>2, <4>3
    <3> QED
      BY <3>1, <3>2
  <2>2. \A i \in Pis : /\ connection[i].last \subseteq CallbackGpios
                       /\ daemon[i].gpio \subseteq CallbackGpios
                       /\ daemon[i].event \subseteq CallbackEvents
    BY DEF CallbacksInv, CallbackTypes, Connections, BitSets
  <2> QED
    BY <2>1, <2>2 DEF CallbacksInv, CallbackTypes, CallbacksTypeOK, WalksInv
<1>2. DaemonReportsForCallbacks
  <2> SUFFICES ASSUME NEW i \in Up, ~leftOver, bitsDue = NoRequest
               PROVE  /\ daemon[i].gpio = Bits(i, "gpio", callbacks)
                      /\ daemon[i].event = Bits(i, "event", callbacks)
    BY DEF DaemonReportsForCallbacks
  <2>1. i \in Pis /\ \A k \in ReportKinds : bitsDue # [pi |-> i, kind |-> k]
    BY DEF Up, NoRequest, ReportKinds
  <2>2. \A k \in ReportKinds : daemon[i][k] = Bits(i, k, callbacks)
    BY <2>1 DEF CallbacksInv, DaemonTold, BitsKnown
  <2> QED
    BY <2>2 DEF ReportKinds
<1>3. ReportsWhole
  <2> SUFFICES ASSUME NEW i \in Up, NEW k \in DOMAIN (buffer[i] \o stream[i])
               PROVE  (buffer[i] \o stream[i])[k].half = IF k % 2 = 1 THEN 1 ELSE 2
    BY DEF ReportsWhole
  <2>1. i \in Pis /\ TakeTurns(buffer[i] \o stream[i])
    BY DEF CallbacksInv, HalvesTakeTurns, Up
  <2>2. buffer[i] \o stream[i] \in Seq(HalfReports)
    BY <2>1, ConcatProperties DEF CallbacksInv, CallbackTypes
  <2> QED
    BY <2>1, <2>2, LenProperties DEF TakeTurns
<1> QED
  BY <1>1, <1>2, <1>3 DEF CallbacksKept

LEMMA CallbacksInvHolds ==
  CallbacksInit => CallbacksInv
<1> SUFFICES ASSUME CallbacksInit
             PROVE  CallbacksInv
  OBVIOUS
<1>1. CallbackTypes
  <2>1. NotConnected \in Connections /\ Deaf \in BitSets
    BY DEF NotConnected, Connections, Deaf, BitSets
  <2>2. <<>> \in Seq(HalfReports)
    BY EmptySeq
  <2>3. Waiting = {}
    BY DEF CallbacksInit, Waiting
  <2> QED
    BY <2>1, <2>2, <2>3 DEF CallbacksInit, CallbackTypes
<1>2. BitsKnown
  BY DEF CallbacksInit, BitsKnown, Bits, NotConnected, Deaf, ReportKinds
<1>3. DaemonTold /\ HalvesTakeTurns
  BY DEF CallbacksInit, DaemonTold, HalvesTakeTurns, Up, NotConnected
<1> QED
  BY <1>1, <1>2, <1>3 DEF CallbacksInv

LEMMA WalksInvHolds ==
  CallbacksInit => WalksInv
<1> SUFFICES ASSUME CallbacksInit
             PROVE  WalksInv
  OBVIOUS
<1>1. NoWalk \in Walks /\ NoWalk.on = {}
  BY DEF NoWalk, Walks, ReportOf, Reports
<1>2. \A i \in Pis : daemon[i].event = {}
  BY DEF CallbacksInit, Deaf
<1> QED
  BY <1>1, <1>2 DEF CallbacksInit, WalksInv, OnlyGpios

(***************************************************************************)
(* Sequences of halves                                                     *)
(***************************************************************************)
LEMMA Associative ==
  \A x, y, z \in Seq(HalfReports) : (x \o y) \o z = x \o (y \o z)
BY ConcatAssociative

LEMMA PartRead ==
  ASSUME NEW b \in Seq(HalfReports), NEW s \in Seq(HalfReports), NEW n \in 1..Len(s)
  PROVE  /\ b \o SubSeq(s, 1, n) \in Seq(HalfReports) /\ SubSeq(s, n + 1, Len(s)) \in Seq(HalfReports)
         /\ (b \o SubSeq(s, 1, n)) \o SubSeq(s, n + 1, Len(s)) = b \o s
<1> DEFINE front == SubSeq(s, 1, n)
           rest == SubSeq(s, n + 1, Len(s))
<1>1. Len(s) \in Nat /\ \A i \in 1..Len(s) : s[i] \in HalfReports
  BY LenProperties, ElementOfSeq
<1>2. front \in Seq(HalfReports)
  BY <1>1, SubSeqProperties
<1>3. rest \in Seq(HalfReports)
  BY <1>1, SubSeqProperties
<1>4. front \o rest = s
  BY <1>1, ConcatAdjacentSubSeq, SubSeqFull
<1> HIDE DEF front, rest
<1>5. b \o front \in Seq(HalfReports)
  BY <1>2, ConcatProperties
<1>6. (b \o front) \o rest = b \o (front \o rest)
  BY <1>2, <1>3, Associative, Zenon
<1> QED
  BY <1>3, <1>4, <1>5, <1>6 DEF front, rest

LEMMA TwoLess ==
  \A n \in Nat : n >= 2 => (IF 3 <= n THEN n - 3 + 1 ELSE 0) = n - 2
OBVIOUS

LEMMA OddInside ==
  ASSUME NEW m \in Nat, m % 2 = 0, NEW k \in 1..m, k % 2 = 1
  PROVE  (k + 2) % 2 = 1 /\ k + 1 \in 1..m /\ (k + 1) + 2 = (k + 2) + 1
OBVIOUS

LEMMA OddBelow ==
  ASSUME NEW m \in Nat, m % 2 = 0, NEW k \in 1..(m + 2), k % 2 = 1
  PROVE  k < m \/ k = m + 1
OBVIOUS

LEMMA TwoUsed ==
  ASSUME NEW b \in Seq(HalfReports), NEW s \in Seq(HalfReports), Len(b) >= 2, TakeTurns(b \o s)
  PROVE  /\ SubSeq(b, 3, Len(b)) \in Seq(HalfReports) /\ TakeTurns(SubSeq(b, 3, Len(b)) \o s)
         /\ Len(SubSeq(b, 3, Len(b))) = Len(b) - 2
         /\ Len(b \o s) = Len(SubSeq(b, 3, Len(b)) \o s) + 2
         /\ \A k \in 1..Len(SubSeq(b, 3, Len(b)) \o s) :
              (SubSeq(b, 3, Len(b)) \o s)[k] = (b \o s)[k + 2]
<1> DEFINE c == SubSeq(b, 3, Len(b))
<1>1. /\ Len(b) \in Nat /\ Len(s) \in Nat /\ \A i \in 1..Len(b) : b[i] \in HalfReports
  BY LenProperties, ElementOfSeq
<1>2. c \in Seq(HalfReports) /\ Len(c) = Len(b) - 2 /\ \A i \in 1..Len(c) : c[i] = b[i + 2]
  <2>1. \A i \in 3..Len(b) : b[i] \in HalfReports
    BY <1>1
  <2>2. /\ c \in Seq(HalfReports) /\ Len(c) = IF 3 <= Len(b) THEN Len(b) - 3 + 1 ELSE 0
        /\ \A i \in 1..(Len(b) - 3 + 1) : c[i] = b[3 + i - 1]
    BY <1>1, <2>1, SubSeqProperties
  <2> HIDE DEF c
  <2>3. Len(c) = Len(b) - 2
    BY <1>1, <2>2, TwoLess
  <2>4. \A i \in 1..Len(c) : c[i] = b[i + 2]
    <3>1. ASSUME NEW i \in 1..Len(c)
          PROVE  i \in 1..(Len(b) - 3 + 1) /\ 3 + i - 1 = i + 2
      BY <1>1, <2>3
    <3> QED
      BY <2>2, <3>1
  <2> QED
    BY <2>2, <2>3, <2>4
<1> HIDE DEF c
<1>3. /\ Len(b \o s) = Len(b) + Len(s) /\ Len(c \o s) = Len(b) - 2 + Len(s)
      /\ \A i \in 1..(Len(b) + Len(s)) :
           (b \o s)[i] = IF i <= Len(b) THEN b[i] ELSE s[i - Len(b)]
      /\ \A i \in 1..(Len(b) - 2 + Len(s)) :
           (c \o s)[i] = IF i <= Len(b) - 2 THEN c[i] ELSE s[i - (Len(b) - 2)]
  <2>1. /\ Len(b \o s) = Len(b) + Len(s)
        /\ \A i \in 1..(Len(b) + Len(s)) :
             (b \o s)[i] = IF i <= Len(b) THEN b[i] ELSE s[i - Len(b)]
    BY ConcatProperties
  <2>2. /\ Len(c \o s) = Len(c) + Len(s)
        /\ \A i \in 1..(Len(c) + Len(s)) :
             (c \o s)[i] = IF i <= Len(c) THEN c[i] ELSE s[i - Len(c)]
    BY <1>2, ConcatProperties
  <2> QED
    BY <1>2, <2>1, <2>2
<1>4. ASSUME NEW k \in 1..Len(c \o s)
      PROVE  k + 2 \in 1..Len(b \o s) /\ (c \o s)[k] = (b \o s)[k + 2]
  <2>1. k + 2 \in 1..(Len(b) + Len(s)) /\ k \in 1..(Len(b) - 2 + Len(s))
    BY <1>1, <1>3
  <2>2. CASE k <= Len(b) - 2
    <3>1. (c \o s)[k] = c[k] /\ (b \o s)[k + 2] = b[k + 2]
      BY <1>1, <1>3, <2>1, <2>2
    <3> QED
      BY <1>1, <1>2, <1>3, <2>1, <2>2, <3>1
  <2>3. CASE ~(k <= Len(b) - 2)
    <3>1. (c \o s)[k] = s[k - (Len(b) - 2)] /\ (b \o s)[k + 2] = s[k + 2 - Len(b)]
      BY <1>1, <1>3, <2>1, <2>3
    <3>2. k - (Len(b) - 2) = k + 2 - Len(b)
      BY <1>1, <2>1
    <3> QED
      BY <1>3, <2>1, <3>1, <3>2
  <2> QED
    BY <2>2, <2>3
<1>5. Len(c \o s) % 2 = 0
  <2>1. Len(b \o s) % 2 = 0
    BY DEF TakeTurns
  <2> QED
    BY <1>1, <1>3, <2>1
<1>6. ASSUME NEW k \in 1..Len(c \o s)
      PROVE  (c \o s)[k].half = IF k % 2 = 1 THEN 1 ELSE 2
  <2>1. (k + 2) % 2 = k % 2
    BY <1>1, <1>3
  <2>2. (b \o s)[k + 2].half = IF (k + 2) % 2 = 1 THEN 1 ELSE 2
    BY <1>4 DEF TakeTurns
  <2> QED
    BY <1>4, <2>1, <2>2
<1>7. ASSUME NEW k \in 1..Len(c \o s), k % 2 = 1
      PROVE  (c \o s)[k + 1].report = (c \o s)[k].report
  <2>1. (k + 2) % 2 = 1 /\ k + 1 \in 1..Len(c \o s) /\ (k + 1) + 2 = (k + 2) + 1
    <3>1. Len(c \o s) \in Nat
      BY <1>1, <1>3
    <3> QED
      BY <1>5, <1>7, <3>1, OddInside
  <2>2. (b \o s)[(k + 2) + 1].report = (b \o s)[k + 2].report
    BY <1>4, <2>1 DEF TakeTurns
  <2>3. (c \o s)[k + 1] = (b \o s)[(k + 1) + 2] /\ (c \o s)[k] = (b \o s)[k + 2]
    BY <1>4, <2>1
  <2> QED
    BY <2>1, <2>2, <2>3
<1>8. TakeTurns(c \o s)
  BY <1>5, <1>6, <1>7 DEF TakeTurns
<1>9. Len(b \o s) = Len(c \o s) + 2
  BY <1>1, <1>3
<1> QED
  BY <1>2, <1>4, <1>8, <1>9 DEF c

LEMMA TwoSent ==
  ASSUME NEW b \in Seq(HalfReports), NEW s \in Seq(HalfReports), NEW r \in Reports,
         TakeTurns(b \o s)
  PROVE  /\ s \o Halves(r) \in Seq(HalfReports) /\ TakeTurns(b \o (s \o Halves(r)))
         /\ b \o (s \o Halves(r)) = (b \o s) \o Halves(r)
<1> DEFINE h == Halves(r)
           u == b \o s
<1>1. /\ h \in Seq(HalfReports) /\ Len(h) = 2 /\ h[1].half = 1 /\ h[2].half = 2
      /\ h[2].report = h[1].report
  BY DEF Halves, HalfReports
<1>2. u \in Seq(HalfReports) /\ Len(u) \in Nat
  BY ConcatProperties, LenProperties
<1> HIDE DEF h
<1>3. s \o h \in Seq(HalfReports) /\ b \o (s \o h) = u \o h
  <2>1. s \o h \in Seq(HalfReports)
    BY <1>1, ConcatProperties
  <2>2. (b \o s) \o h = b \o (s \o h)
    BY <1>1, ConcatAssociative
  <2> QED
    BY <2>1, <2>2
<1> HIDE DEF u
<1>4. /\ Len(u \o h) = Len(u) + 2
      /\ \A i \in 1..(Len(u) + 2) : (u \o h)[i] = IF i <= Len(u) THEN u[i] ELSE h[i - Len(u)]
  <2>1. /\ Len(u \o h) = Len(u) + Len(h)
        /\ \A i \in 1..(Len(u) + Len(h)) : (u \o h)[i] = IF i <= Len(u) THEN u[i] ELSE h[i - Len(u)]
    BY <1>1, <1>2, ConcatProperties
  <2> QED
    BY <1>1, <2>1
<1>5. Len(u) % 2 = 0 /\ \A k \in 1..Len(u) : u[k].half = IF k % 2 = 1 THEN 1 ELSE 2
  BY DEF TakeTurns, u
<1>9. \A k \in 1..Len(u) : k % 2 = 1 => u[k + 1].report = u[k].report
  BY DEF TakeTurns, u
<1>6. Len(u \o h) % 2 = 0
  BY <1>2, <1>4, <1>5
<1>7. ASSUME NEW k \in 1..(Len(u) + 2)
      PROVE  (u \o h)[k].half = IF k % 2 = 1 THEN 1 ELSE 2
  <2>1. CASE k <= Len(u)
    BY <1>2, <1>4, <1>5, <2>1
  <2>2. CASE k = Len(u) + 1
    <3>1. (u \o h)[k] = h[1]
      BY <1>2, <1>4, <2>2
    <3>2. k % 2 = 1
      BY <1>2, <1>5, <2>2
    <3> QED
      BY <1>1, <3>1, <3>2
  <2>3. CASE k = Len(u) + 2
    <3>1. (u \o h)[k] = h[2]
      BY <1>2, <1>4, <2>3
    <3>2. k % 2 = 0
      BY <1>2, <1>5, <2>3
    <3> QED
      BY <1>1, <3>1, <3>2
  <2>4. k <= Len(u) \/ k = Len(u) + 1 \/ k = Len(u) + 2
    BY <1>2
  <2> QED
    BY <2>1, <2>2, <2>3, <2>4
<1>8. ASSUME NEW k \in 1..(Len(u) + 2), k % 2 = 1
      PROVE  (u \o h)[k + 1].report = (u \o h)[k].report
  <2>1. k < Len(u) \/ k = Len(u) + 1
    <3>1. Len(u) \in Nat /\ Len(u) % 2 = 0 /\ k \in 1..(Len(u) + 2) /\ k % 2 = 1
      BY <1>2, <1>5, <1>8
    <3> QED
      BY <3>1, OddBelow
  <2>2. CASE k < Len(u)
    <3>1. (u \o h)[k + 1] = u[k + 1] /\ (u \o h)[k] = u[k] /\ k \in 1..Len(u)
      BY <1>2, <1>4, <2>2
    <3> QED
      BY <1>9, <1>8, <3>1
  <2>3. CASE k = Len(u) + 1
    <3>1. (u \o h)[k + 1] = h[2] /\ (u \o h)[k] = h[1]
      BY <1>2, <1>4, <2>3
    <3> QED
      BY <1>1, <3>1
  <2> QED
    BY <2>1, <2>2, <2>3
<1> QED
  BY <1>3, <1>4, <1>6, <1>7, <1>8 DEF TakeTurns, h, u

(***************************************************************************)
(* Reports                                                                 *)
(***************************************************************************)
SameConnections ==
  \A i \in Pis : /\ connection'[i].inUse = connection[i].inUse
                 /\ connection'[i].up = connection[i].up
SameBits == \A i \in Pis : connection'[i].bits = connection[i].bits

LEMMA AskedAsBefore ==
  ASSUME CallbacksInv, SameConnections, SameBits, UNCHANGED <<daemon, callbacks, bitsDue, leftOver>>
  PROVE  BitsKnown' /\ DaemonTold'
<1>1. BitsKnown'
  BY DEF CallbacksInv, BitsKnown, Bits, SameBits
<1>2. Up' = Up
  BY DEF Up, SameConnections
<1> QED
  BY <1>1, <1>2 DEF CallbacksInv, DaemonTold, SameBits, Up

LEMMA HalvesStay ==
  ASSUME CallbacksInv, SameConnections, UNCHANGED <<stream, buffer>>
  PROVE  HalvesTakeTurns'
BY DEF CallbacksInv, HalvesTakeTurns, SameConnections, Up

LEMMA StreamRead ==
  ASSUME CallbacksInv, NEW pi \in Pis, ReadStream(pi)
  PROVE  CallbacksInv'
<1>1. PICK n \in 1..Len(stream[pi]) :
        /\ buffer' = [buffer EXCEPT ![pi] = @ \o SubSeq(stream[pi], 1, n)]
        /\ stream' = [stream EXCEPT ![pi] = SubSeq(@, n + 1, Len(@))]
        /\ got' = got + n
  BY DEF ReadStream
<1>2. UNCHANGED <<connection, daemon, callbacks, bitsDue, level, leftOver>>
  BY DEF ReadStream
<1> DEFINE b == buffer[pi] \o SubSeq(stream[pi], 1, n)
           r == SubSeq(stream[pi], n + 1, Len(stream[pi]))
<1>3. stream[pi] \in Seq(HalfReports) /\ buffer[pi] \in Seq(HalfReports)
  BY DEF CallbacksInv, CallbackTypes
<1>4. b \in Seq(HalfReports) /\ r \in Seq(HalfReports) /\ b \o r = buffer[pi] \o stream[pi]
  BY <1>3, PartRead
<1>5. buffer' = [buffer EXCEPT ![pi] = b] /\ stream' = [stream EXCEPT ![pi] = r]
  BY <1>1
<1> HIDE DEF b, r
<1>6. /\ buffer'[pi] = b /\ stream'[pi] = r
      /\ \A i \in Pis \ {pi} : buffer'[i] = buffer[i] /\ stream'[i] = stream[i]
  BY <1>5 DEF CallbacksInv, CallbackTypes
<1>7. CallbackTypes'
  <2>1. got' \in Int
    <3>1. n \in Nat /\ got \in Int
      BY <1>3, LenProperties DEF CallbacksInv, CallbackTypes
    <3> QED
      BY <1>1, <3>1
  <2>2. stream' \in [Pis -> Seq(HalfReports)] /\ buffer' \in [Pis -> Seq(HalfReports)]
    BY <1>4, <1>5 DEF CallbacksInv, CallbackTypes
  <2> QED
    BY <1>2, <2>1, <2>2 DEF CallbacksInv, CallbackTypes, Waiting
<1>8. HalvesTakeTurns'
  <2>2. connection[pi].inUse
    BY DEF ReadStream
  <2>3. \A i \in Up : TakeTurns(buffer'[i] \o stream'[i])
    BY <1>4, <1>6 DEF CallbacksInv, HalvesTakeTurns, Up
  <2> QED
    BY <1>2, <1>6, <2>2, <2>3 DEF CallbacksInv, HalvesTakeTurns, Up
<1>9. SameConnections /\ SameBits
  BY <1>2 DEF SameConnections, SameBits
<1> QED
  BY <1>2, <1>7, <1>8, <1>9, AskedAsBefore DEF CallbacksInv

LEMMA ReportDispatched ==
  ASSUME CallbacksInv, NEW pi \in Pis, dispatch_notification(pi)
  PROVE  CallbacksInv'
<1> DEFINE l == LastAfter(Head(buffer[pi]).report, connection[pi].last)
           c == [connection[pi] EXCEPT !.last = l]
           b == SubSeq(buffer[pi], 3, Len(buffer[pi]))
<1>1. /\ connection' = [connection EXCEPT ![pi] = c] /\ connection[pi].inUse
      /\ buffer' = [buffer EXCEPT ![pi] = b] /\ Len(buffer[pi]) >= 2
      /\ UNCHANGED <<daemon, callbacks, bitsDue, stream, got, level, leftOver>>
  BY DEF dispatch_notification, CallbacksInv, CallbackTypes
<1>2. /\ stream[pi] \in Seq(HalfReports) /\ buffer[pi] \in Seq(HalfReports)
      /\ connection[pi] \in Connections
  BY DEF CallbacksInv, CallbackTypes
<1>3. pi \in Up => TakeTurns(b \o stream[pi])
  BY <1>1, <1>2, TwoUsed DEF CallbacksInv, HalvesTakeTurns
<1>4. b \in Seq(HalfReports)
  <2>1. Len(buffer[pi]) \in Nat /\ \A i \in 3..Len(buffer[pi]) : buffer[pi][i] \in HalfReports
    BY <1>2, LenProperties, ElementOfSeq
  <2> QED
    BY <2>1, SubSeqProperties
<1>5. l \subseteq CallbackGpios
  <2>1. Head(buffer[pi]) \in HalfReports
    <3>1. buffer[pi] # <<>>
      BY <1>1, <1>2, EmptySeq
    <3> QED
      BY <1>2, <3>1, HeadTailProperties
  <2> QED
    BY <1>2, <2>1 DEF LastAfter, HalfReports, Reports, Connections
<1> HIDE DEF l
<1>6. c \in Connections /\ c.inUse = connection[pi].inUse /\ c.up = connection[pi].up
      /\ c.bits = connection[pi].bits
  BY <1>2, <1>5 DEF Connections
<1> HIDE DEF c, b
<1>7. /\ connection'[pi] = c /\ buffer'[pi] = b
      /\ \A i \in Pis \ {pi} : connection'[i] = connection[i] /\ buffer'[i] = buffer[i]
  BY <1>1 DEF CallbacksInv, CallbackTypes
<1>8. CallbackTypes'
  <2>2. connection' \in [Pis -> Connections] /\ buffer' \in [Pis -> Seq(HalfReports)]
    BY <1>1, <1>4, <1>6 DEF CallbacksInv, CallbackTypes
  <2> QED
    BY <1>1, <2>2 DEF CallbacksInv, CallbackTypes, Waiting
<1>9. SameConnections /\ SameBits
  BY <1>6, <1>7 DEF SameConnections, SameBits
<1>10. HalvesTakeTurns'
  <2>1. Up' = Up
    BY <1>9 DEF Up, SameConnections
  <2>2. \A i \in Up : TakeTurns(buffer'[i] \o stream[i])
    BY <1>3, <1>7 DEF CallbacksInv, HalvesTakeTurns, Up
  <2> QED
    BY <1>1, <1>7, <1>9, <2>1, <2>2 DEF CallbacksInv, HalvesTakeTurns, SameConnections
<1> QED
  BY <1>1, <1>8, <1>9, <1>10, AskedAsBefore DEF CallbacksInv

LEMMA ReportSent ==
  ASSUME CallbacksInv, NEW to \in SUBSET Up, NEW r \in Reports, SendReport(to, r),
         level' \subseteq CallbackGpios
  PROVE  CallbacksInv'
<1>1. /\ stream' = [i \in Pis |-> IF i \in to THEN stream[i] \o Halves(r) ELSE stream[i]]
      /\ UNCHANGED <<connection, daemon, callbacks, bitsDue, buffer, got, leftOver>>
  BY DEF SendReport
<1>2. ASSUME NEW i \in to
      PROVE  /\ i \in Pis /\ connection[i].inUse
             /\ stream'[i] \in Seq(HalfReports) /\ TakeTurns(buffer[i] \o stream'[i])
  <2>1. i \in Pis /\ connection[i].inUse /\ i \in Up
    BY DEF Up
  <2>2. /\ stream[i] \in Seq(HalfReports) /\ buffer[i] \in Seq(HalfReports)
        /\ TakeTurns(buffer[i] \o stream[i])
    BY <2>1 DEF CallbacksInv, CallbackTypes, HalvesTakeTurns
  <2>3. stream'[i] = stream[i] \o Halves(r)
    BY <1>1, <2>1
  <2> QED
    BY <2>1, <2>2, <2>3, TwoSent
<1>3. \A i \in Pis \ to : stream'[i] = stream[i]
  BY <1>1
<1>4. CallbackTypes'
  <2>1. \A i \in Pis : stream'[i] \in Seq(HalfReports)
    BY <1>2, <1>3 DEF CallbacksInv, CallbackTypes
  <2>2. stream' \in [Pis -> Seq(HalfReports)]
    BY <1>1, <2>1
  <2> QED
    BY <1>1, <2>2 DEF CallbacksInv, CallbackTypes, Waiting
<1>5. HalvesTakeTurns'
  <2>1. Up' = Up
    BY <1>1 DEF Up
  <2> QED
    BY <1>1, <1>2, <1>3, <2>1 DEF CallbacksInv, HalvesTakeTurns
<1>6. SameConnections /\ SameBits
  BY <1>1 DEF SameConnections, SameBits
<1> QED
  BY <1>1, <1>4, <1>5, <1>6, AskedAsBefore DEF CallbacksInv

LEMMA DaemonReports ==
  ASSUME CallbacksInv, NEW g \in CallbackGpios \cup CallbackEvents,
         \/ g \in CallbackGpios /\ (GpioChanges(g) \/ WatchdogFires(g))
         \/ EventFires(g) /\ g \in CallbackEvents
  PROVE  CallbacksInv'
<1>1. level \subseteq CallbackGpios
  BY DEF CallbacksInv, CallbackTypes
<1>2. \A kind, n : Listening(kind, n) \in SUBSET Up
  BY DEF Listening
<1>3. CASE g \in CallbackGpios /\ GpioChanges(g)
  <2>1. level' \subseteq CallbackGpios
    BY <1>1, <1>3 DEF GpioChanges
  <2>2. LevelsAre(level') \in Reports
    BY <2>1 DEF LevelsAre, ReportOf, Reports
  <2> QED
    BY <1>2, <1>3, <2>1, <2>2, ReportSent DEF GpioChanges
<1>4. CASE g \in CallbackGpios /\ WatchdogFires(g)
  <2>1. ReportOf("wdog", g) \in Reports
    BY <1>4 DEF ReportOf, Reports
  <2> QED
    BY <1>1, <1>2, <1>4, <2>1, ReportSent DEF WatchdogFires
<1>5. CASE EventFires(g) /\ g \in CallbackEvents
  <2>1. ReportOf("event", g) \in Reports
    BY <1>5 DEF ReportOf, Reports
  <2> QED
    BY <1>1, <1>2, <1>5, <2>1, ReportSent DEF EventFires
<1> QED
  BY <1>3, <1>4, <1>5

(***************************************************************************)
(* Connections                                                             *)
(***************************************************************************)
LEMMA FirstUnused ==
  ASSUME UnusedSlots # {}
  PROVE  LET pi == FirstOf(UnusedSlots) IN pi \in Pis /\ ~connection[pi].inUse
<1>1. UnusedSlots \in SUBSET Nat
  BY CallbacksAssumption DEF UnusedSlots
<1>2. \E i \in UnusedSlots : \A j \in UnusedSlots : i <= j
  BY <1>1, Least
<1>3. FirstOf(UnusedSlots) \in UnusedSlots
  BY <1>2 DEF FirstOf
<1> QED
  BY <1>3 DEF UnusedSlots

LEMMA Started ==
  ASSUME CallbacksInv, pigpio_start
  PROVE  CallbacksInv'
<1> DEFINE pi == FirstOf(UnusedSlots)
           c == [connection[pi] EXCEPT !.inUse = TRUE, !.up = TRUE, !.last = level]
<1>1. pi \in Pis /\ ~connection[pi].inUse
  BY FirstUnused DEF pigpio_start
<1> HIDE DEF pi
<1>2. /\ connection' = [connection EXCEPT ![pi].inUse = TRUE, ![pi].up = TRUE, ![pi].last = level]
      /\ daemon' = [daemon EXCEPT ![pi] = Deaf]
      /\ leftOver' = (leftOver \/ \E p \in callbacks : p.pi = pi)
      /\ bitsDue = NoRequest
      /\ UNCHANGED <<callbacks, bitsDue, stream, buffer, got, level>>
  BY DEF pigpio_start, ClientFree, pi
<1>3. connection[pi] \in Connections
  BY <1>1 DEF CallbacksInv, CallbackTypes
<1>4. connection' = [connection EXCEPT ![pi] = c]
  BY <1>1, <1>2, <1>3 DEF CallbacksInv, CallbackTypes, Connections
<1>5. c \in Connections /\ c.inUse /\ c.up /\ c.bits = connection[pi].bits
  BY <1>3 DEF CallbacksInv, CallbackTypes, Connections
<1> HIDE DEF c
<1>6. /\ connection'[pi] = c /\ daemon'[pi] = Deaf
      /\ \A i \in Pis \ {pi} : connection'[i] = connection[i] /\ daemon'[i] = daemon[i]
  BY <1>1, <1>2, <1>4 DEF CallbacksInv, CallbackTypes
<1>7. CallbackTypes'
  <2>1. Deaf \in BitSets
    BY DEF Deaf, BitSets
  <2>2. connection' \in [Pis -> Connections] /\ daemon' \in [Pis -> BitSets]
    BY <1>2, <1>4, <1>5, <2>1 DEF CallbacksInv, CallbackTypes
  <2> QED
    BY <1>2, <2>2 DEF CallbacksInv, CallbackTypes, Waiting
<1>8. BitsKnown'
  <2>1. SameBits
    BY <1>5, <1>6 DEF SameBits
  <2> QED
    BY <1>2, <2>1 DEF CallbacksInv, BitsKnown, Bits, SameBits
<1>9. Up' = Up \cup {pi} /\ pi \notin Up
  BY <1>1, <1>5, <1>6 DEF Up
<1>10. DaemonTold'
  <2> SUFFICES ASSUME ~leftOver', NEW i \in Up', NEW k \in ReportKinds,
                      bitsDue' # [pi |-> i, kind |-> k]
               PROVE  daemon'[i][k] = connection'[i].bits[k]
    BY DEF DaemonTold
  <2>1. CASE i = pi
    <3>1. Bits(pi, k, callbacks) = {}
      BY <1>2 DEF Bits
    <3>2. connection[pi].bits[k] = {}
      BY <1>1, <3>1 DEF CallbacksInv, BitsKnown
    <3>3. Deaf[k] = {}
      BY DEF Deaf, ReportKinds
    <3> QED
      BY <1>5, <1>6, <2>1, <3>2, <3>3
  <2>2. CASE i # pi
    <3>1. i \in Up /\ i \in Pis /\ ~leftOver
      BY <1>2, <1>9, <2>2 DEF Up
    <3> QED
      BY <1>2, <1>6, <2>2, <3>1 DEF CallbacksInv, DaemonTold
  <2> QED
    BY <2>1, <2>2
<1>11. HalvesTakeTurns'
  <2>1. buffer[pi] = <<>> /\ stream[pi] = <<>>
    BY <1>1 DEF CallbacksInv, HalvesTakeTurns
  <2>2. buffer[pi] \o stream[pi] = <<>>
    BY <2>1
  <2>3. TakeTurns(<<>>)
    BY DEF TakeTurns
  <2> QED
    BY <1>2, <1>5, <1>6, <1>9, <2>2, <2>3 DEF CallbacksInv, HalvesTakeTurns
<1> QED
  BY <1>7, <1>8, <1>10, <1>11 DEF CallbacksInv

LEMMA StartFailed ==
  ASSUME CallbacksInv, StartFails
  PROVE  CallbacksInv'
<1> DEFINE pi == FirstOf(UnusedSlots)
           c == [connection[pi] EXCEPT !.inUse = TRUE]
<1>1. pi \in Pis /\ ~connection[pi].inUse
  BY FirstUnused DEF StartFails
<1> HIDE DEF pi
<1>2. /\ connection' = [connection EXCEPT ![pi] = c]
      /\ bitsDue = NoRequest
      /\ UNCHANGED <<daemon, callbacks, bitsDue, stream, buffer, got, level, leftOver>>
  BY <1>1 DEF StartFails, ClientFree, NoReports, pi, CallbacksInv, CallbackTypes
<1>3. connection[pi] \in Connections
  BY <1>1 DEF CallbacksInv, CallbackTypes
<1>4. /\ c \in Connections /\ c.inUse /\ c.up = connection[pi].up
      /\ c.bits = connection[pi].bits
  BY <1>3 DEF Connections
<1> HIDE DEF c
<1>5. connection'[pi] = c /\ \A i \in Pis \ {pi} : connection'[i] = connection[i]
  BY <1>1, <1>2 DEF CallbacksInv, CallbackTypes
<1>6. ~connection[pi].up
  BY <1>1 DEF CallbacksInv, HalvesTakeTurns
<1>7. CallbackTypes'
  <2>1. connection' \in [Pis -> Connections]
    BY <1>2, <1>4 DEF CallbacksInv, CallbackTypes
  <2> QED
    BY <1>2, <2>1 DEF CallbacksInv, CallbackTypes, Waiting
<1>8. Up' = Up
  BY <1>4, <1>5, <1>6 DEF Up
<1>9. SameBits
  BY <1>4, <1>5 DEF SameBits
<1>10. BitsKnown'
  BY <1>2, <1>9 DEF CallbacksInv, BitsKnown, Bits, SameBits
<1>11. DaemonTold'
  BY <1>2, <1>8, <1>9 DEF CallbacksInv, DaemonTold, SameBits, Up
<1>12. HalvesTakeTurns'
  BY <1>2, <1>4, <1>5, <1>8 DEF CallbacksInv, HalvesTakeTurns
<1> QED
  BY <1>7, <1>10, <1>11, <1>12 DEF CallbacksInv

LEMMA Stopped ==
  ASSUME CallbacksInv, NEW pi \in Pis, pigpio_stop(pi)
  PROVE  CallbacksInv'
<1> DEFINE c == [connection[pi] EXCEPT !.inUse = FALSE, !.up = FALSE]
<1>1. /\ daemon' = [daemon EXCEPT ![pi] = Deaf]
      /\ stream' = [stream EXCEPT ![pi] = <<>>] /\ buffer' = [buffer EXCEPT ![pi] = <<>>]
      /\ UNCHANGED <<callbacks, bitsDue, got, level, leftOver>>
  BY DEF pigpio_stop
<1>2. connection[pi] \in Connections
  BY DEF CallbacksInv, CallbackTypes
<1>3. connection' = [connection EXCEPT ![pi] = c]
  <2>1. connection' = [connection EXCEPT ![pi].inUse = FALSE, ![pi].up = FALSE]
    BY DEF pigpio_stop
  <2> QED
    BY <1>2, <2>1 DEF CallbacksInv, CallbackTypes, Connections
<1>4. c \in Connections /\ ~c.inUse /\ ~c.up /\ c.bits = connection[pi].bits
  BY <1>2 DEF Connections
<1> HIDE DEF c
<1>5. /\ connection'[pi] = c /\ stream'[pi] = <<>> /\ buffer'[pi] = <<>>
      /\ \A i \in Pis \ {pi} : /\ connection'[i] = connection[i] /\ daemon'[i] = daemon[i]
                               /\ stream'[i] = stream[i] /\ buffer'[i] = buffer[i]
  BY <1>1, <1>3 DEF CallbacksInv, CallbackTypes
<1>6. CallbackTypes'
  <2>1. Deaf \in BitSets /\ <<>> \in Seq(HalfReports)
    BY EmptySeq DEF Deaf, BitSets
  <2>2. connection' \in [Pis -> Connections] /\ daemon' \in [Pis -> BitSets]
    BY <1>1, <1>3, <1>4, <2>1 DEF CallbacksInv, CallbackTypes
  <2>3. stream' \in [Pis -> Seq(HalfReports)] /\ buffer' \in [Pis -> Seq(HalfReports)]
    BY <1>1, <2>1 DEF CallbacksInv, CallbackTypes
  <2> QED
    BY <1>1, <2>2, <2>3 DEF CallbacksInv, CallbackTypes, Waiting
<1>7. Up' = Up \ {pi}
  BY <1>4, <1>5 DEF Up
<1>8. BitsKnown'
  <2>1. SameBits
    BY <1>4, <1>5 DEF SameBits
  <2> QED
    BY <1>1, <2>1 DEF CallbacksInv, BitsKnown, Bits, SameBits
<1>9. DaemonTold'
  <2>1. \A i \in Up \ {pi} : i \in Pis \ {pi}
    BY DEF Up
  <2> QED
    BY <1>1, <1>5, <1>7, <2>1 DEF CallbacksInv, DaemonTold
<1>10. HalvesTakeTurns'
  BY <1>4, <1>5, <1>7 DEF CallbacksInv, HalvesTakeTurns
<1> QED
  BY <1>6, <1>8, <1>9, <1>10 DEF CallbacksInv

LEMMA Lost ==
  ASSUME CallbacksInv, NEW pi \in Pis, ConnectionLost(pi)
  PROVE  CallbacksInv'
<1> DEFINE c == [connection[pi] EXCEPT !.up = FALSE]
<1>1. /\ connection' = [connection EXCEPT ![pi] = c] /\ connection[pi].up
      /\ daemon' = [daemon EXCEPT ![pi] = Deaf] /\ stream' = [stream EXCEPT ![pi] = <<>>]
      /\ UNCHANGED <<callbacks, bitsDue, buffer, got, level, leftOver>>
  BY DEF ConnectionLost, CallbacksInv, CallbackTypes
<1>2. connection[pi] \in Connections
  BY DEF CallbacksInv, CallbackTypes
<1>3. /\ c \in Connections /\ c.inUse = connection[pi].inUse /\ ~c.up
      /\ c.bits = connection[pi].bits
  BY <1>2 DEF Connections
<1> HIDE DEF c
<1>4. /\ connection'[pi] = c
      /\ \A i \in Pis \ {pi} : /\ connection'[i] = connection[i] /\ daemon'[i] = daemon[i]
                               /\ stream'[i] = stream[i]
  BY <1>1 DEF CallbacksInv, CallbackTypes
<1>5. CallbackTypes'
  <2>1. Deaf \in BitSets /\ <<>> \in Seq(HalfReports)
    BY EmptySeq DEF Deaf, BitSets
  <2>2. /\ connection' \in [Pis -> Connections] /\ daemon' \in [Pis -> BitSets]
        /\ stream' \in [Pis -> Seq(HalfReports)]
    BY <1>1, <1>3, <2>1 DEF CallbacksInv, CallbackTypes
  <2> QED
    BY <1>1, <2>2 DEF CallbacksInv, CallbackTypes, Waiting
<1>6. Up' = Up \ {pi}
  BY <1>3, <1>4 DEF Up
<1>7. BitsKnown'
  <2>1. SameBits
    BY <1>3, <1>4 DEF SameBits
  <2> QED
    BY <1>1, <2>1 DEF CallbacksInv, BitsKnown, Bits, SameBits
<1>8. DaemonTold'
  BY <1>1, <1>4, <1>6 DEF CallbacksInv, DaemonTold, Up
<1>9. HalvesTakeTurns'
  BY <1>1, <1>3, <1>4, <1>6 DEF CallbacksInv, HalvesTakeTurns
<1> QED
  BY <1>5, <1>7, <1>8, <1>9 DEF CallbacksInv

(***************************************************************************)
(* Callbacks                                                               *)
(***************************************************************************)
LEMMA BitsFound ==
  ASSUME CallbacksInv, bitsDue = NoRequest, NEW pi \in Pis, NEW kind \in ReportKinds,
         callbacks' \subseteq Keys, FindBits(pi, kind, callbacks'),
         \A q \in Keys : ~(q.pi = pi /\ q.kind = kind) => (q \in callbacks' <=> q \in callbacks),
         \A p, q \in Waiting' : p = q,
         UNCHANGED <<daemon, stream, buffer, got, level, leftOver>>
  PROVE  CallbacksInv'
<1> DEFINE bits == Bits(pi, kind, callbacks')
           b == [connection[pi].bits EXCEPT ![kind] = bits]
           c == [connection[pi] EXCEPT !.bits = b]
<1>1. connection[pi] \in Connections /\ connection[pi].bits \in BitSets
  BY DEF CallbacksInv, CallbackTypes, Connections
<1>2. bits \subseteq IF kind = "gpio" THEN CallbackGpios ELSE CallbackEvents
  BY CallbacksAssumption DEF Bits, ReportKinds
<1>3. \A i \in Pis, k \in ReportKinds : i # pi \/ k # kind =>
        Bits(i, k, callbacks') = connection[i].bits[k]
  <2>1. \A i \in Pis, k \in ReportKinds : i # pi \/ k # kind =>
          Bits(i, k, callbacks') = Bits(i, k, callbacks)
    BY DEF Bits, CallbacksInv, CallbackTypes
  <2> QED
    BY <2>1 DEF CallbacksInv, BitsKnown
<1>4. CASE bits = connection[pi].bits[kind]
  <2>1. connection' = connection /\ bitsDue' = bitsDue
    BY <1>4 DEF FindBits
  <2>2. CallbackTypes'
    BY <2>1 DEF CallbacksInv, CallbackTypes
  <2>3. BitsKnown'
    <3>1. \A i \in Pis, k \in ReportKinds : Bits(i, k, callbacks') = connection[i].bits[k]
      BY <1>3, <1>4
    <3> QED
      BY <2>1, <3>1 DEF BitsKnown
  <2>4. SameConnections /\ Up' = Up
    BY <2>1 DEF SameConnections, Up
  <2>5. DaemonTold'
    BY <2>1, <2>4 DEF CallbacksInv, DaemonTold
  <2> QED
    BY <2>2, <2>3, <2>4, <2>5, HalvesStay DEF CallbacksInv
<1>5. CASE bits # connection[pi].bits[kind]
  <2>1. /\ connection' = [connection EXCEPT ![pi].bits[kind] = bits]
        /\ bitsDue' = IF connection[pi].inUse THEN [pi |-> pi, kind |-> kind] ELSE NoRequest
    BY <1>5 DEF FindBits
  <2>2. connection' = [connection EXCEPT ![pi] = c]
    BY <2>1
  <2>3. /\ b \in BitSets /\ b[kind] = bits
        /\ \A k \in ReportKinds \ {kind} : b[k] = connection[pi].bits[k]
    <3>1. CASE kind = "gpio"
      BY <1>1, <1>2, <3>1 DEF BitSets, ReportKinds
    <3>2. CASE kind = "event"
      BY <1>1, <1>2, <3>2 DEF BitSets, ReportKinds
    <3> QED
      BY <3>1, <3>2 DEF ReportKinds
  <2> HIDE DEF b, bits
  <2>4. /\ c \in Connections /\ c.inUse = connection[pi].inUse /\ c.up = connection[pi].up
        /\ c.bits = b
    BY <1>1, <2>3 DEF Connections
  <2> HIDE DEF c
  <2>5. connection'[pi] = c /\ \A i \in Pis \ {pi} : connection'[i] = connection[i]
    BY <2>2 DEF CallbacksInv, CallbackTypes
  <2>6. SameConnections /\ Up' = Up
    BY <2>4, <2>5 DEF SameConnections, Up
  <2>7. CallbackTypes'
    <3>1. connection' \in [Pis -> Connections]
      BY <2>2, <2>4 DEF CallbacksInv, CallbackTypes
    <3>2. bitsDue' = NoRequest \/ bitsDue' \in [pi : Pis, kind : ReportKinds]
      BY <2>1
    <3> QED
      BY <3>1, <3>2 DEF CallbacksInv, CallbackTypes
  <2>8. BitsKnown'
    <3>1. \A i \in Pis, k \in ReportKinds : connection'[i].bits[k] = Bits(i, k, callbacks')
      BY <1>3, <2>3, <2>4, <2>5 DEF bits
    <3> QED
      BY <3>1 DEF BitsKnown
  <2>9. DaemonTold'
    <3> SUFFICES ASSUME ~leftOver, NEW i \in Up, NEW k \in ReportKinds,
                        bitsDue' # [pi |-> i, kind |-> k]
                 PROVE  daemon[i][k] = connection'[i].bits[k]
      BY <2>6 DEF DaemonTold
    <3>1. i \in Pis /\ connection[i].inUse
      BY DEF Up
    <3>2. daemon[i][k] = connection[i].bits[k]
      BY DEF CallbacksInv, DaemonTold, NoRequest, ReportKinds
    <3>3. i # pi \/ k # kind
      BY <2>1, <3>1
    <3> QED
      BY <2>3, <2>4, <2>5, <3>1, <3>2, <3>3
  <2> QED
    BY <2>6, <2>7, <2>8, <2>9, HalvesStay DEF CallbacksInv
<1> QED
  BY <1>4, <1>5

LEMMA CallbackNamed ==
  ASSUME NEW p \in Keys
  PROVE  p.pi \in Pis /\ p.kind \in ReportKinds
BY CallbacksAssumption DEF ReportKinds

LEMMA Registered ==
  ASSUME CallbacksInv, WalksInv, NEW p \in Keys, FillIn(p)
  PROVE  CallbacksInv'
<1>1. /\ bitsDue = NoRequest /\ Waiting = {} /\ callbacks' = callbacks \union {p}
      /\ FindBits(p.pi, p.kind, callbacks')
      /\ UNCHANGED <<daemon, stream, buffer, got, level, leftOver>>
  BY DEF FillIn, WalksInv, NoReports
<1>2. callbacks' \subseteq Keys /\ \A q \in Waiting' : q = p
  BY <1>1 DEF CallbacksInv, CallbackTypes, Waiting
<1>3. \A q \in Keys : ~(q.pi = p.pi /\ q.kind = p.kind) =>
                        (q \in callbacks' <=> q \in callbacks)
  BY <1>1
<1> QED
  BY <1>1, <1>2, <1>3, BitsFound, CallbackNamed

LEMMA Unregistered ==
  ASSUME CallbacksInv, NEW p \in Keys, bitsDue = NoRequest, Unregister(p)
  PROVE  CallbacksInv'
<1>1. /\ callbacks' = callbacks \ {p} /\ FindBits(p.pi, p.kind, callbacks')
      /\ UNCHANGED <<stream, buffer, got, daemon, level, leftOver>>
  BY DEF Unregister, NoReports
<1>2. callbacks' \subseteq Keys /\ Waiting' \subseteq Waiting
  BY <1>1 DEF CallbacksInv, CallbackTypes, Waiting
<1>3. \A q, x \in Waiting' : q = x
  BY <1>2 DEF CallbacksInv, CallbackTypes
<1>4. \A q \in Keys : ~(q.pi = p.pi /\ q.kind = p.kind) =>
                        (q \in callbacks' <=> q \in callbacks)
  BY <1>1
<1> QED
  BY <1>1, <1>2, <1>3, <1>4, BitsFound, CallbackNamed

LEMMA BitsSent ==
  ASSUME CallbacksInv, SendBits
  PROVE  CallbacksInv'
<1> DEFINE pi == bitsDue.pi
           kind == bitsDue.kind
           b == [daemon[pi] EXCEPT ![kind] = connection[pi].bits[kind]]
<1>1. /\ pi \in Pis /\ kind \in ReportKinds /\ bitsDue = [pi |-> pi, kind |-> kind]
      /\ bitsDue' = NoRequest
      /\ UNCHANGED <<connection, callbacks, level, leftOver, stream, buffer, got>>
  BY DEF CallbacksInv, CallbackTypes, SendBits, NoReports
<1> HIDE DEF pi, kind
<1>2. CASE ~connection[pi].up
  <2>1. daemon' = daemon
    BY <1>2 DEF SendBits, pi
  <2>2. CallbackTypes'
    BY <1>1, <2>1 DEF CallbacksInv, CallbackTypes, Waiting
  <2>3. SameConnections /\ Up' = Up /\ pi \notin Up
    BY <1>1, <1>2 DEF SameConnections, Up
  <2>4. BitsKnown'
    BY <1>1 DEF CallbacksInv, BitsKnown, Bits
  <2>5. DaemonTold'
    BY <1>1, <2>1, <2>3 DEF CallbacksInv, DaemonTold
  <2> QED
    BY <1>1, <2>2, <2>3, <2>4, <2>5, HalvesStay DEF CallbacksInv
<1>3. CASE connection[pi].up
  <2>1. daemon' = [daemon EXCEPT ![pi] = b]
    BY <1>3 DEF SendBits, pi, kind
  <2>2. connection[pi].bits \in BitSets /\ daemon[pi] \in BitSets
    BY <1>1 DEF CallbacksInv, CallbackTypes, Connections
  <2>3. /\ b \in BitSets /\ b[kind] = connection[pi].bits[kind]
        /\ \A k \in ReportKinds \ {kind} : b[k] = daemon[pi][k]
    <3>1. CASE kind = "gpio"
      BY <2>2, <3>1 DEF BitSets, ReportKinds
    <3>2. CASE kind = "event"
      BY <2>2, <3>2 DEF BitSets, ReportKinds
    <3> QED
      BY <1>1, <3>1, <3>2 DEF ReportKinds
  <2> HIDE DEF b
  <2>4. daemon'[pi] = b /\ \A i \in Pis \ {pi} : daemon'[i] = daemon[i]
    BY <1>1, <2>1 DEF CallbacksInv, CallbackTypes
  <2>5. CallbackTypes'
    <3>1. daemon' \in [Pis -> BitSets]
      BY <2>1, <2>3 DEF CallbacksInv, CallbackTypes
    <3> QED
      BY <1>1, <3>1 DEF CallbacksInv, CallbackTypes, Waiting
  <2>6. SameConnections /\ Up' = Up
    BY <1>1 DEF SameConnections, Up
  <2>7. BitsKnown'
    BY <1>1 DEF CallbacksInv, BitsKnown, Bits
  <2>8. DaemonTold'
    <3> SUFFICES ASSUME ~leftOver, NEW i \in Up, NEW k \in ReportKinds
                 PROVE  daemon'[i][k] = connection[i].bits[k]
      BY <1>1, <2>6 DEF DaemonTold
    <3>1. i \in Pis
      BY DEF Up
    <3>2. CASE i = pi /\ k = kind
      BY <2>3, <2>4, <3>2
    <3>3. CASE ~(i = pi /\ k = kind)
      <4>1. bitsDue # [pi |-> i, kind |-> k]
        BY <1>1, <3>3
      <4>2. daemon[i][k] = connection[i].bits[k]
        BY <4>1 DEF CallbacksInv, DaemonTold
      <4> QED
        BY <2>3, <2>4, <3>1, <3>3, <4>2
    <3> QED
      BY <3>2, <3>3
  <2> QED
    BY <1>1, <2>5, <2>6, <2>7, <2>8, HalvesStay DEF CallbacksInv
<1> QED
  BY <1>2, <1>3

LEMMA OthersStay ==
  ASSUME CallbacksInv, got' \in Int,
         UNCHANGED <<connection, daemon, callbacks, bitsDue, stream, buffer, level, leftOver>>
  PROVE  CallbacksInv'
<1>1. CallbackTypes'
  BY DEF CallbacksInv, CallbackTypes, Waiting
<1>2. SameConnections /\ SameBits
  BY DEF SameConnections, SameBits
<1> QED
  BY <1>1, <1>2, AskedAsBefore, HalvesStay DEF CallbacksInv

LEMMA CallbacksInvKept ==
  ASSUME CallbacksInv, WalksInv, [CallbacksNext]_callbackVars
  PROVE  CallbacksInv'
<1>1. CASE UNCHANGED callbackVars
  BY <1>1, OthersStay DEF callbackVars, CallbacksInv, CallbackTypes
<1>2. CASE \E p \in Keys : FillIn(p) \/ callback_cancel(p)
  BY <1>2, Registered, Unregistered DEF callback_cancel, ClientFree
<1>3. CASE WaitEnds
  <2>1. PICK p \in Waiting : Unregister(p)
    BY <1>3 DEF WaitEnds
  <2>2. p \in Keys
    BY DEF CallbacksInv, CallbackTypes, Waiting
  <2> QED
    BY <1>3, <2>1, <2>2, Unregistered DEF WaitEnds
<1>4. CASE (\E g \in CallbackGpios : GpioChanges(g) \/ WatchdogFires(g))
           \/ (\E e \in CallbackEvents : EventFires(e))
  BY <1>4, DaemonReports
<1>5. CASE KeepAlive
  <2>1. ReportOf("alive", 0) \in Reports
    BY DEF ReportOf, Reports
  <2> QED
    BY <1>5, <2>1, ReportSent DEF KeepAlive, CallbacksInv, CallbackTypes
<1>6. CASE \/ \E p \in Keys : callback(p) \/ wait_for_edge(p)
           \/ \E pi \in Pis : WalkOn(pi) \/ GoAstray(pi) \/ WalkEnds(pi)
  <2>1. UNCHANGED <<connection, daemon, callbacks, bitsDue, stream, buffer, level, leftOver>>
    BY <1>6 DEF callback, wait_for_edge, Link, WalkOn, GoAstray, WalkEnds, OnlyWalks, NoReports
  <2>2. got' = got \/ got' = got - 2
    BY <1>6 DEF callback, wait_for_edge, Link, WalkOn, GoAstray, WalkEnds, OnlyWalks, NoReports
  <2> QED
    BY <2>1, <2>2, OthersStay DEF CallbacksInv, CallbackTypes
<1> QED
  BY <1>1, <1>2, <1>3, <1>4, <1>5, <1>6, StreamRead, ReportDispatched, Stopped, Lost, Started,
     StartFailed, BitsSent DEF CallbacksNext

(***************************************************************************)
(* The threads in the lists                                                *)
(***************************************************************************)
WalkParts == UNCHANGED <<library, walk, linked, older, callbacks, bitsDue>>

LEMMA NoEvents ==
  ASSUME CallbacksInv, WalksInv, library = "if",
         UNCHANGED daemon \/ \E pi \in Pis : daemon' = [daemon EXCEPT ![pi] = Deaf],
         NEW i \in Pis
  PROVE  daemon'[i].event = {}
<1>1. daemon[i].event = {} /\ Deaf.event = {}
  BY DEF WalksInv, OnlyGpios, Deaf
<1>2. daemon \in [Pis -> BitSets]
  BY DEF CallbacksInv, CallbackTypes
<1>3. daemon'[i] = daemon[i] \/ daemon'[i] = Deaf
  BY <1>2
<1> QED
  BY <1>1, <1>3

LEMMA DaemonDeafer ==
  ASSUME CallbacksInv, WalksInv, WalkParts,
         UNCHANGED daemon \/ \E pi \in Pis : daemon' = [daemon EXCEPT ![pi] = Deaf]
  PROVE  WalksInv'
<1>1. library = "if" => \A i \in Pis : daemon'[i].event = {}
  BY NoEvents
<1> QED
  BY <1>1 DEF WalksInv, OnlyGpios, WalkParts, Waiting

LEMMA OneWalks ==
  ASSUME WalksInv, NEW pi \in Pis, NEW w \in Walks, \A p \in w.on : InList(w, p),
         walk' = [walk EXCEPT ![pi] = w], UNCHANGED <<library, linked, older, callbacks, bitsDue>>,
         library = "if" => \A i \in Pis : daemon'[i].event = {}
  PROVE  WalksInv'
<1>1. walk' \in [Pis -> Walks]
  BY DEF WalksInv
<1>2. \A i \in Pis : \A p \in walk'[i].on : InList(walk'[i], p)
  BY DEF WalksInv
<1> QED
  BY <1>1, <1>2 DEF WalksInv, OnlyGpios, Waiting

(* wherever a thread goes on to, it is not where it has been               *)
Moved(pi, r, past, changed, w) ==
  /\ walk' = [walk EXCEPT ![pi] = w]
  /\ w.past = past /\ w.report = r /\ w.changed = changed
  /\ \A p \in w.on : InList(w, p)
  /\ w.at \in {"standing", "stray", "end"}
  /\ w.at = "end" => ListOf(r, callbacks) \subseteq past

LEMMA MovesOn ==
  ASSUME CallbacksInv, NEW pi \in Pis, NEW r \in Reports, NEW past \in SUBSET Keys,
         NEW changed \in SUBSET CallbackGpios, MoveOn(pi, r, past, changed)
  PROVE  \E w \in Walks : Moved(pi, r, past, changed, w)
<1> DEFINE rest == ListOf(r, callbacks) \ past
           Stand(place, q) == [at |-> place, on |-> q, past |-> past, report |-> r, changed |-> changed]
<1>1. rest \subseteq Keys
  BY DEF ListOf, CallbacksInv, CallbackTypes
<1>2. CASE \E p \in rest : walk' = [walk EXCEPT ![pi] = Stand("standing", {p})]
  <2>1. PICK p \in rest : walk' = [walk EXCEPT ![pi] = Stand("standing", {p})]
    BY <1>2
  <2>2. Stand("standing", {p}) \in Walks
    BY <1>1 DEF Walks
  <2> QED
    BY <2>1, <2>2 DEF Moved, InList
<1>3. CASE rest = {} /\ walk' = [walk EXCEPT ![pi] = Stand("end", {})]
  <2>1. Stand("end", {}) \in Walks
    BY DEF Walks
  <2>2. ListOf(r, callbacks) \subseteq past
    BY <1>3
  <2> QED
    BY <1>3, <2>1, <2>2 DEF Moved
<1>4. CASE walk' = [walk EXCEPT ![pi] = Stand("stray", {})]
  <2>1. Stand("stray", {}) \in Walks
    BY DEF Walks
  <2> QED
    BY <1>4, <2>1 DEF Moved
<1> QED
  BY <1>2, <1>3, <1>4 DEF MoveOn

LEMMA ChangedGpios ==
  ASSUME CallbacksInv, NEW pi \in Pis
  PROVE  \A r, last : Changed(pi, r, last) \in SUBSET CallbackGpios
<1>1. connection[pi].bits.gpio \subseteq CallbackGpios
  BY DEF CallbacksInv, CallbackTypes, Connections, BitSets
<1> QED
  BY <1>1 DEF Changed

(* a step of a thread in a list, as one move                               *)
LEMMA ThreadMoves ==
  ASSUME CallbacksInv, WalksInv, NEW pi \in Pis,
         dispatch_notification(pi) \/ WalkOn(pi) \/ GoAstray(pi)
  PROVE  \E r \in Reports, past \in SUBSET Keys, changed \in SUBSET CallbackGpios :
           MoveOn(pi, r, past, changed)
<1>1. walk[pi] \in Walks
  BY DEF WalksInv
<1>2. /\ walk[pi].report \in Reports /\ walk[pi].changed \in SUBSET CallbackGpios
      /\ walk[pi].past \in SUBSET Keys /\ walk[pi].on \in SUBSET Keys
  BY <1>1 DEF Walks
<1>3. CASE dispatch_notification(pi)
  <2> DEFINE r == Head(buffer[pi]).report
  <2>1. buffer[pi] \in Seq(HalfReports) /\ Len(buffer[pi]) >= 2
    BY <1>3 DEF dispatch_notification, CallbacksInv, CallbackTypes
  <2>2. buffer[pi] # <<>>
    BY <2>1, EmptySeq
  <2>3. Head(buffer[pi]) \in HalfReports
    BY <2>1, <2>2, HeadTailProperties
  <2>4. r \in Reports /\ Changed(pi, r, connection[pi].last) \in SUBSET CallbackGpios
    BY <2>3, ChangedGpios DEF HalfReports
  <2>5. MoveOn(pi, r, {}, Changed(pi, r, connection[pi].last))
    BY <1>3, Zenon DEF dispatch_notification
  <2> HIDE DEF r
  <2> QED
    BY <2>4, <2>5
<1>4. CASE WalkOn(pi)
  BY <1>2, <1>4 DEF WalkOn
<1>5. CASE GoAstray(pi)
  <2>1. PICK skipped \in SUBSET ListOf(walk[pi].report, callbacks) :
          MoveOn(pi, walk[pi].report, walk[pi].past \union skipped, walk[pi].changed)
    BY <1>5 DEF GoAstray
  <2>2. skipped \subseteq Keys
    BY DEF ListOf, CallbacksInv, CallbackTypes
  <2> QED
    BY <1>2, <2>1, <2>2
<1> QED
  BY <1>3, <1>4, <1>5

LEMMA WalksInvKept ==
  ASSUME CallbacksInv, WalksInv, [CallbacksNext]_callbackVars
  PROVE  WalksInv'
<1>1. CASE \/ UNCHANGED callbackVars \/ StartFails \/ KeepAlive \/ pigpio_start
           \/ \E pi \in Pis : ReadStream(pi) \/ ConnectionLost(pi)
           \/ \E g \in CallbackGpios : GpioChanges(g) \/ WatchdogFires(g)
           \/ \E e \in CallbackEvents : EventFires(e)
  <2>1. WalkParts
    BY <1>1 DEF callbackVars, WalkParts, StartFails, KeepAlive, pigpio_start, ReadStream,
                ConnectionLost, GpioChanges, WatchdogFires, EventFires, SendReport
  <2>2. CASE pigpio_start
    <3>1. UnusedSlots # {} /\ daemon' = [daemon EXCEPT ![FirstOf(UnusedSlots)] = Deaf]
      BY <2>2 DEF pigpio_start
    <3>2. FirstOf(UnusedSlots) \in Pis
      BY <3>1, FirstUnused
    <3> QED
      BY <2>1, <3>1, <3>2, DaemonDeafer
  <2>3. CASE \E pi \in Pis : ConnectionLost(pi)
    BY <2>1, <2>3, DaemonDeafer DEF ConnectionLost
  <2>4. CASE \/ UNCHANGED callbackVars \/ StartFails \/ KeepAlive
             \/ \E pi \in Pis : ReadStream(pi)
             \/ \E g \in CallbackGpios : GpioChanges(g) \/ WatchdogFires(g)
             \/ \E e \in CallbackEvents : EventFires(e)
    <3>1. daemon' = daemon
      BY <2>4 DEF callbackVars, StartFails, KeepAlive, ReadStream, GpioChanges, WatchdogFires,
                  EventFires, SendReport
    <3> QED
      BY <2>1, <3>1, DaemonDeafer
  <2> QED
    BY <1>1, <2>2, <2>3, <2>4
<1>2. CASE \E pi \in Pis : dispatch_notification(pi) \/ WalkOn(pi) \/ GoAstray(pi)
  <2>1. PICK pi \in Pis : dispatch_notification(pi) \/ WalkOn(pi) \/ GoAstray(pi)
    BY <1>2
  <2>2. UNCHANGED <<library, daemon, linked, older, callbacks, bitsDue>>
    BY <2>1 DEF dispatch_notification, WalkOn, GoAstray, OnlyWalks
  <2>3. PICK r \in Reports, past \in SUBSET Keys, changed \in SUBSET CallbackGpios :
          MoveOn(pi, r, past, changed)
    BY <2>1, ThreadMoves
  <2>4. PICK w \in Walks : Moved(pi, r, past, changed, w)
    BY <2>3, MovesOn
  <2>5. library = "if" => \A i \in Pis : daemon'[i].event = {}
    BY <2>2 DEF WalksInv, OnlyGpios
  <2> QED
    BY <2>2, <2>4, <2>5, OneWalks DEF Moved
<1>3. CASE \E pi \in Pis : WalkEnds(pi) \/ pigpio_stop(pi)
  <2>1. PICK pi \in Pis : WalkEnds(pi) \/ pigpio_stop(pi)
    BY <1>3
  <2>2. /\ walk' = [walk EXCEPT ![pi] = NoWalk]
        /\ UNCHANGED <<library, linked, older, callbacks, bitsDue>>
        /\ UNCHANGED daemon \/ daemon' = [daemon EXCEPT ![pi] = Deaf]
    BY <2>1 DEF WalkEnds, pigpio_stop
  <2>3. NoWalk \in Walks /\ NoWalk.on = {}
    BY DEF NoWalk, Walks, ReportOf, Reports
  <2>4. library = "if" => \A i \in Pis : daemon'[i].event = {}
    BY <2>2, NoEvents
  <2> QED
    BY <2>2, <2>3, <2>4, OneWalks
<1>4. CASE \E p \in Keys : callback(p) \/ wait_for_edge(p)
  <2>1. PICK p \in Keys : Link(p)
    BY <1>4 DEF callback, wait_for_edge
  <2>2. /\ linked' = {p} /\ bitsDue' = NoRequest /\ Waiting = {}
        /\ UNCHANGED <<library, daemon, callbacks, older, walk>>
        /\ (library = "if" => p.kind = "gpio")
    BY <2>1 DEF Link, ClientFree
  <2>3. Waiting' = Waiting
    BY <2>2 DEF Waiting
  <2>4. OnlyGpios'
    BY <2>2 DEF WalksInv, OnlyGpios
  <2> QED
    BY <2>2, <2>3, <2>4 DEF WalksInv
<1>5. CASE \E p \in Keys : FillIn(p)
  <2>1. PICK p \in Keys : FillIn(p)
    BY <1>5
  <2>2. /\ p \in linked /\ callbacks' = callbacks \union {p} /\ linked' = {}
        /\ older' = [older EXCEPT ![p] = callbacks] /\ UNCHANGED <<library, daemon, walk>>
    BY <2>1 DEF FillIn
  <2>3. older' \in [Keys -> SUBSET Keys]
    BY <2>2 DEF WalksInv, CallbacksInv, CallbackTypes
  <2> QED
    BY <2>2, <2>3 DEF WalksInv, OnlyGpios
<1>6. CASE WaitEnds \/ \E p \in Keys : callback_cancel(p)
  <2>1. PICK p : Unregister(p) /\ linked = {}
    BY <1>6 DEF WaitEnds, callback_cancel, ClientFree, WalksInv
  <2>2. /\ callbacks' = callbacks \ {p} /\ UNCHANGED <<library, daemon, linked>>
        /\ older' = [q \in Keys |-> IF q = p THEN {} ELSE older[q] \ {p}]
        /\ walk' = [i \in Pis |->
                      [walk[i] EXCEPT !.at = IF p \in walk[i].on THEN "stray" ELSE @,
                                      !.on = @ \ {p}, !.past = @ \ {p}]]
    BY <2>1 DEF Unregister
  <2>3. older' \in [Keys -> SUBSET Keys]
    BY <2>2 DEF WalksInv
  <2>4. ASSUME NEW i \in Pis
        PROVE  /\ walk'[i] \in Walks
               /\ \A q \in walk'[i].on : InList(walk'[i], q)
    <3>1. walk[i] \in Walks
      BY DEF WalksInv
    <3>2. PICK a \in {"stray", walk[i].at} :
            walk'[i] = [walk[i] EXCEPT !.at = a, !.on = @ \ {p}, !.past = @ \ {p}]
      <4>1. CASE p \in walk[i].on
        BY <2>2, <4>1
      <4>2. CASE p \notin walk[i].on
        BY <2>2, <3>1, <4>2 DEF Walks
      <4> QED
        BY <4>1, <4>2
    <3>3. walk'[i] \in Walks
      BY <3>1, <3>2 DEF Walks
    <3>4. /\ walk'[i].on = walk[i].on \ {p} /\ walk'[i].past = walk[i].past \ {p}
          /\ walk'[i].at = a /\ a \in {"stray", walk[i].at}
      BY <3>1, <3>2 DEF Walks
    <3>5. \A q \in walk[i].on : InList(walk[i], q)
      BY DEF WalksInv
    <3> QED
      BY <3>3, <3>4, <3>5 DEF InList
  <2>5. walk' \in [Pis -> Walks]
    <3>1. walk' = [i \in Pis |-> walk'[i]]
      BY <2>2
    <3> QED
      BY <2>4, <3>1
  <2> QED
    BY <2>1, <2>2, <2>3, <2>4, <2>5 DEF WalksInv, OnlyGpios
<1>7. CASE SendBits
  <2>1. /\ bitsDue' = NoRequest /\ linked = {}
        /\ UNCHANGED <<library, callbacks, linked, older, walk>>
    BY <1>7 DEF SendBits, WalksInv
  <2>2. ASSUME library = "if"
        PROVE  \A i \in Pis : daemon'[i].event = {}
    <3>1. \A i \in Pis : connection[i].bits["event"] = Bits(i, "event", callbacks)
      BY DEF CallbacksInv, BitsKnown, ReportKinds
    <3>2. \A i \in Pis : connection[i].bits["event"] = {}
      BY <2>2, <3>1 DEF Bits, WalksInv, OnlyGpios
    <3>3. bitsDue.pi \in Pis /\ bitsDue.kind \in ReportKinds
      BY <1>7 DEF SendBits, CallbacksInv, CallbackTypes
    <3>4. daemon \in [Pis -> BitSets]
      BY DEF CallbacksInv, CallbackTypes
    <3>5. CASE bitsDue.kind = "event"
      <4>1. UNCHANGED daemon \/ daemon' = [daemon EXCEPT ![bitsDue.pi]["event"] = {}]
        BY <1>7, <3>2, <3>3, <3>5 DEF SendBits
      <4>2. \A i \in Pis : daemon'[i].event = daemon[i].event \/ daemon'[i].event = {}
        BY <3>3, <3>4, <4>1 DEF BitSets
      <4> QED
        BY <2>2, <4>2 DEF WalksInv, OnlyGpios
    <3>6. CASE bitsDue.kind = "gpio"
      <4>1. \/ UNCHANGED daemon
            \/ daemon' = [daemon EXCEPT ![bitsDue.pi]["gpio"] = connection[bitsDue.pi].bits["gpio"]]
        BY <1>7, <3>6 DEF SendBits
      <4>2. \A i \in Pis : daemon'[i].event = daemon[i].event
        BY <3>3, <3>4, <4>1 DEF BitSets
      <4> QED
        BY <2>2, <4>2 DEF WalksInv, OnlyGpios
    <3> QED
      BY <3>3, <3>5, <3>6 DEF ReportKinds
  <2> QED
    BY <2>1, <2>2 DEF WalksInv, OnlyGpios
<1> QED
  BY <1>1, <1>2, <1>3, <1>4, <1>5, <1>6, <1>7 DEF CallbacksNext

(* Whatever connections start, fail, stop and break, whatever callbacks    *)
(* are registered and cancelled and however reports are read in parts: the *)
(* daemon reports what there are callbacks for, unless a connection was    *)
(* started with callbacks registered for it; reports are put together from *)
(* their own halves until a thread goes by the count of another; and the   *)
(* callbacks of waits do not pile up.                                      *)
THEOREM CallbacksKeptAlways ==
  CallbacksSpec => []CallbacksKept
<1>1. CallbacksInv /\ WalksInv /\ [CallbacksNext]_callbackVars => CallbacksInv' /\ WalksInv'
  BY CallbacksInvKept, WalksInvKept
<1>2. CallbacksInv /\ WalksInv => CallbacksKept
  BY CallbacksInvImplies
<1> QED
  BY <1>1, <1>2, CallbacksInvHolds, WalksInvHolds, PTL DEF CallbacksSpec

(***************************************************************************)
(* What a callback will be told, as a function of the reports not          *)
(* dispatched yet and the levels seen before them                          *)
(***************************************************************************)
LevelsTold(rs, k) == {n \in 1..(k - 1) : rs[n].kind = "levels"}
SeenIn(rs, last, k) ==
  IF LevelsTold(rs, k) = {} THEN last ELSE rs[Max(LevelsTold(rs, k))].level

What(lib, p, r, seen) ==
  IF p.kind # (CASE lib = "if" \/ r.kind \in {"levels", "wdog"} -> "gpio"
                 [] r.kind = "event" -> "event"
                 [] OTHER -> "none") THEN {}
  ELSE IF r.kind = "levels"
  THEN IF Level(p.n, r.level) # Level(p.n, seen) THEN {Level(p.n, r.level)} \ {p.edge} ELSE {}
  ELSE IF p.n = r.n THEN {NoEdge} ELSE {}

DueIn(lib, p, rs, last) == [k \in 1..Len(rs) |-> What(lib, p, rs[k], SeenIn(rs, last, k))]
UnreadIn(u) == [k \in 1..(Len(u) \div 2) |-> u[2 * k].report]

LEMMA Greatest ==
  ASSUME NEW m \in Nat, NEW T \in SUBSET (1..m), T # {}
  PROVE  Max(T) \in T /\ \A y \in T : y <= Max(T)
<1> DEFINE U == {m - x : x \in T}
<1>1. U \in SUBSET Nat /\ U # {}
  OBVIOUS
<1>2. PICK z \in U : \A y \in U : z <= y
  BY <1>1, Least
<1>3. PICK x \in T : z = m - x
  BY <1>2
<1>4. \A y \in T : x >= y
  <2> SUFFICES ASSUME NEW y \in T
               PROVE  x >= y
    OBVIOUS
  <2>1. m - y \in U
    OBVIOUS
  <2>2. m - x <= m - y
    BY <1>2, <1>3, <2>1
  <2> QED
    BY <2>2
<1>5. Max(T) \in T /\ \A y \in T : Max(T) >= y
  BY <1>4 DEF Max
<1>6. PICK w \in T : w = Max(T)
  BY <1>5
<1>7. \A y \in T : y <= w
  <2>1. \A y \in T : w >= y
    BY <1>5, <1>6
  <2> QED
    BY <2>1
<1> QED
  BY <1>6, <1>7

LEMMA GreatestIs ==
  ASSUME NEW m \in Nat, NEW T \in SUBSET (1..m), NEW x \in T, \A y \in T : y <= x
  PROVE  Max(T) = x
<1>1. Max(T) \in T /\ x <= Max(T)
  BY Greatest
<1>2. PICK w \in T : w = Max(T)
  BY <1>1
<1>3. x <= w /\ w <= x
  BY <1>1, <1>2
<1>4. x = w
  BY <1>3
<1> QED
  BY <1>2, <1>4

LEMMA SeenAfterFirst ==
  ASSUME NEW rs \in Seq(Reports), NEW ts \in Seq(Reports), NEW last,
         Len(rs) = Len(ts) + 1, \A n \in 1..Len(ts) : ts[n] = rs[n + 1],
         NEW k \in 1..(Len(ts) + 1)
  PROVE  SeenIn(ts, LastAfter(rs[1], last), k) = SeenIn(rs, last, k + 1)
<1> DEFINE T == LevelsTold(ts, k)
           S == LevelsTold(rs, k + 1)
<1>1. Len(ts) \in Nat /\ k \in Nat
  BY LenProperties
<1>2. T \in SUBSET (1..(k - 1)) /\ S \in SUBSET (1..k) /\ k - 1 \in Nat
  BY <1>1 DEF LevelsTold
<1>3. \A n \in 1..(k - 1) : n + 1 \in 2..k /\ n \in 1..Len(ts)
  BY <1>1
<1>4. \A n \in 1..(k - 1) : n \in T <=> n + 1 \in S
  <2> SUFFICES ASSUME NEW n \in 1..(k - 1)
               PROVE  n \in T <=> n + 1 \in S
    OBVIOUS
  <2>1. n \in T <=> ts[n].kind = "levels"
    BY DEF LevelsTold
  <2>2. n + 1 \in S <=> rs[n + 1].kind = "levels"
    BY <1>1 DEF LevelsTold
  <2> QED
    BY <1>3, <2>1, <2>2
<1>5. 1 \in S <=> rs[1].kind = "levels"
  BY <1>1 DEF LevelsTold
<1>6. CASE T = {}
  <2>1. SeenIn(ts, LastAfter(rs[1], last), k) = LastAfter(rs[1], last)
    BY <1>6 DEF SeenIn
  <2>2. \A n \in S : n = 1
    <3> SUFFICES ASSUME NEW n \in S, n # 1
                 PROVE  FALSE
      OBVIOUS
    <3>1. n - 1 \in 1..(k - 1) /\ n = (n - 1) + 1
      BY <1>1, <1>2
    <3> QED
      BY <1>4, <1>6, <3>1
  <2>3. CASE 1 \in S
    <3>1. S = {1}
      BY <2>2, <2>3
    <3>2. Max(S) = 1
      <4>1. \A y \in S : y <= 1
        BY <2>2
      <4> HIDE DEF S
      <4> QED
        BY <1>1, <1>2, <2>3, <4>1, GreatestIs
    <3>3. SeenIn(rs, last, k + 1) = rs[1].level
      BY <2>3, <3>2 DEF SeenIn
    <3> QED
      BY <1>5, <2>1, <2>3, <3>3 DEF LastAfter
  <2>4. CASE 1 \notin S
    <3>1. S = {}
      BY <2>2, <2>4
    <3>2. SeenIn(rs, last, k + 1) = last
      BY <3>1 DEF SeenIn
    <3> QED
      BY <1>5, <2>1, <2>4, <3>2 DEF LastAfter
  <2> QED
    BY <2>3, <2>4
<1>7. CASE T # {}
  <2> DEFINE m == Max(T)
  <2>1. m \in T /\ \A y \in T : y <= m
    BY <1>2, <1>7, Greatest
  <2> HIDE DEF m
  <2>2. m \in 1..(k - 1) /\ m + 1 \in S
    BY <1>2, <1>4, <2>1
  <2>3. \A y \in S : y <= m + 1
    <3> SUFFICES ASSUME NEW y \in S, y # 1
                 PROVE  y <= m + 1
      BY <1>1, <1>2, <2>2
    <3>1. y - 1 \in 1..(k - 1) /\ y = (y - 1) + 1
      BY <1>1, <1>2
    <3>2. y - 1 \in T
      BY <1>4, <3>1
    <3> QED
      BY <2>1, <2>2, <3>1, <3>2
  <2>4. Max(S) = m + 1
    BY <1>1, <1>2, <2>2, <2>3, GreatestIs
  <2>5. SeenIn(rs, last, k + 1) = rs[m + 1].level
    BY <2>2, <2>4 DEF SeenIn
  <2>6. SeenIn(ts, LastAfter(rs[1], last), k) = ts[m].level
    BY <1>7 DEF SeenIn, m
  <2> QED
    BY <1>3, <2>2, <2>5, <2>6
<1> QED
  BY <1>6, <1>7

LEMMA SeenAsBefore ==
  ASSUME NEW rs \in Seq(Reports), NEW r \in Reports, NEW last, NEW k \in 1..(Len(rs) + 1)
  PROVE  SeenIn(Append(rs, r), last, k) = SeenIn(rs, last, k)
<1> DEFINE T == LevelsTold(rs, k)
           ts == Append(rs, r)
<1>1. Len(rs) \in Nat /\ k \in Nat /\ k - 1 \in Nat
  BY LenProperties
<1>2. \A n \in 1..(k - 1) : ts[n] = rs[n]
  <2>1. \A n \in 1..Len(rs) : ts[n] = rs[n]
    BY AppendProperties
  <2> QED
    BY <1>1, <2>1
<1> HIDE DEF ts
<1>3. LevelsTold(ts, k) = T
  BY <1>2 DEF LevelsTold
<1>4. CASE T = {}
  BY <1>3, <1>4 DEF SeenIn, ts
<1>5. CASE T # {}
  <2>1. T \in SUBSET (1..(k - 1))
    BY DEF LevelsTold
  <2>2. Max(T) \in 1..(k - 1)
    BY <1>1, <1>5, <2>1, Greatest
  <2> HIDE DEF T
  <2>3. SeenIn(ts, last, k) = ts[Max(T)].level /\ SeenIn(rs, last, k) = rs[Max(T)].level
    BY <1>3, <1>5 DEF SeenIn, T
  <2> QED
    BY <1>2, <2>2, <2>3 DEF ts
<1> QED
  BY <1>4, <1>5

LEMMA UnreadReports ==
  ASSUME NEW u \in Seq(HalfReports)
  PROVE  UnreadIn(u) \in Seq(Reports) /\ Len(UnreadIn(u)) = Len(u) \div 2
<1>1. Len(u) \in Nat /\ \A i \in 1..Len(u) : u[i] \in HalfReports
  BY LenProperties, ElementOfSeq
<1>2. Len(u) \div 2 \in Nat /\ \A k \in 1..(Len(u) \div 2) : 2 * k \in 1..Len(u)
  BY <1>1
<1>3. \A k \in 1..(Len(u) \div 2) : u[2 * k].report \in Reports
  BY <1>1, <1>2 DEF HalfReports
<1> DEFINE m == Len(u) \div 2
<1> HIDE DEF m
<1>4. UnreadIn(u) = [k \in 1..m |-> u[2 * k].report]
  BY DEF UnreadIn, m
<1>5. m \in Nat /\ \A k \in 1..m : u[2 * k].report \in Reports
  BY <1>2, <1>3 DEF m
<1> QED
  BY <1>4, <1>5 DEF m

LEMMA UnreadAfterFirst ==
  ASSUME NEW u \in Seq(HalfReports), NEW v \in Seq(HalfReports), TakeTurns(u), TakeTurns(v),
         Len(u) = Len(v) + 2, \A k \in 1..Len(v) : v[k] = u[k + 2]
  PROVE  /\ Len(UnreadIn(u)) = Len(UnreadIn(v)) + 1 /\ UnreadIn(u)[1] = u[1].report
         /\ \A n \in 1..Len(UnreadIn(v)) : UnreadIn(v)[n] = UnreadIn(u)[n + 1]
<1>1. /\ Len(v) \in Nat /\ Len(u) \in Nat /\ Len(v) % 2 = 0
  BY LenProperties DEF TakeTurns
<1> DEFINE m == Len(v) \div 2
<1>2. Len(u) \div 2 = m + 1 /\ m \in Nat /\ Len(v) = 2 * m
  BY <1>1
<1> HIDE DEF m
<1>3. UnreadIn(u) = [k \in 1..(m + 1) |-> u[2 * k].report]
  BY <1>2 DEF UnreadIn
<1>4. UnreadIn(v) = [k \in 1..m |-> v[2 * k].report]
  BY DEF UnreadIn, m
<1>5. Len(UnreadIn(u)) = m + 1 /\ Len(UnreadIn(v)) = m
  BY <1>2, UnreadReports DEF m
<1>6. UnreadIn(u)[1] = u[1].report
  <2>1. UnreadIn(u)[1] = u[2 * 1].report
    BY <1>2, <1>3
  <2>2. 1 \in 1..Len(u) /\ 1 % 2 = 1 /\ 1 + 1 = 2 /\ 2 * 1 = 2
    BY <1>1
  <2>3. u[2].report = u[1].report
    BY <2>2 DEF TakeTurns
  <2> QED
    BY <2>1, <2>2, <2>3
<1>7. ASSUME NEW n \in 1..m
      PROVE  UnreadIn(v)[n] = UnreadIn(u)[n + 1]
  <2>1. n + 1 \in 1..(m + 1) /\ 2 * n \in 1..Len(v) /\ 2 * n + 2 = 2 * (n + 1)
    BY <1>2
  <2>2. UnreadIn(v)[n] = v[2 * n].report /\ UnreadIn(u)[n + 1] = u[2 * (n + 1)].report
    BY <1>3, <1>4, <2>1
  <2>3. v[2 * n] = u[2 * n + 2]
    BY <2>1
  <2> QED
    BY <2>1, <2>2, <2>3
<1> QED
  BY <1>5, <1>6, <1>7

LEMMA UnreadSent ==
  ASSUME NEW u \in Seq(HalfReports), NEW r \in Reports, Len(u) % 2 = 0
  PROVE  UnreadIn(u \o Halves(r)) = Append(UnreadIn(u), r)
<1> DEFINE h == Halves(r)
           v == u \o h
           m == Len(u) \div 2
<1>1. h \in Seq(HalfReports) /\ Len(h) = 2 /\ h[2].report = r
  BY DEF Halves, HalfReports
<1> HIDE DEF h
<1>2. /\ v \in Seq(HalfReports) /\ Len(v) = Len(u) + 2
      /\ \A i \in 1..(Len(u) + 2) : v[i] = IF i <= Len(u) THEN u[i] ELSE h[i - Len(u)]
  <2>1. /\ v \in Seq(HalfReports) /\ Len(v) = Len(u) + Len(h)
        /\ \A i \in 1..(Len(u) + Len(h)) : v[i] = IF i <= Len(u) THEN u[i] ELSE h[i - Len(u)]
    BY <1>1, ConcatProperties
  <2> QED
    BY <1>1, <2>1
<1>3. /\ Len(u) \in Nat
  BY LenProperties
<1>4. Len(v) \div 2 = m + 1 /\ m \in Nat /\ Len(u) = 2 * m
  BY <1>2, <1>3
<1> HIDE DEF v, m
<1>5. UnreadIn(v) = [k \in 1..(m + 1) |-> v[2 * k].report]
  BY <1>4 DEF UnreadIn
<1>6. UnreadIn(u) = [k \in 1..m |-> u[2 * k].report]
  BY DEF UnreadIn, m
<1>7. UnreadIn(u) \in Seq(Reports) /\ Len(UnreadIn(u)) = m
  BY UnreadReports DEF m
<1>8. /\ Append(UnreadIn(u), r) \in Seq(Reports) /\ Len(Append(UnreadIn(u), r)) = m + 1
      /\ \A k \in 1..m : Append(UnreadIn(u), r)[k] = UnreadIn(u)[k]
      /\ Append(UnreadIn(u), r)[m + 1] = r
  BY <1>7, AppendProperties
<1>9. UnreadIn(v) \in Seq(Reports) /\ Len(UnreadIn(v)) = m + 1
  BY <1>2, <1>4, UnreadReports
<1>10. ASSUME NEW k \in 1..(m + 1)
       PROVE  UnreadIn(v)[k] = Append(UnreadIn(u), r)[k]
  <2>1. UnreadIn(v)[k] = v[2 * k].report
    BY <1>5
  <2>2. CASE k = m + 1
    <3>1. 2 * k \in 1..(Len(u) + 2) /\ ~(2 * k <= Len(u)) /\ 2 * k - Len(u) = 2
      BY <1>4, <2>2
    <3>2. v[2 * k] = h[2]
      BY <1>2, <3>1
    <3> QED
      BY <1>1, <1>8, <2>1, <2>2, <3>2
  <2>3. CASE k # m + 1
    <3>1. k \in 1..m /\ 2 * k \in 1..(Len(u) + 2) /\ 2 * k <= Len(u)
      BY <1>4, <2>3
    <3>2. v[2 * k] = u[2 * k]
      BY <1>2, <3>1
    <3>3. UnreadIn(u)[k] = u[2 * k].report
      BY <1>6, <3>1
    <3> QED
      BY <1>8, <2>1, <3>1, <3>2, <3>3
  <2> QED
    BY <2>2, <2>3
<1>11. UnreadIn(v) = Append(UnreadIn(u), r)
  BY <1>8, <1>9, <1>10, SeqEqual
<1> QED
  BY <1>11 DEF v, h

LEMMA Enumerated ==
  ASSUME NEW m \in Nat, NEW f, f = [k \in 1..m |-> f[k]], NEW V, \A k \in 1..m : f[k] \in V
  PROVE  f \in Seq(V) /\ Len(f) = m
<1>1. f \in [1..m -> V]
  BY Zenon
<1>2. f \in Seq(V)
  BY <1>1, IsASeq
<1>3. Len(f) \in Nat /\ DOMAIN f = 1..Len(f) /\ DOMAIN f = 1..m
  BY <1>1, <1>2, LenProperties
<1> QED
  BY <1>2, <1>3

LEMMA DueAfterFirst ==
  ASSUME NEW lib, NEW p, NEW rs \in Seq(Reports), NEW ts \in Seq(Reports), NEW last,
         Len(rs) = Len(ts) + 1, \A n \in 1..Len(ts) : ts[n] = rs[n + 1]
  PROVE  DueIn(lib, p, rs, last) # <<>> /\ DueIn(lib, p, ts, LastAfter(rs[1], last)) = Tail(DueIn(lib, p, rs, last))
<1> DEFINE m == Len(ts)
           f == DueIn(lib, p, rs, last)
           g == DueIn(lib, p, ts, LastAfter(rs[1], last))
<1>1. m \in Nat /\ Len(rs) = m + 1
  BY LenProperties
<1>2. \A k \in 1..m : g[k] = f[k + 1]
  <2> SUFFICES ASSUME NEW k \in 1..m
               PROVE  g[k] = f[k + 1]
    OBVIOUS
  <2>1. k + 1 \in 1..Len(rs) /\ k \in 1..(m + 1)
    BY <1>1
  <2>2. g[k] = What(lib, p, ts[k], SeenIn(ts, LastAfter(rs[1], last), k))
    BY Zenon DEF DueIn
  <2>3. f[k + 1] = What(lib, p, rs[k + 1], SeenIn(rs, last, k + 1))
    BY <2>1, Zenon DEF DueIn
  <2>4. SeenIn(ts, LastAfter(rs[1], last), k) = SeenIn(rs, last, k + 1)
    BY <2>1, SeenAfterFirst
  <2> QED
    BY <2>2, <2>3, <2>4
<1>3. f = [k \in 1..(m + 1) |-> f[k]] /\ g = [k \in 1..m |-> g[k]]
  BY <1>1, Zenon DEF DueIn
<1> HIDE DEF f, g, m
<1> DEFINE V == {f[k] : k \in 1..(m + 1)} \cup {g[k] : k \in 1..m}
<1>7. f \in Seq(V) /\ Len(f) = m + 1 /\ g \in Seq(V) /\ Len(g) = m
  <2>1. (\A k \in 1..(m + 1) : f[k] \in V) /\ (\A k \in 1..m : g[k] \in V) /\ m + 1 \in Nat
    BY <1>1
  <2> HIDE DEF V
  <2> QED
    BY <1>1, <1>3, <2>1, Enumerated
<1> HIDE DEF V
<1>4. f # <<>>
  BY <1>1, <1>7
<1>5. Tail(f) \in Seq(V) /\ Len(Tail(f)) = m /\ \A k \in 1..m : Tail(f)[k] = f[k + 1]
  <2>1. /\ Tail(f) \in Seq(V) /\ Len(Tail(f)) = Len(f) - 1
        /\ \A k \in 1..Len(Tail(f)) : Tail(f)[k] = f[k + 1]
    BY <1>4, <1>7, HeadTailProperties
  <2> QED
    BY <1>1, <1>7, <2>1
<1>6. g = Tail(f)
  BY <1>2, <1>5, <1>7, SeqEqual
<1> QED
  BY <1>4, <1>6 DEF f, g

LEMMA DueAppended ==
  ASSUME NEW lib, NEW p, NEW rs \in Seq(Reports), NEW r \in Reports, NEW last
  PROVE  DueIn(lib, p, Append(rs, r), last) =
           Append(DueIn(lib, p, rs, last), What(lib, p, r, SeenIn(rs, last, Len(rs) + 1)))
<1> DEFINE m == Len(rs)
           ts == Append(rs, r)
           x == What(lib, p, r, SeenIn(rs, last, m + 1))
           f == DueIn(lib, p, rs, last)
           g == DueIn(lib, p, ts, last)
<1>1. m \in Nat
  BY LenProperties
<1>2. Len(ts) = m + 1 /\ (\A k \in 1..m : ts[k] = rs[k]) /\ ts[m + 1] = r
  BY AppendProperties
<1>3. \A k \in 1..m : g[k] = f[k]
  <2> SUFFICES ASSUME NEW k \in 1..m
               PROVE  g[k] = f[k]
    OBVIOUS
  <2>1. k \in 1..Len(ts) /\ k \in 1..(m + 1)
    BY <1>1, <1>2
  <2>2. g[k] = What(lib, p, ts[k], SeenIn(ts, last, k))
    BY <2>1, Zenon DEF DueIn
  <2>3. f[k] = What(lib, p, rs[k], SeenIn(rs, last, k))
    BY Zenon DEF DueIn
  <2>4. SeenIn(ts, last, k) = SeenIn(rs, last, k)
    BY <2>1, SeenAsBefore
  <2> QED
    BY <1>2, <2>2, <2>3, <2>4
<1>4. g[m + 1] = x
  <2>1. m + 1 \in 1..Len(ts) /\ m + 1 \in 1..(m + 1)
    BY <1>1, <1>2
  <2>2. g[m + 1] = What(lib, p, ts[m + 1], SeenIn(ts, last, m + 1))
    BY <2>1, Zenon DEF DueIn
  <2>3. SeenIn(ts, last, m + 1) = SeenIn(rs, last, m + 1)
    BY <2>1, SeenAsBefore
  <2> QED
    BY <1>2, <2>2, <2>3
<1>5. f = [k \in 1..m |-> f[k]]
  BY Zenon DEF DueIn
<1>6. g = [k \in 1..(m + 1) |-> g[k]]
  <2>1. g = [k \in 1..Len(ts) |-> g[k]]
    BY Zenon DEF DueIn
  <2> HIDE DEF g
  <2> QED
    BY <1>2, <2>1
<1> HIDE DEF f, g, m, x, ts
<1> DEFINE V == {f[k] : k \in 1..m} \cup {g[k] : k \in 1..(m + 1)} \cup {x}
<1>7. f \in Seq(V) /\ Len(f) = m /\ g \in Seq(V) /\ Len(g) = m + 1 /\ x \in V
  <2>1. /\ \A k \in 1..m : f[k] \in V
        /\ \A k \in 1..(m + 1) : g[k] \in V
        /\ x \in V /\ m + 1 \in Nat
    BY <1>1
  <2> HIDE DEF V
  <2> QED
    BY <1>1, <1>5, <1>6, <2>1, Enumerated
<1> HIDE DEF V
<1>8. /\ Append(f, x) \in Seq(V) /\ Len(Append(f, x)) = m + 1
      /\ (\A k \in 1..m : Append(f, x)[k] = f[k]) /\ Append(f, x)[m + 1] = x
  BY <1>7, AppendProperties
<1>9. ASSUME NEW k \in 1..(m + 1)
      PROVE  g[k] = Append(f, x)[k]
  <2>1. k \in 1..m \/ k = m + 1
    BY <1>1
  <2> QED
    BY <1>3, <1>4, <1>8, <2>1
<1>10. g = Append(f, x)
  BY <1>7, <1>8, <1>9, SeqEqual
<1> QED
  BY <1>10 DEF f, g, x, ts, m

(***************************************************************************)
(* What a callback will be told, of the connection as it is                *)
(***************************************************************************)
LEMMA Told ==
  ASSUME CallbacksInv, NEW p \in callbacks, NEW r, NEW seen
  PROVE  Calls(p, r, Changed(p.pi, r, seen)) = What(library, p, r, seen)
<1>1. p.pi \in Pis /\ (p.kind = "gpio" => p.n \in connection[p.pi].bits.gpio)
  <2>1. p.pi \in Pis
    BY CallbackNamed DEF CallbacksInv, CallbackTypes
  <2>2. connection[p.pi].bits["gpio"] = Bits(p.pi, "gpio", callbacks)
    BY <2>1 DEF CallbacksInv, BitsKnown, ReportKinds
  <2> QED
    BY <2>1, <2>2 DEF Bits
<1>2. p.kind = "gpio" =>
        (p.n \in Changed(p.pi, r, seen) <=> Level(p.n, r.level) # Level(p.n, seen))
  BY <1>1 DEF Changed
<1> DEFINE changed == Changed(p.pi, r, seen)
<1> HIDE DEF changed
<1>3. CASE p.kind # ListFor(r)
  BY <1>3 DEF Calls, What, ListFor
<1>4. CASE p.kind = ListFor(r) /\ r.kind = "levels"
  <2>1. p.kind = "gpio"
    BY <1>4 DEF ListFor
  <2>2. Calls(p, r, changed) = IF p.n \in changed THEN {Level(p.n, r.level)} \ {p.edge} ELSE {}
    BY <1>4 DEF Calls
  <2>3. What(library, p, r, seen) =
          IF Level(p.n, r.level) # Level(p.n, seen) THEN {Level(p.n, r.level)} \ {p.edge} ELSE {}
    BY <1>4, <2>1 DEF What
  <2> QED
    BY <1>2, <2>1, <2>2, <2>3 DEF changed
<1>5. CASE p.kind = ListFor(r) /\ r.kind # "levels"
  BY <1>5 DEF Calls, What, ListFor
<1> QED
  BY <1>3, <1>4, <1>5 DEF changed

DueOf(p) == DueIn(library, p, UnreadIn(buffer[p.pi] \o stream[p.pi]), connection[p.pi].last)

LEMMA ComingIs ==
  CallbacksInv => \A p \in callbacks : Coming(p) = DueOf(p)
<1> SUFFICES ASSUME CallbacksInv, NEW p \in callbacks
             PROVE  Coming(p) = DueOf(p)
  OBVIOUS
<1> DEFINE u == buffer[p.pi] \o stream[p.pi]
           rs == UnreadIn(u)
           last == connection[p.pi].last
<1>1. Unread(p.pi) = rs
  BY DEF Unread, UnreadIn
<1> HIDE DEF u, rs
<1>2. \A k : SeenBefore(p.pi, k) = SeenIn(rs, last, k)
  BY <1>1 DEF SeenBefore, SeenIn, LevelsTold
<1> HIDE DEF last
<1>3. \A k : ToldOf(p, k) = What(library, p, rs[k], SeenIn(rs, last, k))
  BY <1>1, <1>2, Told DEF ToldOf
<1>4. Coming(p) = [k \in 1..Len(rs) |-> ToldOf(p, k)]
  BY <1>1, Zenon DEF Coming
<1>5. DueOf(p) = [k \in 1..Len(rs) |-> What(library, p, rs[k], SeenIn(rs, last, k))]
  BY Zenon DEF DueOf, DueIn, rs, u, last
<1> QED
  BY <1>3, <1>4, <1>5

LEMMA ComingIsThen ==
  CallbacksInv' => \A p \in callbacks' : Coming(p)' = DueOf(p)'
<1>1. (CallbacksInv => \A p \in callbacks : Coming(p) = DueOf(p))'
  BY ComingIs, PTL
<1> QED
  BY <1>1

(* what comes is a sequence                                                *)
Tellings == SUBSET (0..2)

LEMMA ComingSequence ==
  ASSUME CallbacksInv, NEW p \in callbacks
  PROVE  Coming(p) \in Seq(Tellings)
<1> DEFINE rs == Unread(p.pi)
<1>1. \A k : ToldOf(p, k) \in Tellings
  BY DEF ToldOf, Calls, Level, NoEdge, Tellings
<1>2. Len(rs) \in Nat
  <2>1. p.pi \in Pis
    BY CallbackNamed DEF CallbacksInv, CallbackTypes
  <2>2. buffer[p.pi] \o stream[p.pi] \in Seq(HalfReports)
    BY <2>1, ConcatProperties DEF CallbacksInv, CallbackTypes
  <2>3. UnreadIn(buffer[p.pi] \o stream[p.pi]) \in Seq(Reports)
    BY <2>2, UnreadReports
  <2>4. rs = UnreadIn(buffer[p.pi] \o stream[p.pi])
    BY DEF Unread, UnreadIn
  <2> QED
    BY <2>3, <2>4, LenProperties
<1> HIDE DEF rs
<1>3. Coming(p) = [k \in 1..Len(rs) |-> ToldOf(p, k)]
  BY Zenon DEF Coming, rs
<1> QED
  BY <1>1, <1>2, <1>3

LEMMA OnePut ==
  ASSUME NEW V, NEW s \in Seq(V), NEW x \in V
  PROVE  /\ <<x>> \o s \in Seq(V) /\ <<x>> \o s # <<>>
         /\ Head(<<x>> \o s) = x /\ Tail(<<x>> \o s) = s
         /\ \A y \in V : <<x>> \o Append(s, y) = Append(<<x>> \o s, y)
         /\ s # <<>> => s = <<Head(s)>> \o Tail(s)
<1>1. <<x>> \in Seq(V)
  OBVIOUS
<1>2. <<x>> \o s \in Seq(V) /\ <<x>> \o s # <<>> /\ Len(<<x>> \o s) = Len(s) + 1
  OBVIOUS
<1>3. Head(<<x>> \o s) = x
  OBVIOUS
<1>4. Tail(<<x>> \o s) = s
  OBVIOUS
<1>5. \A y \in V : <<x>> \o Append(s, y) = Append(<<x>> \o s, y)
  OBVIOUS
<1>6. s # <<>> => s = <<Head(s)>> \o Tail(s)
  OBVIOUS
<1> QED
  BY <1>2, <1>3, <1>4, <1>5, <1>6

(***************************************************************************)
(* Every step tells a callback what it is due, and nothing else            *)
(***************************************************************************)
Now(p) == Calls(p, walk[p.pi].report, walk[p.pi].changed)
SameWalk(p) ==
  /\ library' = library /\ (BeforeThread(p)' <=> BeforeThread(p))
  /\ walk'[p.pi].report = walk[p.pi].report /\ walk'[p.pi].changed = walk[p.pi].changed

LEMMA NowStays ==
  ASSUME NEW p, SameWalk(p)
  PROVE  Now(p)' = Now(p) /\ (BeforeThread(p)' <=> BeforeThread(p))
BY DEF SameWalk, Now, Calls, ListFor

LEMMA DueIs ==
  ASSUME NEW p
  PROVE  Due(p) = IF BeforeThread(p) THEN <<Now(p)>> \o Coming(p) ELSE Coming(p)
BY Zenon DEF Due, Now

LEMMA DueIsThen ==
  ASSUME NEW p
  PROVE  Due(p)' = IF BeforeThread(p)' THEN <<Now(p)'>> \o Coming(p)' ELSE Coming(p)'
BY Zenon DEF Due, Now

LEMMA NowTold ==
  ASSUME NEW p
  PROVE  Now(p) \in Tellings
BY DEF Now, Calls, Level, NoEdge, Tellings

(* the parameters of the lemmas that follow                                *)
CallbackKept(p) ==
  /\ CallbacksInv /\ CallbacksInv' /\ WalksInv /\ WalksInv' /\ library' = library
  /\ p \in callbacks /\ Stays(p) /\ ~ForKeepAlive(p)

LEMMA KeptIs ==
  ASSUME NEW p, CallbackKept(p)
  PROVE  /\ CallbacksInv /\ CallbacksInv' /\ WalksInv /\ WalksInv' /\ library' = library
         /\ p \in callbacks /\ p \in callbacks' /\ p \in Keys /\ p.pi \in Pis
         /\ p.kind \in ReportKinds /\ p.pi \in Up /\ connection[p.pi].inUse
         /\ connection'[p.pi].inUse /\ connection'[p.pi].up
         /\ buffer[p.pi] \in Seq(HalfReports) /\ stream[p.pi] \in Seq(HalfReports)
         /\ Len(buffer[p.pi]) \in Nat /\ Len(stream[p.pi]) \in Nat
         /\ walk[p.pi] \in Walks /\ walk'[p.pi] \in Walks
<1>1. p \in Keys /\ p.pi \in Pis
  BY CallbackNamed DEF CallbackKept, CallbacksInv, CallbackTypes
<1>2. buffer[p.pi] \in Seq(HalfReports) /\ stream[p.pi] \in Seq(HalfReports)
  BY <1>1 DEF CallbackKept, CallbacksInv, CallbackTypes
<1>3. walk[p.pi] \in Walks /\ walk'[p.pi] \in Walks
  BY <1>1 DEF CallbackKept, WalksInv
<1> QED
  BY <1>1, <1>2, <1>3, LenProperties, CallbackNamed DEF CallbackKept, Stays, Up

LEMMA NothingNew ==
  ASSUME NEW p, CallbackKept(p), SameWalk(p),
         buffer'[p.pi] \o stream'[p.pi] = buffer[p.pi] \o stream[p.pi],
         connection'[p.pi].last = connection[p.pi].last,
         ~(Len(stream'[p.pi]) > Len(stream[p.pi])),
         p.kind = "gpio" /\ p.n \in daemon[p.pi].gpio => Level(p.n, level') = Level(p.n, level)
  PROVE  CalledForEach(p)
<1>1. DueOf(p)' = DueOf(p)
  BY Zenon DEF DueOf, SameWalk
<1>2. Coming(p)' = Coming(p)
  <2>1. Coming(p) = DueOf(p)
    BY KeptIs, ComingIs
  <2>2. Coming(p)' = DueOf(p)'
    BY KeptIs, ComingIsThen
  <2> QED
    BY <1>1, <2>1, <2>2
<1>3. Due(p)' = Due(p)
  BY <1>2, NowStays, DueIs, DueIsThen, Zenon
<1>4. ToBeTold(p) = {}
  BY DEF ToBeTold
<1> QED
  BY <1>3, <1>4 DEF CalledForEach

(* the first report taken from the buffer                                  *)
LEMMA FirstTaken ==
  ASSUME NEW p, CallbackKept(p), dispatch_notification(p.pi)
  PROVE  LET r == Head(buffer[p.pi]).report IN
         /\ Coming(p) # <<>> /\ Coming(p)' = Tail(Coming(p))
         /\ Head(Coming(p)) = Calls(p, r, Changed(p.pi, r, connection[p.pi].last))
<1> DEFINE pi == p.pi
           b == buffer[pi]
           c == SubSeq(b, 3, Len(b))
           st == stream[pi]
           last == connection[pi].last
           first == Head(b).report
<1>1. pi \in Pis /\ p \in callbacks /\ p \in callbacks' /\ library' = library
  BY KeptIs
<1>2. /\ b \in Seq(HalfReports) /\ st \in Seq(HalfReports) /\ Len(b) >= 2 /\ pi \in Up
  BY KeptIs DEF dispatch_notification
<1>3. buffer'[pi] = c /\ stream'[pi] = st
  BY <1>1, KeptIs DEF dispatch_notification, CallbacksInv, CallbackTypes
<1>4. TakeTurns(b \o st)
  BY <1>1, <1>2, KeptIs DEF CallbacksInv, HalvesTakeTurns
<1>5. /\ c \in Seq(HalfReports) /\ TakeTurns(c \o st) /\ Len(c) = Len(b) - 2
      /\ Len(b \o st) = Len(c \o st) + 2
      /\ \A k \in 1..Len(c \o st) : (c \o st)[k] = (b \o st)[k + 2]
  BY <1>2, <1>4, TwoUsed
<1>6. first = (b \o st)[1].report /\ connection'[pi].last = LastAfter(first, last)
  <2>1. connection' = [connection EXCEPT ![pi].last = LastAfter(Head(b).report, @)]
    BY DEF dispatch_notification
  <2>2. connection'[pi].last = LastAfter(Head(b).report, last)
    BY <1>1, <2>1, KeptIs DEF CallbacksInv, CallbackTypes, Connections
  <2>3. Head(b) = b[1]
    BY <1>2, EmptySeq, HeadTailProperties
  <2>4. (b \o st)[1] = b[1]
    <3>1. \A m, n \in Nat : m >= 2 => 1 \in 1..(m + n) /\ 1 <= m
      OBVIOUS
    <3>2. 1 \in 1..(Len(b) + Len(st)) /\ 1 <= Len(b)
      <4>1. Len(b) \in Nat /\ Len(st) \in Nat /\ Len(b) >= 2
        BY <1>2, LenProperties
      <4> HIDE DEF b, st
      <4> QED
        BY <3>1, <4>1
    <3>3. \A i \in 1..(Len(b) + Len(st)) : (b \o st)[i] = IF i <= Len(b) THEN b[i] ELSE st[i - Len(b)]
      BY <1>2, ConcatProperties
    <3> QED
      BY <3>2, <3>3
  <2> QED
    BY <2>2, <2>3, <2>4
<1> DEFINE u == b \o st
           v == c \o st
<1>7. u \in Seq(HalfReports) /\ v \in Seq(HalfReports)
  BY <1>2, <1>5, ConcatProperties
<1> HIDE DEF c, b, st, pi, last, first
<1>8. /\ Len(UnreadIn(u)) = Len(UnreadIn(v)) + 1 /\ UnreadIn(u)[1] = u[1].report
      /\ \A n \in 1..Len(UnreadIn(v)) : UnreadIn(v)[n] = UnreadIn(u)[n + 1]
  BY <1>4, <1>5, <1>7, UnreadAfterFirst
<1>9. UnreadIn(u) \in Seq(Reports) /\ UnreadIn(v) \in Seq(Reports)
  BY <1>7, UnreadReports
<1>10. UnreadIn(u)[1] = first
  BY <1>6, <1>8
<1> HIDE DEF u, v
<1> DEFINE due == DueIn(library, p, UnreadIn(u), last)
<1>11. /\ due # <<>>
       /\ DueIn(library, p, UnreadIn(v), LastAfter(UnreadIn(u)[1], last)) = Tail(due)
  BY <1>8, <1>9, DueAfterFirst
<1>12. DueOf(p) = due
  BY Zenon DEF DueOf, u, b, st, last, pi
<1>13. DueOf(p)' = DueIn(library, p, UnreadIn(v), LastAfter(UnreadIn(u)[1], last))
  <2>1. DueOf(p)' = DueIn(library', p, UnreadIn(buffer'[pi] \o stream'[pi]), connection'[pi].last)
    BY Zenon DEF DueOf, pi
  <2>2. buffer'[pi] \o stream'[pi] = v
    BY <1>3 DEF v
  <2>3. connection'[pi].last = LastAfter(UnreadIn(u)[1], last)
    BY <1>6, <1>10
  <2> QED
    BY <1>1, <2>1, <2>2, <2>3
<1>14. Coming(p) = DueOf(p) /\ Coming(p)' = DueOf(p)'
  BY <1>1, KeptIs, ComingIs, ComingIsThen
<1>15. Coming(p) # <<>> /\ Coming(p)' = Tail(Coming(p))
  BY <1>11, <1>12, <1>13, <1>14, Zenon
<1>16. Head(Coming(p)) = What(library, p, first, last)
  <2>1. Coming(p) \in Seq(Tellings)
    BY KeptIs, ComingSequence
  <2>2. Head(Coming(p)) = Coming(p)[1]
    BY <1>15, <2>1, HeadTailProperties
  <2>3. 1 \in 1..Len(UnreadIn(u))
    <3>1. Len(UnreadIn(v)) \in Nat
      BY <1>9, LenProperties
    <3> QED
      BY <1>8, <3>1
  <2>4. due[1] = What(library, p, UnreadIn(u)[1], SeenIn(UnreadIn(u), last, 1))
    BY <2>3, Zenon DEF DueIn
  <2>5. LevelsTold(UnreadIn(u), 1) = {}
    BY DEF LevelsTold
  <2>6. SeenIn(UnreadIn(u), last, 1) = last
    BY <2>5 DEF SeenIn
  <2> QED
    BY <1>10, <1>12, <1>14, <2>2, <2>4, <2>6
<1>17. Calls(p, first, Changed(pi, first, last)) = What(library, p, first, last)
  BY <1>1, KeptIs, Told DEF pi
<1> QED
  BY <1>15, <1>16, <1>17 DEF first, b, last, pi

LEMMA WalkBegins ==
  ASSUME NEW p, CallbackKept(p), dispatch_notification(p.pi)
  PROVE  CalledForEach(p)
<1> DEFINE pi == p.pi
           r == Head(buffer[pi]).report
           changed == Changed(pi, r, connection[pi].last)
<1>1. /\ Coming(p) # <<>> /\ Coming(p)' = Tail(Coming(p))
      /\ Head(Coming(p)) = Calls(p, r, changed)
  BY FirstTaken
<1>2. Coming(p) \in Seq(Tellings)
  BY KeptIs, ComingSequence
<1>3. ~BeforeThread(p)
  BY DEF dispatch_notification, ThreadIdle, BeforeThread
<1>4. Due(p) = Coming(p)
  BY <1>3, DueIs
<1>5. pi \in Pis /\ MoveOn(pi, r, {}, changed)
  BY KeptIs, Zenon DEF dispatch_notification
<1>6. r \in Reports /\ changed \in SUBSET CallbackGpios
  <2>1. buffer[pi] \in Seq(HalfReports) /\ Len(buffer[pi]) >= 2
    BY KeptIs DEF dispatch_notification
  <2>2. buffer[pi] # <<>>
    BY <2>1, EmptySeq
  <2>3. Head(buffer[pi]) \in HalfReports
    BY <2>1, <2>2, HeadTailProperties
  <2> QED
    BY <1>5, <2>3, KeptIs, ChangedGpios DEF HalfReports
<1>7. ToBeTold(p) = {}
  <2>1. stream' = stream /\ level' = level
    BY DEF dispatch_notification
  <2>2. ~(Len(stream'[p.pi]) > Len(stream[p.pi]))
    BY <2>1, KeptIs
  <2> QED
    BY <2>1, <2>2 DEF ToBeTold
<1> HIDE DEF r, changed
<1>7a. PICK w \in Walks : Moved(pi, r, {}, changed, w)
  BY <1>5, <1>6, KeptIs, MovesOn
<1>8. /\ walk' = [walk EXCEPT ![pi] = w]
      /\ w.past = {} /\ w.report = r /\ w.changed = changed
      /\ w.at \in {"standing", "stray", "end"}
      /\ w.at = "end" => ListOf(r, callbacks) \subseteq {}
  BY <1>7a DEF Moved
<1>9. walk'[pi] = w
  BY <1>5, <1>8, KeptIs DEF WalksInv
<1>10. library' = library /\ p \in callbacks
  BY KeptIs
<1>11. CASE w.at = "end"
  <2>1. p.kind # ListFor(r)
    BY <1>8, <1>10, <1>11 DEF ListOf
  <2>2. Head(Coming(p)) = {}
    BY <1>1, <2>1 DEF Calls
  <2>3. ~BeforeThread(p)'
    BY <1>9, <1>11 DEF BeforeThread
  <2>4. Due(p)' = Tail(Due(p))
    BY <1>1, <1>4, <2>3, DueIsThen
  <2> QED
    BY <1>1, <1>4, <2>2, <2>4 DEF CalledForEach
<1>12. CASE w.at # "end"
  <2>1. BeforeThread(p)'
    BY <1>8, <1>9, <1>12 DEF BeforeThread
  <2>2. Now(p)' = Head(Coming(p))
    BY <1>1, <1>8, <1>9, <1>10 DEF Now, Calls, ListFor
  <2>3. Due(p)' = <<Head(Coming(p))>> \o Tail(Coming(p))
    BY <1>1, <2>1, <2>2, DueIsThen
  <2>4. Head(Coming(p)) \in Tellings
    BY <1>1, <1>2, HeadTailProperties
  <2>5. Coming(p) = <<Head(Coming(p))>> \o Tail(Coming(p))
    BY <1>1, <1>2, <2>4, OnePut
  <2> QED
    BY <1>4, <1>7, <2>3, <2>5 DEF CalledForEach
<1> QED
  BY <1>11, <1>12

(* nothing of what is to come changes                                      *)
LEMMA ComingStays ==
  ASSUME NEW p, CallbackKept(p),
         UNCHANGED <<buffer[p.pi], stream[p.pi], connection[p.pi]>>
  PROVE  Coming(p)' = Coming(p)
<1>1. DueOf(p)' = DueOf(p)
  BY KeptIs, Zenon DEF DueOf
<1>2. Coming(p) = DueOf(p)
  BY KeptIs, ComingIs
<1>3. Coming(p)' = DueOf(p)'
  BY KeptIs, ComingIsThen
<1> QED
  BY <1>1, <1>2, <1>3

LEMMA WalkTells ==
  ASSUME NEW p, CallbackKept(p), WalkOn(p.pi) \/ WalkEnds(p.pi)
  PROVE  CalledForEach(p)
<1> DEFINE pi == p.pi
<1>1. /\ pi \in Pis /\ p \in callbacks /\ walk[pi] \in Walks /\ library' = library
  BY KeptIs
<1>2. UNCHANGED <<buffer, stream, connection, level>>
  BY DEF WalkOn, WalkEnds, OnlyWalks, NoReports
<1>3. Coming(p)' = Coming(p)
  BY <1>2, ComingStays
<1>4. ToBeTold(p) = {}
  <2>1. ~(Len(stream'[p.pi]) > Len(stream[p.pi]))
    BY <1>2, KeptIs
  <2> QED
    BY <1>2, <2>1 DEF ToBeTold
<1>5. CASE WalkEnds(pi)
  <2>1. walk'[pi].at = "idle" /\ walk[pi].at = "end"
    BY <1>1, <1>5, KeptIs DEF WalkEnds, NoWalk, WalksInv
  <2>2. ~BeforeThread(p) /\ ~BeforeThread(p)'
    BY <2>1 DEF BeforeThread
  <2> QED
    BY <1>3, <1>4, <2>2, DueIs, DueIsThen DEF CalledForEach
<1>6. CASE WalkOn(pi)
  <2> DEFINE past == walk[pi].past \union walk[pi].on
  <2>1. /\ walk[pi].at = "standing" /\ MoveOn(pi, walk[pi].report, past, walk[pi].changed)
    BY <1>6 DEF WalkOn
  <2>2. /\ walk[pi].report \in Reports /\ past \in SUBSET Keys
        /\ walk[pi].changed \in SUBSET CallbackGpios
    BY <1>1 DEF Walks
  <2> HIDE DEF past
  <2>2a. PICK w \in Walks : Moved(pi, walk[pi].report, past, walk[pi].changed, w)
    BY <1>1, <2>1, <2>2, KeptIs, MovesOn
  <2>3. /\ walk' = [walk EXCEPT ![pi] = w]
        /\ w.past = past /\ w.report = walk[pi].report /\ w.changed = walk[pi].changed
        /\ \A q \in w.on : InList(w, q)
        /\ w.at \in {"standing", "stray", "end"}
        /\ w.at = "end" => ListOf(walk[pi].report, callbacks) \subseteq past
    BY <2>2a DEF Moved
  <2>4. walk'[pi] = w
    BY <1>1, <2>3, KeptIs DEF WalksInv
  <2>5. Now(p)' = Now(p)
    BY <1>1, <2>3, <2>4 DEF Now, Calls, ListFor
  <2>6. Coming(p) \in Seq(Tellings) /\ Now(p) \in Tellings
    BY KeptIs, ComingSequence, NowTold
  <2>7. /\ <<Now(p)>> \o Coming(p) # <<>> /\ Head(<<Now(p)>> \o Coming(p)) = Now(p)
        /\ Tail(<<Now(p)>> \o Coming(p)) = Coming(p)
    BY <2>6, OnePut
  <2>8. BeforeThread(p) <=> p \notin walk[pi].past
    BY <2>1 DEF BeforeThread
  <2>9. BeforeThread(p)' <=> w.at # "end" /\ p \notin past
    BY <2>3, <2>4 DEF BeforeThread
  <2>10. CASE p \in walk[pi].on
    <3>1. p \notin walk[pi].past
      BY <1>1, <2>10, KeptIs DEF WalksInv, InList
    <3>2. BeforeThread(p) /\ ~BeforeThread(p)'
      BY <2>8, <2>9, <2>10, <3>1 DEF past
    <3>3. Leaves(p)
      BY <2>3, <2>4, <2>10 DEF Leaves, InList, past
    <3>4. Due(p) = <<Now(p)>> \o Coming(p) /\ Due(p)' = Coming(p)
      BY <1>3, <3>2, DueIs, DueIsThen
    <3>5. Due(p) # <<>> /\ Due(p)' = Tail(Due(p))
      BY <2>7, <3>4
    <3> QED
      BY <3>3, <3>5 DEF CalledForEach
  <2>11. CASE p \notin walk[pi].on /\ (BeforeThread(p)' <=> BeforeThread(p))
    <3>1. Due(p)' = Due(p)
      BY <1>3, <2>5, <2>11, DueIs, DueIsThen, Zenon
    <3> QED
      BY <1>4, <3>1 DEF CalledForEach
  <2>12. CASE p \notin walk[pi].on /\ ~(BeforeThread(p)' <=> BeforeThread(p))
    <3>1. p \notin past /\ BeforeThread(p) /\ ~BeforeThread(p)' /\ w.at = "end"
      BY <2>8, <2>9, <2>12 DEF past
    <3>2. p.kind # ListFor(walk[pi].report)
      BY <1>1, <2>3, <3>1 DEF ListOf
    <3>3. Now(p) = {}
      BY <3>2 DEF Now, Calls
    <3>4. Due(p) = <<Now(p)>> \o Coming(p) /\ Due(p)' = Coming(p)
      BY <1>3, <3>1, DueIs, DueIsThen
    <3>5. Due(p) # <<>> /\ Due(p)' = Tail(Due(p)) /\ Head(Due(p)) = {}
      BY <2>7, <3>3, <3>4
    <3> QED
      BY <3>5 DEF CalledForEach
  <2> QED
    BY <2>10, <2>11, <2>12
<1> QED
  BY <1>5, <1>6

LEMMA OneMoreDue ==
  ASSUME NEW p, CallbackKept(p), NEW to \in SUBSET Up, NEW r \in Reports,
         SendReport(to, r), p.pi \in to,
         LET seen == SeenIn(UnreadIn(buffer[p.pi] \o stream[p.pi]), connection[p.pi].last,
                            Len(UnreadIn(buffer[p.pi] \o stream[p.pi])) + 1)
         IN ToBeTold(p) = What(library, p, r, seen)
  PROVE  CalledForEach(p)
<1> DEFINE pi == p.pi
           b == buffer[pi]
           st == stream[pi]
           last == connection[pi].last
           u == b \o st
           rs == UnreadIn(u)
<1>1. pi \in Pis /\ pi \in Up /\ library' = library
  BY KeptIs
<1>2. b \in Seq(HalfReports) /\ st \in Seq(HalfReports) /\ TakeTurns(u)
  BY <1>1, KeptIs DEF CallbacksInv, HalvesTakeTurns
<1>3. buffer'[pi] = b /\ stream'[pi] = st \o Halves(r) /\ connection'[pi].last = last
  BY <1>1 DEF SendReport
<1>4. b \o (st \o Halves(r)) = u \o Halves(r)
  BY <1>2, TwoSent
<1>5. u \in Seq(HalfReports) /\ Len(u) % 2 = 0
  BY <1>2, ConcatProperties DEF TakeTurns
<1> HIDE DEF u
<1>6. UnreadIn(u \o Halves(r)) = Append(rs, r) /\ rs \in Seq(Reports)
  BY <1>5, UnreadSent, UnreadReports
<1> HIDE DEF rs
<1> DEFINE x == What(library, p, r, SeenIn(rs, last, Len(rs) + 1))
<1>7. DueIn(library, p, Append(rs, r), last) = Append(DueIn(library, p, rs, last), x)
  BY <1>6, DueAppended
<1>8. DueOf(p) = DueIn(library, p, rs, last)
  BY Zenon DEF DueOf, rs, u
<1>9. DueOf(p)' = DueIn(library, p, Append(rs, r), last)
  <2>1. DueOf(p)' = DueIn(library', p, UnreadIn(buffer'[pi] \o stream'[pi]), connection'[pi].last)
    BY Zenon DEF DueOf
  <2> QED
    BY <1>1, <1>3, <1>4, <1>6, <2>1
<1>10. Coming(p) = DueOf(p) /\ Coming(p)' = DueOf(p)'
  BY KeptIs, ComingIs, ComingIsThen
<1>11. ToBeTold(p) = x
  BY DEF rs, u
<1>12. x \in Tellings
  BY DEF What, Level, NoEdge, Tellings
<1> HIDE DEF x
<1>13. Coming(p)' = Append(Coming(p), x)
  BY <1>7, <1>8, <1>9, <1>10, Zenon
<1>14. SameWalk(p)
  BY <1>1 DEF SendReport, SameWalk, BeforeThread
<1>15. Coming(p) \in Seq(Tellings) /\ Now(p) \in Tellings
  BY KeptIs, ComingSequence, NowTold
<1>16. <<Now(p)>> \o Append(Coming(p), x) = Append(<<Now(p)>> \o Coming(p), x)
  BY <1>12, <1>15, OnePut
<1>17. Due(p)' = Append(Due(p), x)
  BY <1>13, <1>14, <1>16, NowStays, DueIs, DueIsThen
<1> QED
  BY <1>11, <1>17 DEF CalledForEach

LEMMA LastOfSent ==
  ASSUME CallbacksInv, NEW to \in SUBSET Up, NEW r \in Reports, SendReport(to, r), NEW i \in to
  PROVE  Len(stream'[i]) > Len(stream[i]) /\ Last(stream'[i]).report = r
<1> DEFINE h == Halves(r)
           st == stream[i]
<1>1. i \in Pis /\ st \in Seq(HalfReports)
  BY DEF Up, CallbacksInv, CallbackTypes
<1>2. stream'[i] = st \o h
  BY <1>1 DEF SendReport
<1>3. h \in Seq(HalfReports) /\ Len(h) = 2 /\ h[2].report = r
  BY DEF Halves, HalfReports
<1> HIDE DEF h, st
<1>4. Len(st) \in Nat
  BY <1>1, LenProperties
<1>5. /\ Len(st \o h) = Len(st) + Len(h)
      /\ \A n \in 1..(Len(st) + Len(h)) : (st \o h)[n] = IF n <= Len(st) THEN st[n] ELSE h[n - Len(st)]
  BY <1>1, <1>3, ConcatProperties
<1>6. Len(st) + 2 \in 1..(Len(st) + Len(h)) /\ ~(Len(st) + 2 <= Len(st)) /\ Len(st) + 2 - Len(st) = 2
  BY <1>3, <1>4
<1>7. (st \o h)[Len(st) + 2] = h[2]
  BY <1>5, <1>6
<1>8. Last(st \o h) = h[2] /\ Len(st \o h) > Len(st)
  BY <1>3, <1>4, <1>5, <1>7 DEF Last
<1> QED
  BY <1>2, <1>3, <1>8 DEF st

LEMMA LibraryStays ==
  ASSUME [CallbacksNext]_callbackVars
  PROVE  library' = library
<1>1. CASE UNCHANGED callbackVars
  BY <1>1 DEF callbackVars
<1>2. CASE \E pi \in Pis : \/ ReadStream(pi) \/ dispatch_notification(pi)
                           \/ WalkOn(pi) \/ GoAstray(pi) \/ WalkEnds(pi)
                           \/ pigpio_stop(pi) \/ ConnectionLost(pi)
  BY <1>2 DEF ReadStream, dispatch_notification, WalkOn, GoAstray, WalkEnds, OnlyWalks,
              pigpio_stop, ConnectionLost
<1>3. CASE pigpio_start \/ StartFails \/ WaitEnds \/ SendBits
  BY <1>3 DEF pigpio_start, StartFails, WaitEnds, Unregister, SendBits
<1>4. CASE \E p \in Keys : callback(p) \/ FillIn(p) \/ callback_cancel(p) \/ wait_for_edge(p)
  BY <1>4 DEF callback, FillIn, callback_cancel, wait_for_edge, Link, Unregister
<1>5. CASE \/ \E g \in CallbackGpios : GpioChanges(g) \/ WatchdogFires(g)
           \/ \E e \in CallbackEvents : EventFires(e)
           \/ KeepAlive
  BY <1>5 DEF GpioChanges, WatchdogFires, EventFires, KeepAlive, SendReport
<1> QED
  BY <1>1, <1>2, <1>3, <1>4, <1>5 DEF CallbacksNext

LEMMA AsItWas ==
  ASSUME NEW p, CallbackKept(p), SameWalk(p), level' = level, buffer'[p.pi] = buffer[p.pi],
         stream'[p.pi] = stream[p.pi], connection'[p.pi].last = connection[p.pi].last
  PROVE  CalledForEach(p)
<1>1. ~(Len(stream'[p.pi]) > Len(stream[p.pi]))
  BY KeptIs
<1>2. buffer'[p.pi] \o stream'[p.pi] = buffer[p.pi] \o stream[p.pi]
  OBVIOUS
<1> QED
  BY <1>1, <1>2, NothingNew

LEMMA ThreadTells ==
  ASSUME NEW p, CallbackKept(p), walk[p.pi].at # "stray", NEW pi \in Pis,
         \/ ReadStream(pi) \/ dispatch_notification(pi)
         \/ WalkOn(pi) \/ GoAstray(pi) \/ WalkEnds(pi)
         \/ pigpio_stop(pi) \/ ConnectionLost(pi)
  PROVE  CalledForEach(p)
<1>1. CASE ReadStream(pi) /\ pi = p.pi
  <2> DEFINE b == buffer[pi]
             st == stream[pi]
  <2>1. PICK n \in 1..Len(st) :
          /\ buffer' = [buffer EXCEPT ![pi] = @ \o SubSeq(stream[pi], 1, n)]
          /\ stream' = [stream EXCEPT ![pi] = SubSeq(@, n + 1, Len(@))]
    BY <1>1 DEF ReadStream
  <2>2. connection' = connection /\ level' = level /\ SameWalk(p)
    BY <1>1 DEF ReadStream, SameWalk, BeforeThread
  <2>3. buffer'[pi] = b \o SubSeq(st, 1, n) /\ stream'[pi] = SubSeq(st, n + 1, Len(st))
    BY <2>1, KeptIs DEF CallbacksInv, CallbackTypes
  <2>4. b \in Seq(HalfReports) /\ st \in Seq(HalfReports) /\ Len(b) \in Nat /\ Len(st) \in Nat
    BY <1>1, KeptIs
  <2> HIDE DEF b, st
  <2>5. buffer'[pi] \o stream'[pi] = b \o st
    <3>1. (b \o SubSeq(st, 1, n)) \o SubSeq(st, n + 1, Len(st)) = b \o st
      BY <2>4, PartRead
    <3> QED
      BY <2>3, <3>1, Zenon
  <2>7. ~(Len(stream'[pi]) > Len(st))
    <3>1. \A i \in (n + 1)..Len(st) : st[i] \in HalfReports
      BY <2>4, ElementOfSeq
    <3>2. Len(stream'[pi]) = IF n + 1 <= Len(st) THEN Len(st) - (n + 1) + 1 ELSE 0
      BY <2>3, <2>4, <3>1, SubSeqProperties
    <3> QED
      BY <2>4, <3>2
  <2> QED
    BY <1>1, <2>2, <2>5, <2>7, NothingNew DEF b, st
<1>2. CASE dispatch_notification(pi) /\ pi = p.pi
  BY <1>2, WalkBegins
<1>3. CASE (WalkOn(pi) \/ WalkEnds(pi)) /\ pi = p.pi
  BY <1>3, WalkTells
<1>4. CASE GoAstray(pi) /\ pi = p.pi
  BY <1>4 DEF GoAstray
<1>5. CASE pi # p.pi
  <2>1. CASE ReadStream(pi) \/ dispatch_notification(pi)
    <3>1. /\ buffer'[p.pi] = buffer[p.pi] /\ stream'[p.pi] = stream[p.pi]
          /\ connection'[p.pi] = connection[p.pi] /\ level' = level
      BY <1>5, <2>1, KeptIs DEF ReadStream, dispatch_notification, CallbacksInv, CallbackTypes
    <3>2. walk'[p.pi] = walk[p.pi]
      BY <1>5, <2>1, KeptIs DEF ReadStream, dispatch_notification, MoveOn, WalksInv
    <3> QED
      BY <3>1, <3>2, KeptIs, AsItWas DEF SameWalk, BeforeThread
  <2>2. CASE WalkOn(pi) \/ GoAstray(pi) \/ WalkEnds(pi)
    <3>1. UNCHANGED <<buffer, stream, connection, level>>
      BY <2>2 DEF WalkOn, GoAstray, WalkEnds, OnlyWalks, NoReports
    <3>2. walk'[p.pi] = walk[p.pi]
      BY <1>5, <2>2, KeptIs DEF WalkOn, GoAstray, WalkEnds, MoveOn, WalksInv
    <3> QED
      BY <3>1, <3>2, KeptIs, AsItWas DEF SameWalk, BeforeThread
  <2>3. CASE pigpio_stop(pi) \/ ConnectionLost(pi)
    <3>1. /\ buffer'[p.pi] = buffer[p.pi] /\ stream'[p.pi] = stream[p.pi]
          /\ connection'[p.pi] = connection[p.pi] /\ level' = level
          /\ walk'[p.pi] = walk[p.pi]
      BY <1>5, <2>3, KeptIs DEF pigpio_stop, ConnectionLost, CallbacksInv, CallbackTypes, WalksInv
    <3> QED
      BY <3>1, KeptIs, AsItWas DEF SameWalk, BeforeThread
  <2> QED
    BY <2>1, <2>2, <2>3
<1>6. CASE (pigpio_stop(pi) \/ ConnectionLost(pi)) /\ pi = p.pi
  <2>1. ~connection'[pi].up
    BY <1>6, KeptIs DEF pigpio_stop, ConnectionLost, CallbacksInv, CallbackTypes, Connections
  <2> QED
    BY <1>6, <2>1, KeptIs
<1> QED
  BY <1>1, <1>2, <1>3, <1>4, <1>5, <1>6

LEMMA ClientTells ==
  ASSUME NEW p, CallbackKept(p),
         \/ pigpio_start \/ StartFails \/ WaitEnds \/ SendBits
         \/ \E q \in Keys : callback(q) \/ FillIn(q) \/ callback_cancel(q) \/ wait_for_edge(q)
  PROVE  CalledForEach(p)
<1>1. level' = level /\ buffer' = buffer /\ stream' = stream
  BY DEF pigpio_start, StartFails, WaitEnds, SendBits, callback, callback_cancel, wait_for_edge,
         Link, FillIn, Unregister, NoReports
<1>2. connection'[p.pi].last = connection[p.pi].last
  <2>1. CASE pigpio_start \/ StartFails
    <3>1. FirstOf(UnusedSlots) # p.pi
      <4>1. ~connection[FirstOf(UnusedSlots)].inUse
        BY <2>1, FirstUnused DEF pigpio_start, StartFails
      <4> QED
        BY <4>1, KeptIs
    <3> QED
      BY <2>1, <3>1, KeptIs DEF pigpio_start, StartFails, CallbacksInv, CallbackTypes
  <2>2. CASE SendBits \/ \E q \in Keys : callback(q) \/ wait_for_edge(q)
    BY <2>2 DEF SendBits, callback, wait_for_edge, Link
  <2>3. CASE WaitEnds \/ \E q \in Keys : FillIn(q) \/ callback_cancel(q)
    <3>1. PICK q : FindBits(q.pi, q.kind, callbacks') /\ q \in Keys
      BY <2>3, KeptIs DEF WaitEnds, FillIn, callback_cancel, Unregister,
                          Waiting, CallbacksInv, CallbackTypes
    <3>2. CASE connection' = connection
      BY <3>2
    <3>3. CASE connection' = [connection EXCEPT ![q.pi].bits[q.kind] = Bits(q.pi, q.kind, callbacks')]
      BY <3>3, KeptIs DEF CallbacksInv, CallbackTypes, Connections
    <3> QED
      BY <3>1, <3>2, <3>3 DEF FindBits
  <2> QED
    BY <2>1, <2>2, <2>3
<1>3. SameWalk(p)
  <2>1. CASE \/ pigpio_start \/ StartFails \/ SendBits
             \/ \E q \in Keys : callback(q) \/ FillIn(q) \/ wait_for_edge(q)
    <3>1. walk' = walk
      BY <2>1 DEF pigpio_start, StartFails, SendBits, callback, FillIn, wait_for_edge, Link
    <3> QED
      BY <3>1, KeptIs DEF SameWalk, BeforeThread
  <2>2. CASE WaitEnds \/ \E q \in Keys : callback_cancel(q)
    <3>1. PICK q : Unregister(q)
      BY <2>2 DEF WaitEnds, callback_cancel
    <3>2. p # q
      BY <3>1, KeptIs DEF Unregister
    <3>3. walk'[p.pi] = [walk[p.pi] EXCEPT !.at = IF q \in walk[p.pi].on THEN "stray" ELSE @,
                                           !.on = @ \ {q}, !.past = @ \ {q}]
      BY <3>1, KeptIs DEF Unregister
    <3>4. walk[p.pi] \in Walks
      BY KeptIs
    <3>5. /\ walk'[p.pi].report = walk[p.pi].report /\ walk'[p.pi].changed = walk[p.pi].changed
          /\ walk'[p.pi].past = walk[p.pi].past \ {q}
          /\ walk'[p.pi].at = IF q \in walk[p.pi].on THEN "stray" ELSE walk[p.pi].at
      BY <3>3, <3>4 DEF Walks
    <3>6. q \in walk[p.pi].on => walk[p.pi].at \notin {"idle", "end"}
      BY KeptIs DEF WalksInv, InList
    <3>7. BeforeThread(p)' <=> BeforeThread(p)
      BY <3>2, <3>5, <3>6 DEF BeforeThread
    <3> QED
      BY <3>5, <3>7, KeptIs DEF SameWalk
  <2> QED
    BY <2>1, <2>2
<1> QED
  BY <1>1, <1>2, <1>3, AsItWas

LEMMA NotSentTo ==
  ASSUME NEW p, CallbackKept(p), NEW to \in SUBSET Up, NEW r \in Reports, SendReport(to, r),
         p.pi \notin to,
         p.kind = "gpio" /\ p.n \in daemon[p.pi].gpio => Level(p.n, level') = Level(p.n, level)
  PROVE  CalledForEach(p)
<1>1. /\ buffer'[p.pi] = buffer[p.pi] /\ stream'[p.pi] = stream[p.pi]
      /\ connection'[p.pi] = connection[p.pi] /\ SameWalk(p)
  BY KeptIs DEF SendReport, SameWalk, BeforeThread
<1>2. ~(Len(stream'[p.pi]) > Len(stream[p.pi]))
  BY <1>1, KeptIs
<1>3. buffer'[p.pi] \o stream'[p.pi] = buffer[p.pi] \o stream[p.pi]
  BY <1>1
<1> QED
  BY <1>1, <1>2, <1>3, NothingNew

LEMMA ChangeTold ==
  ASSUME NEW p, CallbackKept(p), DepartureKnown(p), NEW g \in CallbackGpios, GpioChanges(g)
  PROVE  CalledForEach(p)
<1> DEFINE to == Listening("gpio", g)
           r == LevelsAre(level')
           rs == UnreadIn(buffer[p.pi] \o stream[p.pi])
           seen == SeenIn(rs, connection[p.pi].last, Len(rs) + 1)
<1>1. to \in SUBSET Up /\ SendReport(to, r) /\ (p.pi \in to <=> g \in daemon[p.pi].gpio)
  BY KeptIs DEF Listening, GpioChanges
<1>2. /\ level' \subseteq CallbackGpios /\ r \in Reports
      /\ r.kind = "levels" /\ r.level = level'
  BY KeptIs DEF CallbacksInv, CallbackTypes, LevelsAre, ReportOf, Reports
<1>3. \A n : n # g => Level(n, level') = Level(n, level)
  BY DEF GpioChanges, Level
<1>4. Level(g, level') # Level(g, level)
  BY DEF GpioChanges, Level
<1>5. p.kind = "gpio" => Level(p.n, seen) = Level(p.n, level)
  BY DEF DepartureKnown, SeenBefore, SeenIn, LevelsTold, Unread, UnreadIn, Level
<1> HIDE DEF to, r, seen
<1>6. CASE p.pi \notin to
  <2>1. p.kind = "gpio" /\ p.n \in daemon[p.pi].gpio => p.n # g
    BY <1>1, <1>6
  <2>2. p.kind = "gpio" /\ p.n \in daemon[p.pi].gpio => Level(p.n, level') = Level(p.n, level)
    BY <1>3, <2>1
  <2> QED
    BY <1>1, <1>2, <1>6, <2>2, NotSentTo
<1>7. CASE p.pi \in to
  <2>1. Last(stream'[p.pi]).report = r
    BY <1>1, <1>2, <1>7, KeptIs, LastOfSent
  <2>2. What(library, p, r, seen) =
          IF p.kind = "gpio" /\ Level(p.n, level') # Level(p.n, seen)
          THEN {Level(p.n, level')} \ {p.edge} ELSE {}
    BY <1>2 DEF What
  <2>3. ToBeTold(p) = IF /\ p.kind = "gpio" /\ p.n \in daemon[p.pi].gpio
                         /\ Level(p.n, level') # Level(p.n, level)
                      THEN {Level(p.n, level')} \ {p.edge} ELSE {}
    BY <1>2, <2>1 DEF ToBeTold
  <2>4. p.kind = "gpio" => (p.n \in daemon[p.pi].gpio /\ Level(p.n, level') # Level(p.n, level)
                             <=> Level(p.n, level') # Level(p.n, seen))
    <3>1. CASE p.n = g
      BY <1>1, <1>4, <1>5, <1>7, <3>1
    <3>2. CASE p.n # g
      BY <1>3, <1>5, <3>2
    <3> QED
      BY <3>1, <3>2
  <2>5. ToBeTold(p) = What(library, p, r, seen)
    BY <2>2, <2>3, <2>4
  <2> QED
    BY <1>1, <1>2, <1>7, <2>5, OneMoreDue DEF seen
<1> QED
  BY <1>6, <1>7

LEMMA OtherTold ==
  ASSUME NEW p, CallbackKept(p), level' = level, NEW to \in SUBSET Up, NEW r \in Reports,
         SendReport(to, r), r.kind # "levels",
         r.kind = "wdog" => to = Listening("gpio", r.n),
         r.kind = "event" => to = Listening("event", r.n),
         r.kind = "alive" => r.n = 0
  PROVE  CalledForEach(p)
<1>1. CASE p.pi \notin to
  BY <1>1, NotSentTo
<1>2. CASE p.pi \in to
  <2> DEFINE rs == UnreadIn(buffer[p.pi] \o stream[p.pi])
             seen == SeenIn(rs, connection[p.pi].last, Len(rs) + 1)
  <2> HIDE DEF seen
  <2>1. Len(stream'[p.pi]) > Len(stream[p.pi]) /\ Last(stream'[p.pi]).report = r
    BY <1>2, KeptIs, LastOfSent
  <2>2. ToBeTold(p) = IF r.n = p.n /\ r.kind = (IF p.kind = "gpio" THEN "wdog" ELSE "event")
                      THEN {NoEdge} ELSE {}
    BY <2>1 DEF ToBeTold
  <2>3. What(library, p, r, seen) =
          IF r.n = p.n /\ r.kind = (IF p.kind = "gpio" THEN "wdog" ELSE "event")
          THEN {NoEdge} ELSE {}
    <3>1. p.kind \in {"gpio", "event"} /\ r.kind \in {"wdog", "event", "alive"}
      BY KeptIs DEF ReportKinds, Reports
    <3>2. CASE library # "if"
      BY <3>1, <3>2 DEF What
    <3>3. CASE library = "if"
      <4>1. p.kind = "gpio" /\ p.n # 0
        BY <3>3, KeptIs DEF CallbackKept, ForKeepAlive, WalksInv, OnlyGpios
      <4>2. r.kind # "event"
        BY <1>2, <3>3, KeptIs DEF Listening, WalksInv, OnlyGpios
      <4> QED
        BY <3>1, <3>3, <4>1, <4>2 DEF What
    <3> QED
      BY <3>2, <3>3
  <2>4. ToBeTold(p) = What(library, p, r, seen)
    BY <2>2, <2>3
  <2> QED
    BY <1>2, <2>4, OneMoreDue DEF seen
<1> QED
  BY <1>1, <1>2

LEMMA DaemonTells ==
  ASSUME NEW p, CallbackKept(p),
         \/ \E g \in CallbackGpios : WatchdogFires(g)
         \/ \E e \in CallbackEvents : EventFires(e)
         \/ KeepAlive
  PROVE  CalledForEach(p)
<1>1. \A kind, n : Listening(kind, n) \in SUBSET Up
  BY DEF Listening
<1>2. CASE \E g \in CallbackGpios : WatchdogFires(g)
  <2>1. PICK g \in CallbackGpios : WatchdogFires(g)
    BY <1>2
  <2> DEFINE r == ReportOf("wdog", g)
  <2>2. r \in Reports /\ r.kind = "wdog" /\ r.n = g
    BY DEF ReportOf, Reports
  <2>3. SendReport(Listening("gpio", g), r) /\ level' = level
    BY <2>1 DEF WatchdogFires
  <2> HIDE DEF r
  <2> QED
    BY <1>1, <2>2, <2>3, OtherTold
<1>3. CASE \E e \in CallbackEvents : EventFires(e)
  <2>1. PICK e \in CallbackEvents : EventFires(e)
    BY <1>3
  <2> DEFINE r == ReportOf("event", e)
  <2>2. r \in Reports /\ r.kind = "event" /\ r.n = e
    BY DEF ReportOf, Reports
  <2>3. SendReport(Listening("event", e), r) /\ level' = level
    BY <2>1 DEF EventFires
  <2> HIDE DEF r
  <2> QED
    BY <1>1, <2>2, <2>3, OtherTold
<1>4. CASE KeepAlive
  <2> DEFINE r == ReportOf("alive", 0)
  <2>1. r \in Reports /\ r.kind = "alive" /\ r.n = 0
    BY DEF ReportOf, Reports
  <2>2. SendReport(Up, r) /\ level' = level
    BY <1>4 DEF KeepAlive
  <2> HIDE DEF r
  <2> QED
    BY <2>1, <2>2, OtherTold
<1> QED
  BY <1>2, <1>3, <1>4

LEMMA StepTells ==
  ASSUME NEW p, CallbackKept(p), DepartureKnown(p), walk[p.pi].at # "stray",
         [CallbacksNext]_callbackVars
  PROVE  CalledForEach(p)
<1>1. CASE UNCHANGED callbackVars
  <2>1. UNCHANGED <<level, buffer, stream, connection, walk>>
    BY <1>1 DEF callbackVars
  <2> QED
    BY <2>1, KeptIs, AsItWas DEF SameWalk, BeforeThread
<1> QED
  BY <1>1, ThreadTells, ClientTells, ChangeTold, DaemonTells DEF CallbacksNext

(* A callback is called for every edge, watchdog and event of its GPIO     *)
(* that happens while the daemon reports it, once, in their order and for  *)
(* nothing else, from a level the library knows: whatever of their reports *)
(* a read brings and whatever the client registers, cancels, starts and    *)
(* stops while the thread is on its way through the list, as long as it    *)
(* does not stand on a callback that is freed under it, for either library *)
(* and any connections, callbacks, GPIO and events.                        *)
THEOREM EdgesToldOnceAlways ==
  CallbacksSpec => EdgesToldOnce
<1> DEFINE Known == CallbacksInv /\ WalksInv
           Told1 == \A p \in callbacks :
                      Reported(p) /\ walk[p.pi].at # "stray" => CalledForEach(p)
<1>1. CallbacksInit => Known
  BY CallbacksInvHolds, WalksInvHolds
<1>2. Known /\ [CallbacksNext]_callbackVars => Known'
  BY CallbacksInvKept, WalksInvKept
<1>3. Known /\ Known' /\ [CallbacksNext]_callbackVars => Told1
  <2> SUFFICES ASSUME Known, Known', [CallbacksNext]_callbackVars, NEW p \in callbacks,
                      Reported(p), walk[p.pi].at # "stray"
               PROVE  CalledForEach(p)
    OBVIOUS
  <2>1. CallbackKept(p) /\ DepartureKnown(p)
    BY LibraryStays DEF CallbackKept, Reported
  <2> QED
    BY <2>1, StepTells
<1> HIDE DEF Known, Told1
<1>4. CallbacksSpec => [][Told1]_callbackVars
  BY <1>1, <1>2, <1>3, PTL DEF CallbacksSpec
<1> QED
  BY <1>4 DEF EdgesToldOnce, Told1
=============================================================================
