----------------------------- MODULE SocketLink -----------------------------
(***************************************************************************)
(* A connection to the daemon that the threads of a client share: the      *)
(* calls of the client libraries on one side (pigpiod_if2.c), the thread   *)
(* that serves the connection on the other (pthSocketThreadHandler of      *)
(* pigpio.c).                                                              *)
(*                                                                         *)
(* A reply is a header with the result and, for some commands, as many     *)
(* bytes as the result says.  Nothing on the connection says whose a reply *)
(* is: a mutex keeps the calls apart, and is released by the library's     *)
(* function once it has read the bytes too.                                *)
(***************************************************************************)
EXTENDS Commands, Sequences

CONSTANTS
  Clients,        \* the threads that call
  Functions,      \* the functions they call: calls of ClientCalls
  ReplySizes,     \* how many bytes a result counts
  RecvBuf,        \* the room a caller has for them
  Shielded        \* a call is not cancelled (pigpiod_if2.c; not in pigpiod_if.c)

ASSUME SocketAssumption ==
  /\ "nobody" \notin Clients
  /\ ReplySizes \subseteq Nat \ {0} /\ RecvBuf \in Nat \ {0}

VARIABLES
  alive,          \* the connection works
  toServer,       \* calls on their way: [by, call]
  toClient,       \* replies: headers and bytes, each [by, part, res]
  gCmdMutex,      \* the thread that is inside a call
  client          \* for each thread where it is, what it reads, what is left of that

linkVars == <<alive, toServer, toClient, gCmdMutex, client>>

Nobody == "nobody"
Outside == [pc |-> "outside", reads |-> "value", left |-> 0, cancelled |-> FALSE]

At(t, pc) == client[t].pc = pc
Goes(t, pc) == client' = [client EXCEPT ![t].pc = pc]
Returns(t) == client' = [client EXCEPT ![t] = [Outside EXCEPT !.cancelled = client[t].cancelled]]

SocketInit ==
  /\ alive = TRUE
  /\ toServer = <<>> /\ toClient = <<>>
  /\ gCmdMutex = Nobody
  /\ client = [t \in Clients |-> Outside]

-----------------------------------------------------------------------------
(* A call: pigpio_command, pigpio_command_ext and the library function around *)
(* them                                                                       *)

Enter(t) ==
  /\ At(t, "outside") /\ ~client[t].cancelled
  /\ Goes(t, "locking")
  /\ UNCHANGED <<alive, toServer, toClient, gCmdMutex>>

pml(t) ==
  /\ At(t, "locking") /\ gCmdMutex = Nobody
  /\ gCmdMutex' = t
  /\ Goes(t, "sending")
  /\ UNCHANGED <<alive, toServer, toClient>>

SendCommand(t) ==
  /\ At(t, "sending") /\ alive
  /\ \E f \in Functions :
       /\ toServer' = Append(toServer, [by |-> t, call |-> f])
       /\ client' = [client EXCEPT ![t].pc = "receiving", ![t].reads = f.reads]
  /\ UNCHANGED <<alive, toClient, gCmdMutex>>

\* A function that reads bytes unlocks however its command went.
UnlocksItself(t) == client[t].reads = "bytes"

Fail(t) ==
  /\ ~alive
  /\ \/ /\ At(t, "sending")
        /\ \E f \in Functions : IF f.reads = "bytes" THEN Goes(t, "unlocking") ELSE Returns(t)
     \/ /\ At(t, "receiving")
        /\ IF UnlocksItself(t) THEN Goes(t, "unlocking") ELSE Returns(t)
  /\ gCmdMutex' = Nobody
  /\ UNCHANGED <<alive, toServer, toClient>>

\* The result that is read is that of whatever lies first on the connection.
ReceiveResult(t) ==
  /\ At(t, "receiving") /\ alive /\ toClient # <<>>
  /\ toClient' = Tail(toClient)
  /\ LET res == Head(toClient).res IN
     IF UnlocksItself(t)
     THEN /\ client' = [client EXCEPT ![t].pc = IF res > 0 THEN "reading" ELSE "unlocking",
                                      ![t].left = IF res > 0 THEN res ELSE 0]
          /\ UNCHANGED gCmdMutex
     ELSE Returns(t) /\ gCmdMutex' = Nobody
  /\ UNCHANGED <<alive, toServer>>

\* recvMax takes what the caller has room for and discards the rest.  On a broken
\* connection it reads nothing and counts on.
ReadBytes(t, most, pc) ==
  LET n == IF client[t].left < most THEN client[t].left ELSE most IN
  /\ alive => Len(toClient) >= n
  /\ toClient' = IF alive THEN SubSeq(toClient, n + 1, Len(toClient)) ELSE toClient
  /\ client' = [client EXCEPT ![t].pc = pc, ![t].left = @ - n]
  /\ UNCHANGED <<alive, toServer, gCmdMutex>>

CopyBytes(t) == At(t, "reading") /\ ReadBytes(t, RecvBuf, "discarding")

DiscardBytes(t) ==
  /\ At(t, "discarding")
  /\ IF client[t].left > 0 THEN ReadBytes(t, RecvBuf, "discarding")
     ELSE Goes(t, "unlocking") /\ UNCHANGED <<alive, toServer, toClient, gCmdMutex>>

\* Whoever holds the mutex: this is the second time, if the command failed.
pmu(t) ==
  /\ At(t, "unlocking")
  /\ gCmdMutex' = Nobody
  /\ Returns(t)
  /\ UNCHANGED <<alive, toServer, toClient>>

-----------------------------------------------------------------------------
(* stop_thread, as a client may stop a thread of its own *)

stop_thread(t) ==
  /\ ~client[t].cancelled /\ ~At(t, "ended")
  /\ client' = [client EXCEPT ![t].cancelled = TRUE]
  /\ UNCHANGED <<alive, toServer, toClient, gCmdMutex>>

\* mutant: a call may be cancelled where it waits for the connection
StopsWhereItWaits(t) ==
  At(t, "outside") \/ client[t].pc \in {"sending", "receiving", "reading", "discarding"}

\* Outside a call, or where a call waits for the connection.
CancellationPoint(t) ==
  \/ At(t, "outside")
  \/ ~Shielded /\ client[t].pc \in {"sending", "receiving", "reading", "discarding"}

ThreadStops(t) ==
  /\ client[t].cancelled /\ CancellationPoint(t)
  /\ client' = [client EXCEPT ![t] = [Outside EXCEPT !.pc = "ended"]]
  /\ UNCHANGED <<alive, toServer, toClient, gCmdMutex>>

-----------------------------------------------------------------------------
(* The thread of the connection *)

\* What myDoCommand may return: the number of bytes it has put into the buffer,
\* nothing in particular, or an error.  The status of a script always comes with
\* bytes, and so does a transfer of the BSC that went well.
Results(cmd) ==
  IF myDoCommand[cmd].gives = "value" THEN {-1, 1}
  ELSE {-1} \union ReplySizes \union (IF cmd \in {"BSCX", "PROCP"} THEN {} ELSE {0})

Header(t, res) == [by |-> t, part |-> "header", res |-> res]
Byte(t) == [by |-> t, part |-> "byte", res |-> 0]

Extension(t, cmd, res) ==
  IF cmd \in Extended /\ res > 0 THEN [i \in 1..res |-> Byte(t)] ELSE <<>>

Serve ==
  /\ alive /\ toServer # <<>>
  /\ LET t == Head(toServer).by
         cmd == Head(toServer).call.cmd
     IN \E res \in Results(cmd) :
          toClient' = toClient \o <<Header(t, res)>> \o Extension(t, cmd, res)
  /\ toServer' = Tail(toServer)
  /\ UNCHANGED <<alive, gCmdMutex, client>>

ConnectionDrops ==
  /\ alive /\ alive' = FALSE
  /\ toServer' = <<>> /\ toClient' = <<>>
  /\ UNCHANGED <<gCmdMutex, client>>

CallStep(t) ==
  Fail(t) \/ SendCommand(t) \/ ReceiveResult(t) \/ CopyBytes(t) \/ DiscardBytes(t) \/ pmu(t)

SocketNext ==
  \/ \E t \in Clients : Enter(t) \/ pml(t) \/ CallStep(t) \/ stop_thread(t) \/ ThreadStops(t)
  \/ Serve \/ ConnectionDrops

SocketSpec == SocketInit /\ [][SocketNext]_linkVars

-----------------------------------------------------------------------------
SocketTypeOK ==
  /\ alive \in BOOLEAN
  /\ gCmdMutex \in Clients \union {Nobody}
  /\ \A t \in Clients :
       /\ client[t].pc \in {"outside", "locking", "sending", "receiving", "reading",
                            "discarding", "unlocking", "ended"}
       /\ client[t].left \in Nat /\ client[t].cancelled \in BOOLEAN
  /\ \A i \in DOMAIN toClient : toClient[i].by \in Clients

\* A thread reads its own reply: the header where it looks for one, and as many
\* bytes as it is going to read.
ReadsItsOwn(t) ==
  /\ At(t, "receiving") /\ toClient # <<>> =>
       Head(toClient).by = t /\ Head(toClient).part = "header"
  /\ client[t].pc \in {"reading", "discarding"} /\ alive =>
       /\ Len(toClient) = client[t].left
       /\ \A i \in DOMAIN toClient : toClient[i] = Byte(t)

\* A connection that works is empty between two calls, each of which reads its
\* own reply to the last byte: one that leaves a byte gives it to the next call,
\* of whichever thread.  This holds as long as the connection works.
EveryCallInStep ==
  alive =>
    /\ \A t \in Clients : ReadsItsOwn(t)
    /\ gCmdMutex = Nobody => toServer = <<>> /\ toClient = <<>>

\* The threads that a stopped one leaves behind can go on.
NobodyLockedOut == \A t \in Clients : At(t, "ended") => gCmdMutex # t

\* The server runs what the caller's header says the function stands for, with
\* what that command takes; pigs prints the bytes of a reply where it reads them.
CallsMeanWhatTheySay ==
  \A i \in DOMAIN toServer :
    LET f == toServer[i].call IN
    /\ myDoCommand[f.cmd].runs = f.means
    /\ Suits(f.sends, myDoCommand[f.cmd].takes)
    /\ print_result(cmdInfo[f.cmd].rv) <=> f.cmd \in get_extensions

\* What the connection relies on: the two sides agree on which functions read bytes
\* back, and each asks for what its header says.
FunctionsAgree ==
  \A f \in Functions :
    /\ f.reads \in {"value", "bytes"} /\ (f.reads = "bytes" <=> f.cmd \in Extended)
    /\ myDoCommand[f.cmd].runs = f.means
    /\ Suits(f.sends, myDoCommand[f.cmd].takes)
    /\ print_result(cmdInfo[f.cmd].rv) <=> f.cmd \in get_extensions

LinkKept == SocketTypeOK /\ EveryCallInStep /\ NobodyLockedOut /\ CallsMeanWhatTheySay
=============================================================================
