--------------------------- MODULE ClientCallbacks ---------------------------
(***************************************************************************)
(* Callbacks of a client of the daemon (pigpiod_if2.c, and pigpiod_if.c    *)
(* for one connection): a client's thread starts and stops connections,    *)
(* registers and cancels callbacks and waits for edges; one thread per     *)
(* connection reads the daemon's reports and walks the list of callbacks   *)
(* for each of them, callback by callback, which no lock guards against    *)
(* the client.  A callback that is cancelled while the thread stands on it *)
(* is freed memory, and one that was just linked in is not filled in yet:  *)
(* the thread that reads on from there goes astray.                        *)
(*                                                                         *)
(* The library asks the daemon to report the GPIO that some callback is    *)
(* about.  A report tells levels, so an edge is the difference to the      *)
(* levels of the report before, which the library keeps.  The number of    *)
(* bytes read and not yet used is one variable for all connections.        *)
(***************************************************************************)
EXTENDS Integers, Sequences, FiniteSets, SequencesExt

CONSTANTS
  Pis,            \* connections: 0..MAX_PI-1
  Keys,           \* callbacks that may exist: [pi, kind, n, edge, waits]
  CallbackGpios,  \* GPIO
  CallbackEvents, \* events
  MaxUnread       \* reports on their way

NoEdge == 2  \* PI_TIMEOUT

\* The calls check what a callback is about.
ASSUME CallbacksAssumption ==
  /\ Pis \subseteq Nat
  /\ \A p \in Keys : /\ p.pi \in Pis
                     /\ \/ p.kind = "gpio" /\ p.n \in CallbackGpios
                        \/ p.kind = "event" /\ p.n \in CallbackEvents

VARIABLES
  library,        \* "if2" or "if"
  connection,     \* for each connection what the library knows of it
  daemon,         \* for each, the GPIO and the events the daemon reports
  callbacks,      \* the callbacks there are
  older,          \* for each, those that come before it in its list
  linked,         \* the one that is in its list and not filled in
  walk,           \* for each connection where its thread is in a list
  bitsDue,        \* the NB or EVM a call of the client is about to send
  stream,         \* for each connection the halves of reports on their way
  buffer,         \* and those its thread has read
  got,            \* how many halves some thread has read and not used
  level,          \* the GPIO that are high
  torn,           \* a thread has gone by the count of another, or of one before it
  leftOver        \* a connection was started with callbacks registered for it

callbackVars == <<library, connection, daemon, callbacks, older, linked, walk, bitsDue,
                  stream, buffer, got, level, torn, leftOver>>

NoRequest == [pi |-> -1, kind |-> "none"]
Deaf == [gpio |-> {}, event |-> {}]
NotConnected == [inUse |-> FALSE, up |-> FALSE, bits |-> Deaf, last |-> {}]
ReportOf(kind, n) == [kind |-> kind, n |-> n, level |-> {}]
\* Whether the thread is in a list, the callback it stands on, those it has
\* passed, the report it does so for and the GPIO that this shows to differ.
NoWalk == [at |-> "idle", on |-> {}, past |-> {}, report |-> ReportOf("alive", 0),
           changed |-> {}]

CallbacksInit ==
  /\ library \in {"if2", "if"}
  /\ connection = [i \in Pis |-> NotConnected]
  /\ daemon = [i \in Pis |-> Deaf]
  /\ callbacks = {} /\ older = [p \in Keys |-> {}] /\ linked = {} /\ bitsDue = NoRequest
  /\ walk = [i \in Pis |-> NoWalk]
  /\ stream = [i \in Pis |-> <<>>] /\ buffer = [i \in Pis |-> <<>>] /\ got = 0
  /\ level \in SUBSET CallbackGpios
  /\ torn = FALSE /\ leftOver = FALSE

-----------------------------------------------------------------------------
(* Which callbacks a report calls, and with which level *)

Level(i, high) == IF i \in high THEN 1 ELSE 0

\* A report of levels, against the levels of the report before
Changed(pi, r, last) ==
  {g \in connection[pi].bits.gpio : Level(g, r.level) # Level(g, last)}

\* The list a report is for.  pigpiod_if.c takes every other report for that of
\* a watchdog; one that only shows that the connection is alive names GPIO 0.
ListFor(r) ==
  CASE library = "if" \/ r.kind \in {"levels", "wdog"} -> "gpio"
    [] r.kind = "event" -> "event"
    [] OTHER -> "none"

\* mutant: an edge of the kind the callback is for is the one left out
CallsOther(p, r, changed) ==
  IF p.kind # ListFor(r) THEN {}
  ELSE IF r.kind = "levels"
  THEN IF p.n \in changed THEN {Level(p.n, r.level)} \cap {p.edge} ELSE {}
  ELSE IF p.n = r.n THEN {NoEdge} ELSE {}

\* What a callback that the thread comes to is called with, if it is.
Calls(p, r, changed) ==
  IF p.kind # ListFor(r) THEN {}
  ELSE IF r.kind = "levels"
  THEN IF p.n \in changed THEN {Level(p.n, r.level)} \ {p.edge} ELSE {}
  ELSE IF p.n = r.n THEN {NoEdge} ELSE {}

LastAfter(r, last) == IF r.kind = "levels" THEN r.level ELSE last

-----------------------------------------------------------------------------
(* The thread of a connection *)

\* The bytes of a report in use are the thread's until it is done with it.
ThreadIdle(pi) == walk[pi].at = "idle"
Own(pi) == Len(buffer[pi]) + (IF ThreadIdle(pi) THEN 0 ELSE 2)

\* A read brings any part of what has arrived.  What a thread does with a count
\* that is not its own is not followed.
ReadStream(pi) ==
  /\ connection[pi].inUse /\ ThreadIdle(pi) /\ Len(buffer[pi]) < 2 /\ ~torn
  /\ \E n \in 1..Len(stream[pi]) :
       /\ buffer' = [buffer EXCEPT ![pi] = @ \o SubSeq(stream[pi], 1, n)]
       /\ stream' = [stream EXCEPT ![pi] = SubSeq(@, n + 1, Len(@))]
       /\ got' = got + n
  /\ torn' = (got # Own(pi))
  /\ UNCHANGED <<library, connection, daemon, callbacks, older, linked, walk, bitsDue, level,
                 leftOver>>

ListOf(r, cs) == {p \in cs : p.kind = ListFor(r)}

\* To the next callback, or off the list, where one that is linked in by now may
\* be found as it is.
MoveOn(pi, r, past, changed) ==
  LET rest == ListOf(r, callbacks) \ past
      At(place, q) == [at |-> place, on |-> q, past |-> past, report |-> r, changed |-> changed]
  IN \/ \E p \in rest : /\ rest \intersect older[p] = {}
                         /\ walk' = [walk EXCEPT ![pi] = At("standing", {p})]
     \/ rest = {} /\ walk' = [walk EXCEPT ![pi] = At("end", {})]
     \/ rest = {} /\ ListOf(r, linked) # {} /\ walk' = [walk EXCEPT ![pi] = At("stray", {})]

dispatch_notification(pi) ==
  /\ connection[pi].inUse /\ ThreadIdle(pi) /\ Len(buffer[pi]) >= 2 /\ ~torn
  /\ LET r == Head(buffer[pi]).report IN
     /\ MoveOn(pi, r, {}, Changed(pi, r, connection[pi].last))
     /\ connection' = [connection EXCEPT ![pi].last = LastAfter(r, @)]
  /\ buffer' = [buffer EXCEPT ![pi] = SubSeq(@, 3, Len(@))]
  /\ torn' = (got # Own(pi))
  /\ UNCHANGED <<library, daemon, callbacks, older, linked, bitsDue, stream, got, level, leftOver>>

NoReports == UNCHANGED <<stream, buffer, got, torn>>
OnlyWalks == /\ NoReports
             /\ UNCHANGED <<library, connection, daemon, callbacks, older, linked, bitsDue, level,
                            leftOver>>

\* The callback stood on is called, if the report is about it, and left.
WalkOn(pi) ==
  /\ walk[pi].at = "standing" /\ ~torn
  /\ MoveOn(pi, walk[pi].report, walk[pi].past \union walk[pi].on, walk[pi].changed)
  /\ OnlyWalks

\* Memory that was freed, or not filled in, leads to any callback from there on.
GoAstray(pi) ==
  /\ walk[pi].at = "stray" /\ ~torn
  /\ \E skipped \in SUBSET ListOf(walk[pi].report, callbacks) :
       MoveOn(pi, walk[pi].report, walk[pi].past \union skipped, walk[pi].changed)
  /\ OnlyWalks

WalkEnds(pi) ==
  /\ walk[pi].at = "end" /\ ~torn
  /\ walk' = [walk EXCEPT ![pi] = NoWalk]
  /\ got' = got - 2
  /\ torn' = (got # Own(pi))
  /\ UNCHANGED <<library, connection, daemon, callbacks, older, linked, bitsDue, stream, buffer,
                 level, leftOver>>

-----------------------------------------------------------------------------
(* Calls of the client *)

UnusedSlots == {i \in Pis : ~connection[i].inUse}
FirstOf(s) == CHOOSE i \in s : \A j \in s : i <= j
\* wait_for_edge and wait_for_event keep a callback of their own while they wait.
Waiting == {p \in callbacks : p.waits}
ClientFree == bitsDue = NoRequest /\ linked = {} /\ Waiting = {}

\* Both sockets, a notification in the band of the second, the levels, a thread.
pigpio_start ==
  /\ ClientFree /\ UnusedSlots # {} /\ (library = "if" => UnusedSlots = Pis)
  /\ LET pi == FirstOf(UnusedSlots) IN
     /\ connection' = [connection EXCEPT ![pi].inUse = TRUE, ![pi].up = TRUE, ![pi].last = level]
     /\ daemon' = [daemon EXCEPT ![pi] = Deaf]
     /\ leftOver' = (leftOver \/ \E p \in callbacks : p.pi = pi)
  /\ torn' = (torn \/ got # 0)
  /\ UNCHANGED <<library, callbacks, older, linked, walk, bitsDue, stream, buffer, got, level>>

\* In pigpiod_if2.c the slot stays in use.
StartFails ==
  /\ ClientFree /\ UnusedSlots # {} /\ library = "if2"
  /\ connection' = [connection EXCEPT ![FirstOf(UnusedSlots)].inUse = TRUE]
  /\ NoReports
  /\ UNCHANGED <<library, daemon, callbacks, older, linked, walk, bitsDue, level, leftOver>>

\* A thread can be cancelled where it waits for reports, with what it has of one,
\* or in the function of a callback.
MayStop(pi) ==
  \/ ThreadIdle(pi) /\ Len(buffer[pi]) < 2
  \/ \E p \in walk[pi].on : p.pi = pi /\ Calls(p, walk[pi].report, walk[pi].changed) # {}
  \/ torn

pigpio_stop(pi) ==
  /\ ClientFree /\ connection[pi].inUse /\ MayStop(pi)
  /\ connection' = [connection EXCEPT ![pi].inUse = FALSE, ![pi].up = FALSE]
  /\ daemon' = [daemon EXCEPT ![pi] = Deaf]
  /\ stream' = [stream EXCEPT ![pi] = <<>>] /\ buffer' = [buffer EXCEPT ![pi] = <<>>]
  /\ walk' = [walk EXCEPT ![pi] = NoWalk]
  /\ UNCHANGED <<library, callbacks, older, linked, bitsDue, got, level, torn, leftOver>>

Bits(pi, kind, cs) == {p.n : p \in {q \in cs : q.pi = pi /\ q.kind = kind}}

\* mutant: the daemon is told only of more to report
FindMoreBits(pi, kind, cs) ==
  IF Bits(pi, kind, cs) \subseteq connection[pi].bits[kind] THEN UNCHANGED <<connection, bitsDue>>
  ELSE /\ connection' = [connection EXCEPT ![pi].bits[kind] = Bits(pi, kind, cs)]
       /\ bitsDue' = IF connection[pi].inUse THEN [pi |-> pi, kind |-> kind] ELSE NoRequest

\* findNotifyBits and findEventBits: the daemon is told what it is to report if
\* that is not what it was called before.
FindBits(pi, kind, cs) ==
  LET bits == Bits(pi, kind, cs) IN
  IF bits = connection[pi].bits[kind] THEN UNCHANGED <<connection, bitsDue>>
  ELSE /\ connection' = [connection EXCEPT ![pi].bits[kind] = bits]
       /\ bitsDue' = IF connection[pi].inUse THEN [pi |-> pi, kind |-> kind] ELSE NoRequest

\* intCallback, intEventCallback: the callback goes into its list.  The first of a
\* list is there before it is filled in, and no store waits for another.
Link(p) ==
  /\ ClientFree /\ p \notin callbacks /\ (library = "if" => p.kind = "gpio")
  /\ linked' = {p}
  /\ NoReports
  /\ UNCHANGED <<library, connection, daemon, callbacks, older, walk, bitsDue, level, leftOver>>

callback(p) == ~p.waits /\ Link(p)

\* wait_for_edge, wait_for_event: until the call has come or the time is up.
wait_for_edge(p) == connection[p.pi].inUse /\ p.waits /\ Link(p)

FillIn(p) ==
  /\ p \in linked
  /\ callbacks' = callbacks \union {p} /\ linked' = {}
  /\ older' = [older EXCEPT ![p] = callbacks]
  /\ FindBits(p.pi, p.kind, callbacks')
  /\ NoReports
  /\ UNCHANGED <<library, daemon, walk, level, leftOver>>

\* Unlinked and freed, also from under a thread that stands on it.
Unregister(p) ==
  /\ callbacks' = callbacks \ {p}
  /\ older' = [q \in Keys |-> IF q = p THEN {} ELSE older[q] \ {p}]
  /\ walk' = [i \in Pis |->
                [walk[i] EXCEPT !.at = IF p \in walk[i].on THEN "stray" ELSE @,
                                !.on = @ \ {p}, !.past = @ \ {p}]]
  /\ FindBits(p.pi, p.kind, callbacks')
  /\ NoReports
  /\ UNCHANGED <<library, daemon, linked, level, leftOver>>

callback_cancel(p) == ClientFree /\ p \in callbacks /\ Unregister(p)

WaitEnds == bitsDue = NoRequest /\ \E p \in Waiting : Unregister(p)

\* NB or EVM, which a lost connection does not get.
SendBits ==
  /\ bitsDue # NoRequest
  /\ bitsDue' = NoRequest
  /\ LET pi == bitsDue.pi IN
     IF connection[pi].up
     THEN daemon' = [daemon EXCEPT ![pi][bitsDue.kind] = connection[pi].bits[bitsDue.kind]]
     ELSE UNCHANGED daemon
  /\ NoReports
  /\ UNCHANGED <<library, connection, callbacks, older, linked, walk, level, leftOver>>

-----------------------------------------------------------------------------
(* The daemon, and what it reports *)

LevelsAre(high) == [ReportOf("levels", 0) EXCEPT !.level = high]
Halves(r) == <<[report |-> r, half |-> 1], [report |-> r, half |-> 2]>>

SendReport(to, r) ==
  /\ \A i \in to : Len(stream[i]) + Len(buffer[i]) < 2 * MaxUnread
  /\ stream' = [i \in Pis |-> IF i \in to THEN stream[i] \o Halves(r) ELSE stream[i]]
  /\ UNCHANGED <<library, connection, daemon, callbacks, older, linked, walk, bitsDue, buffer,
                 got, torn, leftOver>>

Up == {i \in Pis : connection[i].inUse /\ connection[i].up}
Listening(kind, n) == {i \in Up : n \in daemon[i][kind]}

GpioChanges(g) ==
  /\ level' = IF g \in level THEN level \ {g} ELSE level \union {g}
  /\ SendReport(Listening("gpio", g), LevelsAre(level'))

WatchdogFires(g) ==
  /\ Listening("gpio", g) # {}
  /\ SendReport(Listening("gpio", g), ReportOf("wdog", g))
  /\ UNCHANGED level

EventFires(e) ==
  /\ Listening("event", e) # {}
  /\ SendReport(Listening("event", e), ReportOf("event", e))
  /\ UNCHANGED level

\* Nothing was reported for a minute.
KeepAlive ==
  /\ Up # {}
  /\ SendReport(Up, ReportOf("alive", 0))
  /\ UNCHANGED level

ConnectionLost(pi) ==
  /\ connection[pi].up
  /\ connection' = [connection EXCEPT ![pi].up = FALSE]
  /\ daemon' = [daemon EXCEPT ![pi] = Deaf]
  /\ stream' = [stream EXCEPT ![pi] = <<>>]
  /\ UNCHANGED <<library, callbacks, older, linked, walk, bitsDue, buffer, got, level, torn,
                 leftOver>>

CallbacksNext ==
  \/ \E pi \in Pis : \/ ReadStream(pi) \/ dispatch_notification(pi)
                     \/ WalkOn(pi) \/ GoAstray(pi) \/ WalkEnds(pi)
                     \/ pigpio_stop(pi) \/ ConnectionLost(pi)
  \/ pigpio_start \/ StartFails
  \/ \E p \in Keys : callback(p) \/ FillIn(p) \/ callback_cancel(p) \/ wait_for_edge(p)
  \/ WaitEnds \/ SendBits
  \/ \E g \in CallbackGpios : GpioChanges(g) \/ WatchdogFires(g)
  \/ \E e \in CallbackEvents : EventFires(e)
  \/ KeepAlive
CallbacksSpec == CallbacksInit /\ [][CallbacksNext]_callbackVars
-----------------------------------------------------------------------------
CallbacksTypeOK ==
  /\ callbacks \subseteq Keys /\ linked \subseteq Keys /\ older \in [Keys -> SUBSET Keys]
  /\ Cardinality(Waiting) <= 1
  /\ got \in Int
  /\ \A i \in Pis : /\ connection[i].last \subseteq CallbackGpios
                    /\ daemon[i].gpio \subseteq CallbackGpios
                    /\ daemon[i].event \subseteq CallbackEvents

\* What the daemon reports is what there are callbacks for, whenever no call of
\* the client is on its way, unless callbacks were there before the connection
\* was: the library believes that it has sent for those.
DaemonReportsForCallbacks ==
  \A i \in Up : ~leftOver /\ bitsDue = NoRequest =>
    /\ daemon[i].gpio = Bits(i, "gpio", callbacks)
    /\ daemon[i].event = Bits(i, "event", callbacks)

\* A report is put together from its own halves, and none is lost between them.
ReportsWhole ==
  ~torn => \A i \in Up :
    LET unused == buffer[i] \o stream[i] IN
    \A k \in DOMAIN unused : unused[k].half = IF k % 2 = 1 THEN 1 ELSE 2

\* The reports a connection has not dispatched yet, the levels it will have seen
\* before the kth of them, and what they will tell a callback.
Unread(i) == LET unused == buffer[i] \o stream[i] IN
             [k \in 1..(Len(unused) \div 2) |-> unused[2 * k].report]
SeenBefore(i, k) ==
  LET told == {n \in 1..(k - 1) : Unread(i)[n].kind = "levels"}
  IN IF told = {} THEN connection[i].last ELSE Unread(i)[Max(told)].level
ToldOf(p, k) ==
  LET r == Unread(p.pi)[k] IN Calls(p, r, Changed(p.pi, r, SeenBefore(p.pi, k)))
Coming(p) == [k \in 1..Len(Unread(p.pi)) |-> ToldOf(p, k)]

\* What a callback is still to be called with: for the report its thread is in the
\* list with, while the callback lies before it, and for those to come.
BeforeThread(p) == walk[p.pi].at \notin {"idle", "end"} /\ p \notin walk[p.pi].past
Due(p) ==
  IF BeforeThread(p) THEN <<Calls(p, walk[p.pi].report, walk[p.pi].changed)>> \o Coming(p)
  ELSE Coming(p)

\* The library knows the level from which the callback's next edge departs.
DepartureKnown(p) ==
  p.kind = "gpio" =>
    (p.n \in SeenBefore(p.pi, Len(Unread(p.pi)) + 1) <=> p.n \in level)

\* What happens in a step that a callback is to be told of: an edge, or a watchdog
\* or event that the daemon reports.
ToBeTold(p) ==
  LET grown == Len(stream'[p.pi]) > Len(stream[p.pi])
      r == Last(stream'[p.pi]).report
  IN IF p.kind = "gpio" /\ p.n \in daemon[p.pi].gpio /\ Level(p.n, level') # Level(p.n, level)
     THEN {Level(p.n, level')} \ {p.edge}
     ELSE IF grown /\ r.n = p.n /\ r.kind = (IF p.kind = "gpio" THEN "wdog" ELSE "event")
     THEN {NoEdge} ELSE {}

\* A callback is called once for each edge, watchdog or event that happens while
\* the daemon reports it, in their order, and for nothing else: what happens is
\* put at the end of what it is due, and the thread that leaves it takes off what
\* it called it with.
Leaves(p) == p \in walk[p.pi].on /\ p \notin walk'[p.pi].on
CalledForEach(p) ==
  \/ Due(p)' = Due(p) /\ ToBeTold(p) = {}
  \/ Due(p)' = Append(Due(p), ToBeTold(p))
  \/ /\ Due(p) # <<>> /\ Due(p)' = Tail(Due(p))
     /\ Leaves(p) \/ Head(Due(p)) = {}

Stays(p) == p.pi \in Up /\ p.pi \in Up' /\ p \in callbacks' /\ ~torn'

\* In pigpiod_if.c, whatever shows that the connection is alive is taken for the
\* watchdog of GPIO 0.
ForKeepAlive(p) == library = "if" /\ p.n = 0
Reported(p) == Stays(p) /\ DepartureKnown(p) /\ ~ForKeepAlive(p)

\* So it is from a level that the library knows, unless the thread of the connection
\* goes astray in the list ...
EdgesToldOnce ==
  [][\A p \in callbacks :
       Reported(p) /\ walk[p.pi].at # "stray" => CalledForEach(p)]_callbackVars

\* ... and it is said to be so of every edge (pigpiod_if2.h), from whatever level.
EveryEdgeTold ==
  [][\A p \in callbacks :
       Stays(p) /\ ~ForKeepAlive(p) /\ walk[p.pi].at # "stray" => CalledForEach(p)]_callbackVars

CallbacksKept == CallbacksTypeOK /\ DaemonReportsForCallbacks /\ ReportsWhole
=============================================================================
