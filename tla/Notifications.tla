--------------------------- MODULE Notifications ---------------------------
(***************************************************************************)
(* The notification slots of pigpio.c.  A slot reports GPIO changes and    *)
(* events through a FIFO (gpioNotifyOpen) or in band, on the socket that   *)
(* asked (gpioNotifyOpenInBand).  Three kinds of thread work on the slots  *)
(* and only their reservation is locked: the API's caller, the handlers of *)
(* socket connections, and the alert thread, which writes the reports and  *)
(* ends the slots that are closed.                                         *)
(*                                                                         *)
(* A set of bits is empty or not: which GPIO or event is watched plays no  *)
(* part.  A write carries one report (max_emits).  Descriptors are given   *)
(* as the kernel gives them, lowest first, so they are reused.             *)
(***************************************************************************)
EXTENDS Integers, FiniteSets

CONSTANTS
    NotifySlots,    \* 0 .. PI_NOTIFY_SLOTS - 1
    NotifyFds,      \* the descriptors the process may hold
    Sockets,        \* bound: the connections the socket interface accepts
    MaxReports,     \* bound: a slot's sequence number
    MaxOpenings     \* bound: the slots reserved

ASSUME NotificationsAssumption ==
    /\ NotifySlots \subseteq Nat /\ 0 \in NotifySlots /\ NotifyFds \subseteq Nat
    /\ IsFiniteSet(NotifySlots) /\ IsFiniteSet(NotifyFds)
    /\ Sockets \subseteq Nat \ {0} /\ MaxReports \in Nat /\ MaxOpenings \in Nat

VARIABLES
    notify,      \* gpioNotify[]
    notifyBits,  \* notifyBits, part of the mask of the GPIO that are sampled
    opened,      \* what each descriptor is: FreeFd, <<"pipe", slot>>,
                 \* <<"stray", slot>> or <<"socket", connection>>
    request,     \* what the API's caller and each handler are executing
    emitter,     \* what the alert thread is doing
    openings,    \* the slots reserved so far
    known,       \* the handles the caller may use: opened, and not given up
    reader,      \* history: what each slot's reader has got since the slot was opened
    strayed,     \* history: a report was written into a stranger's descriptor
    mingled      \* history: steps on the slots overlapped as nothing prevents

notifyVars == <<notify, notifyBits, opened, request, emitter, openings, known, reader,
                strayed, mingled>>

Api == 0                                       \* the API's caller
Threads == {Api} \cup Sockets                  \* each connection has a handler
FreeFd == <<"free", 0>>
NoFd == -1
Open == {"OPENED", "RUNNING", "PAUSED"}       \* state > PI_NOTIFY_CLOSING

IdleRequest == [op |-> "none", at |-> "idle", slot |-> 0, fd |-> NoFd, sum |-> FALSE]
IdleEmitter == [at |-> "idle", slot |-> 0, changed |-> FALSE, event |-> FALSE,
                seqno |-> 0, emit |-> 0, sum |-> FALSE]

\* What a descriptor may be the end of.
Ends == {FreeFd} \cup ({"pipe", "stray"} \X NotifySlots) \cup ({"socket"} \X Sockets)

\* A slot's reader, at the other end of the pipe or socket.
NewReader(end) == [next |-> 0, missed |-> FALSE, end |-> end]

NotificationsTypeOK ==
    /\ notify \in [NotifySlots ->
          [state : {"CLOSED", "RESERVED", "CLOSING"} \cup Open, bits : BOOLEAN,
           eventBits : BOOLEAN, seqno : 0 .. MaxReports, fd : NotifyFds \cup {NoFd},
           pipe : BOOLEAN]]
    /\ notifyBits \in BOOLEAN
    /\ opened \in [NotifyFds -> Ends]
    /\ request \in [Threads ->
          [op : {"none", "open", "sized", "inband", "begin", "pause", "close", "monitor", "drop", "gone"},
           at : {"idle", "create", "publish", "orphans", "apply", "sum", "store", "leave"},
           slot : NotifySlots, fd : NotifyFds \cup {NoFd}, sum : BOOLEAN]]
    /\ emitter \in [at : {"idle", "slot", "mark", "write", "sum", "store", "seqno"},
          slot : NotifySlots, changed : BOOLEAN, event : BOOLEAN, seqno : 0 .. MaxReports,
          emit : 0 .. 2, sum : BOOLEAN]
    /\ known \subseteq NotifySlots /\ openings \in 0 .. MaxOpenings
    /\ reader \in [NotifySlots -> [next : 0 .. MaxReports, missed : BOOLEAN, end : Ends]]
    /\ strayed \in BOOLEAN /\ mingled \in BOOLEAN

NotificationsInit ==
    /\ notify = [h \in NotifySlots |->
          [state |-> "CLOSED", bits |-> FALSE, eventBits |-> FALSE, seqno |-> 0,
           fd |-> NoFd, pipe |-> FALSE]]
    /\ notifyBits = FALSE
    /\ opened = [fd \in NotifyFds |-> FreeFd]
    /\ request = [t \in Threads |-> IdleRequest]
    /\ emitter = IdleEmitter
    /\ known = {} /\ openings = 0
    /\ reader = [h \in NotifySlots |-> NewReader(FreeFd)]
    /\ strayed = FALSE /\ mingled = FALSE

Least(i, S) == i \in S /\ \A j \in S : i <= j
FreeFds == {fd \in NotifyFds : opened[fd] = FreeFd}
Carries(s, fd) == opened[fd] = <<"socket", s>>

\* intNotifyBits reads the slots, then stores what it computed.
RunningBits == \E h \in NotifySlots : notify[h].state = "RUNNING" /\ notify[h].bits
Summing == {t \in Threads : request[t].at = "store"} \cup
           {x \in {"alert"} : emitter.at = "store"}

Working(t, place) == request' = [request EXCEPT ![t].at = place]
Finished(t) == request' = [request EXCEPT ![t] = IdleRequest]

\* The alert thread is in the middle of its work on the slot.
Reporting(h) == emitter.at \in {"write", "sum", "store", "seqno"} /\ emitter.slot = h

(***************************************************************************)
(* Connections                                                             *)
(***************************************************************************)
Accept(s) ==
    /\ \A fd \in NotifyFds : ~ Carries(s, fd)
    /\ request[s] = IdleRequest
    /\ \E fd \in NotifyFds : Least(fd, FreeFds) /\ opened' = [opened EXCEPT ![fd] = <<"socket", s>>]
    /\ UNCHANGED <<notify, notifyBits, request, emitter, openings, known, reader, strayed, mingled>>

\* The peer is gone: the handler closes the notifications of its socket, then
\* the socket.  The client that owned them uses their handles no more.
Drop(s) ==
    /\ request[s] = IdleRequest
    /\ \E fd \in NotifyFds :
         /\ Carries(s, fd)
         /\ request' = [request EXCEPT ![s] =
               [IdleRequest EXCEPT !.op = "drop", !.at = "orphans", !.fd = fd]]
         /\ known' = {h \in known : notify[h].fd # fd}
    /\ UNCHANGED <<notify, notifyBits, opened, emitter, openings, reader, strayed, mingled>>

Disconnect(s) ==
    /\ request[s].at = "leave"
    /\ opened' = [fd \in NotifyFds |-> IF Carries(s, fd) THEN FreeFd ELSE opened[fd]]
    /\ request' = [request EXCEPT ![s] = [IdleRequest EXCEPT !.op = "gone"]]
    /\ mingled' = (mingled \/ /\ emitter.at = "write"
                              /\ opened[notify[emitter.slot].fd] = <<"socket", s>>)
    /\ UNCHANGED <<notify, notifyBits, emitter, openings, known, reader, strayed>>

(***************************************************************************)
(* Opening                                                                 *)
(***************************************************************************)
\* The part under notifyMutex.  No slot: PI_NO_HANDLE.
ReserveNotify(t, op) ==
    /\ request[t] = IdleRequest
    /\ \E h \in NotifySlots, fd \in NotifyFds \cup {NoFd} :
         /\ Least(h, {i \in NotifySlots : notify[i].state = "CLOSED"})
         /\ IF op = "inband" THEN fd \in NotifyFds /\ Carries(t, fd) ELSE t = Api /\ fd = NoFd
         /\ notify' = [notify EXCEPT ![h].state = "RESERVED"]
         /\ request' = [request EXCEPT ![t] =
               [op |-> op, at |-> IF op = "inband" THEN "publish" ELSE "create",
                slot |-> h, fd |-> fd, sum |-> FALSE]]
    /\ openings < MaxOpenings /\ openings' = openings + 1
    /\ UNCHANGED <<notifyBits, opened, emitter, known, reader, strayed, mingled>>

\* The FIFO is made and opened, or is not.  A size the pipe does not take is
\* an error that leaves the descriptor open.
CreatePipe(t) ==
    LET h == request[t].slot
        fail == /\ notify' = [notify EXCEPT ![h].state = "CLOSED"]
                /\ Finished(t)
    IN /\ request[t].at = "create"
       /\ \/ fail /\ UNCHANGED opened
          \/ \E fd \in NotifyFds :
               /\ Least(fd, FreeFds)
               /\ \/ /\ opened' = [opened EXCEPT ![fd] = <<"pipe", h>>]
                     /\ request' = [request EXCEPT ![t].at = "publish", ![t].fd = fd]
                     /\ UNCHANGED notify
                  \/ /\ request[t].op = "sized"
                     /\ opened' = [opened EXCEPT ![fd] = <<"stray", h>>]
                     /\ fail
       /\ UNCHANGED <<notifyBits, emitter, openings, known, reader, strayed, mingled>>

\* eventBits is not among the fields that are set.  After a size was given, i
\* is that size and no more the slot, whose state stays RESERVED.
PublishNotify(t) ==
    LET h == request[t].slot
        fd == request[t].fd IN
    /\ request[t].at = "publish"
    /\ notify' = [notify EXCEPT ![h] =
          [state |-> IF request[t].op = "sized" THEN "RESERVED" ELSE "OPENED",
           bits |-> FALSE, eventBits |-> @.eventBits, seqno |-> 0, fd |-> fd,
           pipe |-> request[t].op # "inband"]]
    /\ reader' = [reader EXCEPT ![h] = NewReader(opened[fd])]
    /\ mingled' = (mingled \/ Reporting(h))
    /\ Working(t, "orphans")
    /\ UNCHANGED <<notifyBits, opened, emitter, openings, known, strayed>>

\* closeOrphanedNotifications: the other slots with this descriptor are closed.
CloseOrphans(t) ==
    LET opening == request[t].op # "drop"
        orphans == {h \in NotifySlots :
            /\ notify[h].state \in Open
            /\ opening => h # request[t].slot
            /\ notify[h].fd = request[t].fd}
    IN /\ request[t].at = "orphans"
       /\ notify' = [h \in NotifySlots |->
             IF h \in orphans THEN [notify[h] EXCEPT !.state = "CLOSED"] ELSE notify[h]]
       /\ mingled' = (mingled \/ \E h \in orphans : Reporting(h))
       /\ IF orphans # {} THEN Working(t, "sum") /\ UNCHANGED known
          ELSE IF opening THEN Finished(t) /\ known' = known \cup {request[t].slot}
          ELSE Working(t, "leave") /\ UNCHANGED known
       /\ UNCHANGED <<notifyBits, opened, emitter, openings, reader, strayed>>

(***************************************************************************)
(* Calls that name a handle                                                *)
(***************************************************************************)
\* The check of the state; the call is refused after it or goes on.
Call(op, h) ==
    /\ request[Api] = IdleRequest /\ h \in known
    /\ IF notify[h].state \in Open
       THEN request' = [request EXCEPT ![Api] =
               [op |-> op, at |-> "apply", slot |-> h, fd |-> NoFd, sum |-> FALSE]]
       ELSE UNCHANGED request
    /\ known' = IF op = "close" THEN known \ {h} ELSE known
    /\ UNCHANGED <<notify, notifyBits, opened, emitter, openings, reader, strayed, mingled>>

Apply ==
    LET h == request[Api].slot
        op == request[Api].op
    IN /\ request[Api].at = "apply"
       /\ notify' = [notify EXCEPT ![h] =
             CASE op = "begin"   -> [@ EXCEPT !.bits = TRUE, !.state = "RUNNING"]
               [] op = "pause"   -> [@ EXCEPT !.bits = FALSE, !.state = "PAUSED"]
               [] op = "close"   -> [@ EXCEPT !.bits = FALSE, !.state = "CLOSING"]
               [] op = "monitor" -> [@ EXCEPT !.eventBits = TRUE]]
       /\ IF op = "monitor" THEN Finished(Api) ELSE Working(Api, "sum")
       /\ mingled' = (mingled \/ notify[h].state \notin Open)
       /\ UNCHANGED <<notifyBits, opened, emitter, openings, known, reader, strayed>>

SumBits(t) ==
    /\ request[t].at = "sum"
    /\ request' = [request EXCEPT ![t].at = "store", ![t].sum = RunningBits]
    /\ mingled' = (mingled \/ Summing # {})
    /\ UNCHANGED <<notify, notifyBits, opened, emitter, openings, known, reader, strayed>>

StoreBits(t) ==
    /\ request[t].at = "store"
    /\ notifyBits' = request[t].sum
    /\ IF request[t].op = "drop" THEN Working(t, "leave") ELSE Finished(t)
    /\ known' = IF request[t].op \in {"open", "sized", "inband"} THEN known \cup {request[t].slot}
                ELSE known
    /\ UNCHANGED <<notify, opened, emitter, openings, reader, strayed, mingled>>


(***************************************************************************)
(* The alert thread (alertEmit)                                            *)
(***************************************************************************)
EmitterUnchanged == UNCHANGED <<request, openings, known>>

\* A pass begins: a GPIO that is sampled changed or not, an event fired or not.
Pass ==
    /\ emitter.at = "idle"
    /\ \E changed \in {FALSE, notifyBits}, event \in BOOLEAN, first \in NotifySlots :
         /\ Least(first, NotifySlots)
         /\ emitter' = [IdleEmitter EXCEPT !.at = "slot", !.slot = first,
                                           !.changed = changed, !.event = event]
    /\ UNCHANGED <<notify, notifyBits, opened, request, openings, known, reader, strayed, mingled>>

NextSlot ==
    LET later == {h \in NotifySlots : h > emitter.slot} IN
    IF later = {} THEN emitter' = IdleEmitter
    ELSE \E h \in NotifySlots :
           /\ Least(h, later)
           /\ emitter' = [emitter EXCEPT !.at = "slot", !.slot = h, !.emit = 0, !.seqno = 0,
                                         !.sum = FALSE]

\* PI_NOTIFY_CLOSING: the pipe is closed and unlinked, then the slot is closed.
EndSlot ==
    LET h == emitter.slot IN
    /\ emitter.at = "slot" /\ notify[h].state = "CLOSING"
    /\ opened' = IF notify[h].pipe THEN [opened EXCEPT ![notify[h].fd] = FreeFd] ELSE opened
    /\ emitter' = [emitter EXCEPT !.at = "mark"]
    /\ UNCHANGED <<notify, notifyBits, openings, reader, strayed, mingled>>
    /\ EmitterUnchanged

MarkSlot ==
    /\ emitter.at = "mark"
    /\ notify' = [notify EXCEPT ![emitter.slot].state = "CLOSED"]
    /\ NextSlot
    /\ UNCHANGED <<notifyBits, opened, openings, reader, strayed, mingled>>
    /\ EmitterUnchanged

\* The reports due: for the change, if the slot runs; for the event, if it is
\* watched; else, now and then, a sign of life.
Due(h, alive) ==
    LET change == emitter.changed /\ notify[h].state = "RUNNING" /\ notify[h].bits
        event  == emitter.event /\ notify[h].eventBits
        n == (IF change THEN 1 ELSE 0) + (IF event THEN 1 ELSE 0)
    IN IF n = 0 /\ alive THEN 1 ELSE n

ReportSlot ==
    LET h == emitter.slot IN
    /\ emitter.at = "slot" /\ notify[h].state # "CLOSING"
    /\ IF notify[h].state \notin Open THEN NextSlot
       ELSE \E alive \in BOOLEAN :
              IF Due(h, alive) = 0 \/ notify[h].seqno + Due(h, alive) > MaxReports THEN NextSlot
              ELSE emitter' = [emitter EXCEPT !.at = "write", !.emit = Due(h, alive),
                                              !.seqno = notify[h].seqno]
    /\ UNCHANGED <<notify, notifyBits, opened, openings, reader, strayed, mingled>>
    /\ EmitterUnchanged

\* One write: taken, or lost because it would block, or failed.  It goes to
\* whatever the slot's descriptor is now.
Write ==
    LET h == emitter.slot
        target == opened[notify[h].fd]
        sent == emitter.seqno
        more == emitter' = [emitter EXCEPT !.seqno = @ + 1, !.emit = @ - 1,
                               !.at = IF emitter.emit = 1 THEN "seqno" ELSE "write"]
    IN /\ emitter.at = "write"
       /\ \/ /\ target # FreeFd
             /\ reader' = IF target = reader[h].end
                          THEN [reader EXCEPT ![h].next = sent + 1, ![h].missed = FALSE]
                          ELSE reader
             /\ strayed' = (strayed \/ target # reader[h].end)
             /\ more /\ UNCHANGED notify
          \/ /\ target # FreeFd
             /\ reader' = [reader EXCEPT ![h].missed = TRUE]
             /\ more /\ UNCHANGED <<notify, strayed>>
          \/ /\ notify' = [notify EXCEPT ![h].bits = FALSE, ![h].state = "CLOSING"]
             /\ emitter' = [emitter EXCEPT !.at = "sum"]
             /\ UNCHANGED <<openings, reader, strayed>>
       /\ UNCHANGED <<notifyBits, opened, mingled>>
       /\ EmitterUnchanged

EmitterSums ==
    /\ emitter.at = "sum"
    /\ emitter' = [emitter EXCEPT !.at = "store", !.sum = RunningBits]
    /\ mingled' = (mingled \/ Summing # {})
    /\ UNCHANGED <<notify, notifyBits, opened, openings, reader, strayed>>
    /\ EmitterUnchanged

EmitterStores ==
    /\ emitter.at = "store"
    /\ notifyBits' = emitter.sum
    /\ emitter' = [emitter EXCEPT !.at = "seqno"]
    /\ UNCHANGED <<notify, opened, openings, reader, strayed, mingled>>
    /\ EmitterUnchanged

\* (mutant: the sequence number is not kept)
LoseSeqno ==
    /\ emitter.at = "seqno" /\ NextSlot
    /\ UNCHANGED <<notify, notifyBits, opened, openings, reader, strayed, mingled>>
    /\ EmitterUnchanged
KeepSeqno ==
    /\ emitter.at = "seqno"
    /\ notify' = [notify EXCEPT ![emitter.slot].seqno = emitter.seqno]
    /\ NextSlot
    /\ UNCHANGED <<notifyBits, opened, openings, reader, strayed, mingled>>
    /\ EmitterUnchanged

AlertStep == EndSlot \/ MarkSlot \/ ReportSlot \/ Write \/ EmitterSums \/ EmitterStores \/ KeepSeqno

NotificationsNext ==
    \/ \E s \in Sockets : Accept(s) \/ Drop(s) \/ Disconnect(s) \/ ReserveNotify(s, "inband")
    \/ \E op \in {"open", "sized"} : ReserveNotify(Api, op)
    \/ \E t \in Threads :
         CreatePipe(t) \/ PublishNotify(t) \/ CloseOrphans(t) \/ SumBits(t) \/ StoreBits(t)
    \/ \E op \in {"begin", "pause", "close", "monitor"}, h \in NotifySlots : Call(op, h)
    \/ Apply
    \/ Pass \/ AlertStep

\* The alert thread never ends and no step of it waits for another thread.
NotificationsSpec ==
    NotificationsInit /\ [][NotificationsNext]_notifyVars
    /\ WF_notifyVars(Pass) /\ WF_notifyVars(AlertStep)

-----------------------------------------------------------------------------
(***************************************************************************)
(* Properties                                                              *)
(***************************************************************************)
\* Unless two threads met on a slot, what is written for it goes to its own
\* pipe or to the socket that opened it, whatever descriptors are reused.
ReportsReachTheirReader == mingled \/ ~ strayed

\* A reader told of its loss: the number of the next report is the one the
\* reader expects, unless a report was lost, and then it is higher.
GapsTellOfLoss ==
    mingled \/ \A h \in NotifySlots :
        LET next == IF Reporting(h) THEN emitter.seqno ELSE notify[h].seqno
        IN notify[h].state \in Open =>
             IF reader[h].missed THEN next > reader[h].next ELSE next = reader[h].next

\* Unless two threads recomputed notifyBits at once, a slot that runs is
\* sampled for as soon as the computation that follows is done.
RunningIsSampled ==
    mingled \/ Summing # {} \/ (\E t \in Threads : request[t].at = "sum") \/ emitter.at = "sum"
    \/ notifyBits = RunningBits

\* Each pipe that is open belongs to a slot that is not free and that will
\* close it, or to the call that opens it, except those a refused size left behind.
NoPipeLost ==
    \A fd \in NotifyFds : \A h \in NotifySlots :
        opened[fd] = <<"pipe", h>> =>
            /\ notify[h].state # "CLOSED"
            /\ \/ notify[h].fd = fd
               \/ request[Api].at = "publish" /\ request[Api].slot = h /\ request[Api].fd = fd

\* A slot is being closed: it is to be free again in time.
SlotClosing == ~ mingled /\ \E h \in NotifySlots : notify[h].state = "CLOSING"

\* The readers get their reports, all numbered, and the slots that run are
\* sampled and keep their pipes.
NotificationsKept ==
    NotificationsTypeOK /\ ReportsReachTheirReader /\ GapsTellOfLoss /\ RunningIsSampled /\ NoPipeLost
=============================================================================
