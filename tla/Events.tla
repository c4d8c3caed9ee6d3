------------------------------- MODULE Events -------------------------------
(* Events of pigpio (src/pigpio/pigpio.c) and the BSC, the peripheral by which the
   machine is an I2C or SPI slave.  Any thread triggers an event; the alert thread
   makes the calls, once a pass, and clears what it has looked at.  It also takes a
   change of the status of the BSC for an event, which bscXfer has it ignore while
   it fills and empties the FIFOs that a master works on at the same time.
   Nothing guards `fired`, `ignore` and bscFR.                                 *)
EXTENDS Integers, Sequences

CONSTANTS
  UserEvents,       \* events that are triggered
  PI_EVENT_BSC,     \* the event of the BSC
  BscFifo,          \* bytes in one of its FIFOs
  BSC_FIFO_SIZE,    \* bytes that bscXfer returns at most
  MaxBytes,         \* bytes that are sent each way
  MaxTxCnt          \* bytes of a call

EventIds == UserEvents \union {PI_EVENT_BSC}
\* The event of the BSC is the last there is.
ASSUME EventsAssumption ==
  /\ EventIds \subseteq Nat /\ \A b \in EventIds : b <= PI_EVENT_BSC
  /\ BscFifo \in Nat \ {0} /\ BSC_FIFO_SIZE \in Nat \ {0}

VARIABLES
  eventAlert,    \* for each event `fired` and `ignore`
  looking,       \* the event the alert thread has come to, and whether it has looked
  bscFR,         \* the status of the BSC that was seen last
  bsc,           \* its FIFOs, and whether a master is busy with it
  bscMode,       \* 0 none, 1 I2C, 2 SPI
  altPins,       \* the GPIO in the mode of the BSC
  bscCall,       \* bscXfer: where it is, the bytes to copy and those received
  moved,         \* bytes the caller was given and has copied, the master sent and took
  due,           \* events that were triggered and not told since
  knownStatus,   \* the status the user knows of, from an event or a call
  missed         \* a trigger, or a change of the BSC, fell into a gap

eventVars == <<eventAlert, looking, bscFR, bsc, bscMode, altPins, bscCall, moved, due, knownStatus,
               missed>>

Bus == {"sda", "scl"}
AllPins == Bus \union {"miso", "ce"}
BscRests == [at |-> "rest", tx |-> 0, rx |-> 0, active |-> FALSE]
NoEvent == PI_EVENT_BSC + 1

EventsInit ==
  /\ eventAlert = [b \in EventIds |-> [fired |-> FALSE, ignore |-> FALSE]]
  /\ looking = [event |-> NoEvent, looked |-> FALSE]
  /\ bsc = [rx |-> <<>>, tx |-> <<>>, busy |-> FALSE]
  /\ bscFR = [rx |-> 0, tx |-> 0, busy |-> FALSE] /\ knownStatus = bscFR
  /\ bscMode = 0 /\ altPins = {} /\ bscCall = BscRests
  /\ moved = [got |-> 0, copied |-> 0, sent |-> 0, took |-> 0]
  /\ due = {} /\ missed = FALSE

\* The FR register: the levels of the FIFOs and the busy bits.
FR == [rx |-> Len(bsc.rx), tx |-> Len(bsc.tx), busy |-> bsc.busy]

----------------------------------------------------------------------------
(* Triggers and the alert thread *)

eventTrigger(b) ==
  /\ eventAlert' = [eventAlert EXCEPT ![b].fired = TRUE]
  /\ due' = due \union {b}
  /\ missed' = (missed \/ looking = [event |-> b, looked |-> TRUE])
  /\ UNCHANGED <<looking, bscFR, bsc, bscMode, altPins, bscCall, moved, knownStatus>>

FirstEvent == CHOOSE b \in EventIds : \A c \in EventIds : b <= c
NextEvent(b) == LET later == {c \in EventIds : c > b}
                IN IF later = {} THEN NoEvent ELSE CHOOSE c \in later : \A d \in later : c <= d

\* (mutant: the status that was seen stays the old one)
ForgetsStatus ==
  /\ looking.event = NoEvent
  /\ looking' = [event |-> FirstEvent, looked |-> FALSE]
  /\ bscFR' = FR /\ UNCHANGED eventAlert
  /\ UNCHANGED <<bsc, bscMode, altPins, bscCall, moved, due, knownStatus, missed>>
\* A pass begins: a change of status is an event.
LookAtBsc ==
  /\ looking.event = NoEvent
  /\ looking' = [event |-> FirstEvent, looked |-> FALSE]
  /\ IF bscFR # FR
     THEN bscFR' = FR /\ eventAlert' = [eventAlert EXCEPT ![PI_EVENT_BSC].fired = TRUE]
     ELSE UNCHANGED <<bscFR, eventAlert>>
  /\ UNCHANGED <<bsc, bscMode, altPins, bscCall, moved, due, knownStatus, missed>>

TellEvent ==
  /\ looking.event # NoEvent /\ ~looking.looked
  /\ LET b == looking.event
         tells == eventAlert[b].fired /\ ~eventAlert[b].ignore
     IN /\ due' = IF tells THEN due \ {b} ELSE due
        /\ knownStatus' = IF tells /\ b = PI_EVENT_BSC THEN bscFR ELSE knownStatus
        /\ missed' = (missed \/ (b = PI_EVENT_BSC /\ eventAlert[b].fired /\ bscCall.at = "leaving"))
  /\ looking' = [looking EXCEPT !.looked = TRUE]
  /\ UNCHANGED <<eventAlert, bscFR, bsc, bscMode, altPins, bscCall, moved>>

\* What was triggered since it was looked at goes with the rest.
ClearEvent ==
  /\ looking.looked
  /\ LET b == looking.event
     IN /\ eventAlert' = [eventAlert EXCEPT ![b].fired = FALSE]
        /\ looking' = [event |-> NextEvent(b), looked |-> FALSE]
  /\ UNCHANGED <<bscFR, bsc, bscMode, altPins, bscCall, moved, due, knownStatus, missed>>

----------------------------------------------------------------------------
(* bscXfer *)

SetPins(mode) == IF mode > 1 THEN AllPins ELSE Bus
Ignore(on) == eventAlert' = [eventAlert EXCEPT ![PI_EVENT_BSC].ignore = on]

\* A mode beyond the present one sets the pins up; no call leaves SPI for I2C.
bscXfer(mode, txCnt) ==
  /\ bscCall = BscRests /\ Ignore(TRUE)
  /\ bscMode' = IF mode > bscMode THEN mode ELSE bscMode
  /\ altPins' = IF mode > bscMode THEN altPins \union SetPins(mode) ELSE altPins
  /\ bscCall' = [at |-> "copying", tx |-> txCnt, rx |-> 0, active |-> FALSE]
  /\ UNCHANGED <<looking, bscFR, bsc, moved, due, knownStatus, missed>>

\* Control 0: the pins are inputs again, and its events stay ignored.
bscTerm ==
  /\ bscCall = BscRests /\ Ignore(TRUE)
  /\ bscMode' = 0
  /\ altPins' = IF bscMode = 0 THEN altPins ELSE altPins \ SetPins(bscMode)
  /\ UNCHANGED <<looking, bscFR, bsc, bscCall, moved, due, knownStatus, missed>>

InCall == UNCHANGED <<eventAlert, looking, bscFR, bscMode, altPins, due, knownStatus, missed>>

CopyByte ==
  /\ bscCall.at = "copying"
  /\ IF bscCall.tx > 0 /\ Len(bsc.tx) < BscFifo
     THEN /\ bsc' = [bsc EXCEPT !.tx = Append(@, moved.copied + 1)]
          /\ moved' = [moved EXCEPT !.copied = @ + 1]
          /\ bscCall' = [bscCall EXCEPT !.tx = @ - 1, !.active = TRUE]
     ELSE bscCall' = [bscCall EXCEPT !.at = "receiving"] /\ UNCHANGED <<bsc, moved>>
  /\ InCall

ReceiveByte ==
  /\ bscCall.at = "receiving"
  /\ IF bscCall.rx < BSC_FIFO_SIZE /\ bsc.rx # <<>>
     THEN /\ moved' = [moved EXCEPT !.got = @ + 1]
          /\ bsc' = [bsc EXCEPT !.rx = Tail(@)]
          /\ bscCall' = [bscCall EXCEPT !.rx = @ + 1, !.active = TRUE]
     ELSE /\ UNCHANGED <<bsc, moved>>
          /\ bscCall' = IF bscCall.active \/ bsc.busy
                     THEN [bscCall EXCEPT !.at = "copying", !.active = FALSE]
                     ELSE [bscCall EXCEPT !.at = "finished"]
  /\ InCall

\* The caller is told the status, from which events count again.
TakeStatus ==
  /\ bscCall.at = "finished" /\ bscCall' = [bscCall EXCEPT !.at = "leaving"]
  /\ bscFR' = FR /\ knownStatus' = FR
  /\ UNCHANGED <<eventAlert, looking, bsc, bscMode, altPins, moved, due, missed>>
HeedEvents ==
  /\ bscCall.at = "leaving" /\ bscCall' = BscRests /\ Ignore(FALSE)
  /\ UNCHANGED <<looking, bscFR, bsc, bscMode, altPins, moved, due, knownStatus, missed>>

\* The master (external): what it sends while the FIFO is full is not accepted.
Master(b, m) == /\ bsc' = b /\ moved' = m
                /\ UNCHANGED <<eventAlert, looking, bscFR, bscMode, altPins, bscCall, due,
                               knownStatus, missed>>
MasterBegins == bscMode > 0 /\ ~bsc.busy /\ Master([bsc EXCEPT !.busy = TRUE], moved)
MasterSends == /\ bsc.busy /\ Len(bsc.rx) < BscFifo /\ moved.sent < MaxBytes
               /\ Master([bsc EXCEPT !.rx = Append(@, moved.sent + 1)],
                         [moved EXCEPT !.sent = @ + 1])
MasterTakes == /\ bsc.busy /\ bsc.tx # <<>>
               /\ Master([bsc EXCEPT !.tx = Tail(@)], [moved EXCEPT !.took = @ + 1])
MasterEnds == bsc.busy /\ Master([bsc EXCEPT !.busy = FALSE], moved)

CallOn == CopyByte \/ ReceiveByte \/ TakeStatus \/ HeedEvents
EventsNext ==
  \/ \E b \in UserEvents : eventTrigger(b)
  \/ LookAtBsc \/ TellEvent \/ ClearEvent
  \/ \E mode \in 1..2, n \in 0..MaxTxCnt : moved.copied + n <= MaxBytes /\ bscXfer(mode, n)
  \/ bscTerm \/ CallOn
  \/ MasterBegins \/ MasterSends \/ MasterTakes \/ MasterEnds
EventsSpec == EventsInit /\ [][EventsNext]_eventVars

----------------------------------------------------------------------------
EventsTypeOK ==
  /\ looking.event \in EventIds \union {NoEvent} /\ bscMode \in 0..2
  /\ bscCall.at \in {"rest", "copying", "receiving", "finished", "leaving"}
  /\ due \subseteq UserEvents /\ missed \in BOOLEAN

\* A trigger is still to be told or has been told since, and a status that the user
\* does not know of, once it was seen, is an event to be told: but for the triggers
\* that fall between the look and the clearing, and a change of the BSC that is
\* seen when bscXfer has taken the status and does not yet heed events.
TriggersTold ==
  ~missed => /\ \A b \in due : eventAlert[b].fired
             /\ ~eventAlert[PI_EVENT_BSC].ignore /\ bscFR # knownStatus =>
                  eventAlert[PI_EVENT_BSC].fired

\* No byte is lost or changes its place on the way between the calls and the
\* master, however the calls and the master's transfers overlap.
BytesInOrder ==
  /\ moved.got + Len(bsc.rx) = moved.sent /\ moved.took + Len(bsc.tx) = moved.copied
  /\ \A i \in DOMAIN bsc.rx : bsc.rx[i] = moved.got + i
  /\ \A i \in DOMAIN bsc.tx : bsc.tx[i] = moved.took + i

\* The pins in the mode of the BSC are those of the widest mode since it was last
\* ended, and none before the first call and after the last.
PinsOfMode == altPins = IF bscMode = 0 THEN {} ELSE SetPins(bscMode)

EventsKept == EventsTypeOK /\ TriggersTold /\ BytesInOrder /\ PinsOfMode
=============================================================================
