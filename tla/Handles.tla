------------------------------ MODULE Handles ------------------------------
(***************************************************************************)
(* The handles of pigpio.c: i2cOpen, serOpen and fileOpen give a caller    *)
(* the number of a slot whose entry holds the descriptor of a device or a  *)
(* file, and the calls that follow name the slot.  A slot is reserved      *)
(* under a mutex; everything after that, and the whole of a close, runs    *)
(* unlocked in the caller's thread (the application's, a socket client's   *)
(* or the pipe's), so two callers interleave between any two steps.        *)
(*                                                                         *)
(* The kernel gives the lowest free descriptor, so a descriptor closed too *)
(* early or twice is soon another slot's.  A caller uses and closes the    *)
(* handles it was given.                                                   *)
(***************************************************************************)
EXTENDS Integers, FiniteSets

CONSTANTS
    Callers,        \* the threads that call the library
    Kinds,          \* the tables: a subset of {"i2c", "ser", "file"}
    SlotsPerKind,   \* PI_I2C_SLOTS, PI_SER_SLOTS, PI_FILE_SLOTS
    Descriptors     \* the descriptors the process may hold

ASSUME HandlesAssumption ==
    /\ Kinds \subseteq {"i2c", "ser", "file"}
    /\ SlotsPerKind \in Nat \ {0}
    /\ Descriptors \subseteq Nat /\ IsFiniteSet(Descriptors)

CLOSED   == "CLOSED"
RESERVED == "RESERVED"
OPENED   == "OPENED"
NoFd     == -1
Nobody   == <<"none", 0>>

Handle == Kinds \X (0 .. SlotsPerKind - 1)

VARIABLES
    table,   \* i2cInfo, serInfo and fileInfo: [state, fd] of every slot
    files,   \* the handle on whose behalf a descriptor is open, or Nobody
    call,    \* what each caller is executing: [at, handle, fd]
    mine     \* the handles each caller was given and has not closed

handleVars == <<table, files, call, mine>>

NoCall == [at |-> "idle", handle |-> Nobody, fd |-> NoFd]

HandlesTypeOK ==
    /\ table \in [Handle -> [state : {CLOSED, RESERVED, OPENED},
                             fd : Descriptors \cup {NoFd}]]
    /\ files \in [Descriptors -> Handle \cup {Nobody}]
    /\ call \in [Callers ->
                  [at : {"idle", "opening", "retrying", "configuring",
                         "recording", "publishing", "closing", "forgetting",
                         "freeing", "using"},
                   handle : Handle \cup {Nobody},
                   fd : Descriptors \cup {NoFd}]]
    /\ mine \in [Callers -> SUBSET Handle]

HandlesInit ==
    /\ table = [h \in Handle |-> [state |-> CLOSED, fd |-> NoFd]]
    /\ files = [d \in Descriptors |-> Nobody]
    /\ call = [c \in Callers |-> NoCall]
    /\ mine = [c \in Callers |-> {}]

(***************************************************************************)
(* Opening.  The search for a closed slot and its reservation are one step *)
(* under the mutex.                                                        *)
(***************************************************************************)
ClosedSlots(k) == {i \in 0 .. SlotsPerKind - 1 : table[<<k, i>>].state = CLOSED}

Lowest(n, S) == n \in S /\ \A m \in S : n <= m

\* With no slot closed the call returns PI_NO_HANDLE.
Reserve(c, k) ==
    /\ call[c] = NoCall
    /\ \E i \in 0 .. SlotsPerKind - 1 :
          /\ Lowest(i, ClosedSlots(k))
          /\ table' = [table EXCEPT ![<<k, i>>].state = RESERVED]
          /\ call' = [call EXCEPT ![c] = [at |-> "opening", handle |-> <<k, i>>,
                                          fd |-> NoFd]]
    /\ UNCHANGED <<files, mine>>

\* The call gives its slot back and returns an error.
GiveUp(c) ==
    /\ table' = [table EXCEPT ![call[c].handle].state = CLOSED]
    /\ call' = [call EXCEPT ![c] = NoCall]

FreeDescriptors == {d \in Descriptors : files[d] = Nobody}

\* open(2): the device opens when there is a descriptor for it.
Opens(c) ==
    /\ \E d \in Descriptors :
          /\ Lowest(d, FreeDescriptors)
          /\ files' = [files EXCEPT ![d] = call[c].handle]
          /\ call' = [call EXCEPT ![c].at = "configuring", ![c].fd = d]
    /\ UNCHANGED <<table, mine>>

\* i2cOpen loads the driver's kernel modules and tries once more.
OpenDevice(c) ==
    /\ call[c].at \in {"opening", "retrying"}
    /\ \/ Opens(c)
       \/ /\ call[c].at = "opening" /\ call[c].handle[1] = "i2c"
          /\ call' = [call EXCEPT ![c].at = "retrying"]
          /\ UNCHANGED <<table, files, mine>>
       \/ /\ call[c].at = "retrying" \/ call[c].handle[1] # "i2c"
          /\ GiveUp(c)
          /\ UNCHANGED <<files, mine>>

\* (mutant: the descriptor is not closed when the device refuses)
RefusedLeaving(c) == call[c].handle[1] \in {"i2c", "file"} /\ GiveUp(c) /\ UNCHANGED <<files, mine>>
\* The device refuses its address (i2c), or the file is a directory; a tty's
\* settings are not checked.  The call closes what it opened.
Refused(c) ==
    /\ call[c].handle[1] \in {"i2c", "file"}
    /\ files' = [files EXCEPT ![call[c].fd] = Nobody]
    /\ GiveUp(c)
    /\ UNCHANGED mine

Configure(c) ==
    /\ call[c].at = "configuring"
    /\ \/ Refused(c)
       \/ /\ call' = [call EXCEPT ![c].at = "recording"]
          /\ UNCHANGED <<table, files, mine>>

Record(c) ==
    /\ call[c].at = "recording"
    /\ table' = [table EXCEPT ![call[c].handle].fd = call[c].fd]
    /\ call' = [call EXCEPT ![c].at = "publishing", ![c].fd = NoFd]
    /\ UNCHANGED <<files, mine>>

Publish(c) ==
    /\ call[c].at = "publishing"
    /\ table' = [table EXCEPT ![call[c].handle].state = OPENED]
    /\ mine' = [mine EXCEPT ![c] = @ \cup {call[c].handle}]
    /\ call' = [call EXCEPT ![c] = NoCall]
    /\ UNCHANGED files

(***************************************************************************)
(* Closing: the checks, close(2), the descriptor forgotten, the slot       *)
(* freed.                                                                  *)
(***************************************************************************)
CloseHandle(c, h) ==
    /\ call[c] = NoCall /\ h \in mine[c]
    /\ table[h].state = OPENED                  \* otherwise PI_BAD_HANDLE
    /\ mine' = [mine EXCEPT ![c] = @ \ {h}]
    /\ call' = [call EXCEPT ![c] = [at |-> "closing", handle |-> h, fd |-> NoFd]]
    /\ UNCHANGED <<table, files>>

CloseFile(c) ==
    /\ call[c].at = "closing"
    /\ LET fd == table[call[c].handle].fd
       IN  files' = IF fd >= 0 THEN [files EXCEPT ![fd] = Nobody] ELSE files
    /\ call' = [call EXCEPT ![c].at = "forgetting"]
    /\ UNCHANGED <<table, mine>>

Forget(c) ==
    /\ call[c].at = "forgetting"
    /\ table' = [table EXCEPT ![call[c].handle].fd = NoFd]
    /\ call' = [call EXCEPT ![c].at = "freeing"]
    /\ UNCHANGED <<files, mine>>

Free(c) ==
    /\ call[c].at = "freeing"
    /\ table' = [table EXCEPT ![call[c].handle].state = CLOSED]
    /\ call' = [call EXCEPT ![c] = NoCall]
    /\ UNCHANGED <<files, mine>>

(***************************************************************************)
(* Reading, writing, seeking: the checks, then one system call or, for     *)
(* serWrite, one after every partial write; each takes the descriptor from *)
(* the table.                                                              *)
(***************************************************************************)
UseHandle(c, h) ==
    /\ call[c] = NoCall /\ h \in mine[c]
    /\ table[h].state = OPENED
    /\ call' = [call EXCEPT ![c] = [at |-> "using", handle |-> h, fd |-> NoFd]]
    /\ UNCHANGED <<table, files, mine>>

Transferred(c) ==
    /\ call[c].at = "using"
    /\ call' = [call EXCEPT ![c] = NoCall]
    /\ UNCHANGED <<table, files, mine>>

HandlesNext ==
    \E c \in Callers :
        \/ \E k \in Kinds : Reserve(c, k)
        \/ OpenDevice(c) \/ Configure(c) \/ Record(c) \/ Publish(c)
        \/ \E h \in Handle : CloseHandle(c, h) \/ UseHandle(c, h)
        \/ CloseFile(c) \/ Forget(c) \/ Free(c)
        \/ Transferred(c)

HandlesSpec == HandlesInit /\ [][HandlesNext]_handleVars

(***************************************************************************)
(* Properties                                                              *)
(***************************************************************************)
\* A handle a caller was given stays its own until it closes it: whatever
\* the others open, fail to open or close in between, the slot is open and
\* its descriptor is one opened for this slot.
HandlesReachTheirFiles ==
    \A c \in Callers : \A h \in mine[c] :
        /\ table[h].state = OPENED
        /\ table[h].fd # NoFd /\ files[table[h].fd] = h
        /\ \A d \in Callers \ {c} : h \notin mine[d]

\* No descriptor is lost: each open one is in the slot it was opened for or
\* in the hands of the call that opened it, on every way out of an open.
NoDescriptorLost ==
    \A d \in Descriptors : files[d] # Nobody =>
        \/ table[files[d]].fd = d /\ table[files[d]].state # CLOSED
        \/ \E c \in Callers : call[c].fd = d /\ call[c].handle = files[d]

\* A handle reaches its file, and a file that is open has its handle.
HandlesKept == HandlesTypeOK /\ HandlesReachTheirFiles /\ NoDescriptorLost
=============================================================================
