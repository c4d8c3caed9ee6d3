------------------------------- MODULE SpiBus -------------------------------
(***************************************************************************)
(* The SPI part of pigpio.c: the handles of spiOpen and spiClose over the  *)
(* two SPI devices, "main" and "aux".  The first open on a device saves    *)
(* the modes of its pins and puts them in SPI mode, the last close puts    *)
(* the saved modes back.  Whether an open is the first and a close the     *)
(* last is read from the slots (spiAnyOpen) outside the mutex that guards  *)
(* the reservation of a slot, so the answer may be old when it is used.    *)
(*                                                                         *)
(* A device has two groups of pins: its bus pins (SCLK, MISO, MOSI) and    *)
(* its chip enables, which a handle may declare not to be for SPI.         *)
(*                                                                         *)
(* The second part is a transfer (spiGo), which has the device to itself:  *)
(* the loops of the processor against the two FIFOs and the shift register *)
(* of the device.  Words are numbered, as are those the other side sends.  *)
(***************************************************************************)
EXTENDS Integers, Sequences, FiniteSets

CONSTANTS
    Users,       \* the threads that call the library
    SpiSlots,    \* PI_SPI_SLOTS
    Resvds,      \* the values of a handle's RESVD flag
    FifoDepth,   \* words in a FIFO of each device
    MaxWords     \* bound: words of a transfer

ASSUME SpiAssumption ==
    /\ SpiSlots \in Nat \ {0} /\ Resvds \subseteq BOOLEAN
    /\ FifoDepth["main"] \in Nat \ {0} /\ FifoDepth["aux"] \in Nat \ {0}
    /\ MaxWords \in Nat

Devices == {"main", "aux"}
Groups == {"bus", "enable"}
SpiSlot == 0 .. SpiSlots - 1
NoSlot == -1

\* spiFlags: the device and whether the chip enables are left alone (RESVD).
Flags == [device : Devices, resvd : BOOLEAN]
NoFlags == [device |-> "main", resvd |-> FALSE]

VARIABLES
    spiInfo,     \* [state, flags] of every slot
    mode,        \* the mode of every pin group: "gpio" or "spi"
    saved,       \* the modes the last spiInit of the device saved
    doing,       \* what each thread is executing: [at, flags, slot]
    held,        \* the handles each thread was given and has not closed
    crossed,     \* history: a close overlapped another call
    disturbed,   \* history: devices whose opens overlapped or found no slot
    txFifo, rxFifo, shifting,   \* the words in the FIFOs and in the shift register
    go,          \* spiGo: where it is, its counts, the status it has read
    wire,        \* history: the words shifted, with the state of the bus at each
    read         \* history: the words read

spiVars == <<spiInfo, mode, saved, doing, held, crossed, disturbed>>

Resting == [at |-> "rest", flags |-> NoFlags, slot |-> NoSlot]
SpiOpening == {"asking", "saving", "setting", "reserving", "recording",
            "publishing"}
SpiClosing == {"marking", "counting", "restoring"}

SpiTypeOK ==
    /\ spiInfo \in [SpiSlot -> [state : {"CLOSED", "RESERVED", "OPENED"}, flags : Flags]]
    /\ mode \in [Devices \X Groups -> {"gpio", "spi"}]
    /\ saved \in [Devices \X Groups -> {"gpio", "spi"}]
    /\ doing \in [Users -> [at : {"rest"} \cup SpiOpening \cup SpiClosing,
                            flags : Flags, slot : SpiSlot \cup {NoSlot}]]
    /\ held \in [Users -> SUBSET SpiSlot]
    /\ crossed \in BOOLEAN /\ disturbed \subseteq Devices

SpiInit ==
    /\ spiInfo = [s \in SpiSlot |-> [state |-> "CLOSED", flags |-> NoFlags]]
    /\ mode = [p \in Devices \X Groups |-> "gpio"]
    /\ saved = [p \in Devices \X Groups |-> "gpio"]
    /\ doing = [u \in Users |-> Resting]
    /\ held = [u \in Users |-> {}]
    /\ crossed = FALSE /\ disturbed = {}

\* (mutant: a handle of either device counts)
AnyDeviceOpen(device) == \E s \in SpiSlot : spiInfo[s].state = "OPENED"
AnyOpen(device) == \E s \in SpiSlot : /\ spiInfo[s].state = "OPENED"
                                   /\ spiInfo[s].flags.device = device

\* The groups spiInit and spiTerm touch for the given flags.
Touched(flags) == {flags.device} \X (IF flags.resvd THEN {"bus"} ELSE Groups)

SpiGoes(u, at) == doing' = [doing EXCEPT ![u].at = at]

\* History: the call u is about to make overlaps another.
NoteOverlap(u, device, closing) ==
    LET others == {v \in Users \ {u} : doing[v].at # "rest"}
    IN  /\ crossed' = (\/ crossed
                      \/ (closing /\ others # {})
                      \/ \E v \in others : doing[v].at \in SpiClosing)
        /\ disturbed' = IF \E v \in others : doing[v].flags.device = device
                        THEN disturbed \cup {device} ELSE disturbed

(***************************************************************************)
(* spiOpen                                                                 *)
(***************************************************************************)
spiOpen(u, flags) ==
    /\ doing[u] = Resting
    /\ doing' = [doing EXCEPT ![u] = [at |-> "asking", flags |-> flags,
                                      slot |-> NoSlot]]
    /\ NoteOverlap(u, flags.device, FALSE)
    /\ UNCHANGED <<spiInfo, mode, saved, held>>

AskFirst(u) ==
    /\ doing[u].at = "asking"
    /\ SpiGoes(u, IF AnyOpen(doing[u].flags.device) THEN "reserving" ELSE "saving")
    /\ UNCHANGED <<spiInfo, mode, saved, held, crossed, disturbed>>

SaveModes(u) ==
    /\ doing[u].at = "saving"
    /\ saved' = [p \in DOMAIN saved |->
                   IF p[1] = doing[u].flags.device THEN mode[p] ELSE saved[p]]
    /\ SpiGoes(u, "setting")
    /\ UNCHANGED <<spiInfo, mode, held, crossed, disturbed>>

SetModes(u) ==
    /\ doing[u].at = "setting"
    /\ mode' = [p \in DOMAIN mode |->
                  IF p \in Touched(doing[u].flags) THEN "spi" ELSE mode[p]]
    /\ SpiGoes(u, "reserving")
    /\ UNCHANGED <<spiInfo, saved, held, crossed, disturbed>>

Unused == {s \in SpiSlot : spiInfo[s].state = "CLOSED"}

ReserveSlot(u) ==
    /\ doing[u].at = "reserving"
    /\ IF Unused = {}
       THEN /\ doing' = [doing EXCEPT ![u] = Resting]      \* PI_NO_HANDLE
            /\ disturbed' = disturbed \cup {doing[u].flags.device}
            /\ UNCHANGED spiInfo
       ELSE \E s \in Unused :
            /\ \A r \in Unused : s <= r
            /\ spiInfo' = [spiInfo EXCEPT ![s].state = "RESERVED"]
            /\ doing' = [doing EXCEPT ![u] = [at |-> "recording", slot |-> s,
                                              flags |-> doing[u].flags]]
            /\ UNCHANGED disturbed
    /\ UNCHANGED <<mode, saved, held, crossed>>

RecordFlags(u) ==
    /\ doing[u].at = "recording"
    /\ spiInfo' = [spiInfo EXCEPT ![doing[u].slot].flags = doing[u].flags]
    /\ SpiGoes(u, "publishing")
    /\ UNCHANGED <<mode, saved, held, crossed, disturbed>>

PublishSlot(u) ==
    /\ doing[u].at = "publishing"
    /\ spiInfo' = [spiInfo EXCEPT ![doing[u].slot].state = "OPENED"]
    /\ held' = [held EXCEPT ![u] = @ \cup {doing[u].slot}]
    /\ doing' = [doing EXCEPT ![u] = Resting]
    /\ UNCHANGED <<mode, saved, crossed, disturbed>>

(***************************************************************************)
(* spiClose                                                                *)
(***************************************************************************)
spiClose(u, s) ==
    /\ doing[u] = Resting /\ s \in held[u]
    /\ spiInfo[s].state = "OPENED"              \* otherwise PI_BAD_HANDLE
    /\ doing' = [doing EXCEPT ![u] = [at |-> "marking", slot |-> s,
                                      flags |-> spiInfo[s].flags]]
    /\ held' = [held EXCEPT ![u] = @ \ {s}]
    /\ NoteOverlap(u, spiInfo[s].flags.device, TRUE)
    /\ UNCHANGED <<spiInfo, mode, saved>>

MarkClosed(u) ==
    /\ doing[u].at = "marking"
    /\ spiInfo' = [spiInfo EXCEPT ![doing[u].slot].state = "CLOSED"]
    /\ SpiGoes(u, "counting")
    /\ UNCHANGED <<mode, saved, held, crossed, disturbed>>

\* The closed slot is read again: by now it may be another handle's, with
\* other flags.
AskLast(u) ==
    /\ doing[u].at = "counting"
    /\ LET flags == spiInfo[doing[u].slot].flags
       IN  doing' = [doing EXCEPT ![u] =
                       IF AnyOpen(flags.device) THEN Resting
                       ELSE [at |-> "restoring", slot |-> doing[u].slot,
                             flags |-> flags]]
    /\ UNCHANGED <<spiInfo, mode, saved, held, crossed, disturbed>>

spiTerm(u) ==
    /\ doing[u].at = "restoring"
    /\ mode' = [p \in DOMAIN mode |->
                  IF p \in Touched(doing[u].flags) THEN saved[p] ELSE mode[p]]
    /\ doing' = [doing EXCEPT ![u] = Resting]
    /\ UNCHANGED <<spiInfo, saved, held, crossed, disturbed>>

SpiNext ==
    \E u \in Users :
        \/ \E f \in [device : Devices, resvd : Resvds] : spiOpen(u, f)
        \/ AskFirst(u) \/ SaveModes(u) \/ SetModes(u)
        \/ ReserveSlot(u) \/ RecordFlags(u) \/ PublishSlot(u)
        \/ \E s \in SpiSlot : spiClose(u, s)
        \/ MarkClosed(u) \/ AskLast(u) \/ spiTerm(u)

SpiSpec == SpiInit /\ [][SpiNext]_spiVars

(***************************************************************************)
(* spiGo: a transfer.  The main device stops its clock while its receive   *)
(* FIFO is full; the auxiliary one goes on.                                *)
(***************************************************************************)
fifoVars == <<txFifo, rxFifo, shifting, go, wire, read>>
NoGo == [at |-> "rest", device |-> "main", count |-> 0, cnt4w |-> 0, cnt |-> 0, tx |-> 0,
         ren |-> FALSE, cs |-> FALSE, rxEmpty |-> TRUE, txFull |-> FALSE]

FifosInit == /\ txFifo = <<>> /\ rxFifo = <<>> /\ shifting = <<>>
             /\ go = NoGo /\ wire = <<>> /\ read = <<>>

\* With three wires the words after the first `ren3w` are for reading.
spiGo(device, count, ren3w) ==
    /\ go.at = "rest"
    /\ LET cnt4w == IF device = "main" /\ ren3w < count THEN ren3w ELSE count
       IN go' = [NoGo EXCEPT !.at = IF device = "main" THEN "reading" ELSE "looking",
                             !.cs = TRUE, !.device = device, !.count = count,
                             !.cnt4w = cnt4w, !.cnt = cnt4w]
    /\ wire' = <<>> /\ read' = <<>>
    /\ UNCHANGED <<txFifo, rxFifo, shifting>>

RxCnt == Len(read)
AllDone == go.tx = go.cnt /\ RxCnt = go.cnt
FifosIdle == txFifo = <<>> /\ shifting = <<>>
GoTo(at) == go' = [go EXCEPT !.at = at]
ReadWord == /\ read' = Append(read, Head(rxFifo)) /\ rxFifo' = Tail(rxFifo)
WriteWord == txFifo' = Append(txFifo, go.tx + 1)

\* spiGoS: read while there is something, write while there is room.
ReadWhile ==
    /\ go.at = "reading"
    /\ IF RxCnt < go.cnt /\ rxFifo # <<>>
       THEN ReadWord /\ UNCHANGED go
       ELSE GoTo("writing") /\ UNCHANGED <<read, rxFifo>>
    /\ UNCHANGED <<txFifo, shifting, wire>>

WriteWhile ==
    /\ go.at = "writing"
    /\ IF go.tx < go.cnt /\ Len(txFifo) < FifoDepth["main"]
       THEN WriteWord /\ go' = [go EXCEPT !.tx = @ + 1]
       ELSE GoTo(IF AllDone THEN "draining" ELSE "reading") /\ UNCHANGED txFifo
    /\ UNCHANGED <<rxFifo, shifting, wire, read>>

\* DONE: the bus is turned round for what is left, or released.
Done ==
    /\ go.at = "draining" /\ FifosIdle
    /\ go' = IF go.ren THEN [go EXCEPT !.at = "rest", !.cs = FALSE]
             ELSE [go EXCEPT !.at = "reading", !.cnt = go.count, !.ren = TRUE]
    /\ UNCHANGED <<txFifo, rxFifo, shifting, wire, read>>

\* spiGoA: one look at the status, then at most one word each way.  A FIFO that
\* holds more than two words counts as full.
LookAtStatus ==
    /\ go.at = "looking"
    /\ go' = IF AllDone THEN [go EXCEPT !.at = "waiting"]
             ELSE [go EXCEPT !.at = "taking", !.rxEmpty = rxFifo = <<>>,
                             !.txFull = Len(txFifo) > 2]
    /\ UNCHANGED <<txFifo, rxFifo, shifting, wire, read>>

TakeOne ==
    /\ go.at = "taking" /\ GoTo("giving")
    /\ IF RxCnt < go.count /\ ~ go.rxEmpty THEN ReadWord ELSE UNCHANGED <<read, rxFifo>>
    /\ UNCHANGED <<txFifo, shifting, wire>>

GiveOne ==
    /\ go.at = "giving"
    /\ IF go.tx < go.count /\ ~ go.txFull
       THEN WriteWord /\ go' = [go EXCEPT !.at = "looking", !.tx = @ + 1]
       ELSE GoTo("looking") /\ UNCHANGED txFifo
    /\ UNCHANGED <<rxFifo, shifting, wire, read>>

NotBusy ==
    /\ go.at = "waiting" /\ FifosIdle
    /\ go' = [go EXCEPT !.at = "rest", !.cs = FALSE]
    /\ UNCHANGED <<txFifo, rxFifo, shifting, wire, read>>

\* The device (external).
ShiftBegins ==
    /\ shifting = <<>> /\ txFifo # <<>>
    /\ go.device = "main" => Len(rxFifo) < FifoDepth["main"]
    /\ shifting' = <<Head(txFifo)>> /\ txFifo' = Tail(txFifo)
    /\ UNCHANGED <<rxFifo, go, wire, read>>

ShiftEnds ==
    /\ shifting # <<>>
    /\ wire' = Append(wire, [word |-> Head(shifting), ren |-> go.ren, cs |-> go.cs])
    /\ rxFifo' = IF Len(rxFifo) < FifoDepth[go.device] THEN Append(rxFifo, Head(shifting))
                 ELSE rxFifo
    /\ shifting' = <<>>
    /\ UNCHANGED <<txFifo, go, read>>

FifosNext ==
    \/ \E d \in Devices, count \in 1 .. MaxWords, ren3w \in 0 .. MaxWords :
          spiGo(d, count, ren3w)
    \/ ReadWhile \/ WriteWhile \/ Done
    \/ LookAtStatus \/ TakeOne \/ GiveOne \/ NotBusy
    \/ ShiftBegins \/ ShiftEnds

FifosSpec == FifosInit /\ [][FifosNext]_fifoVars

(***************************************************************************)
(* Properties                                                              *)
(***************************************************************************)
\* Who holds a handle finds the device's bus pins in SPI mode, however many
\* opens of the device ran at once, unless a close overlapped another call.
HeldBusInSpiMode ==
    \A u \in Users : \A s \in held[u] :
        crossed \/ mode[<<spiInfo[s].flags.device, "bus">>] = "spi"

\* When the last handle of a device is closed its bus pins are as they were
\* before the first was opened, as long as calls came one at a time and
\* opens of the device found a slot.
LastCloseRestoresBus ==
    \A d \in Devices \ disturbed :
        (~ crossed /\ ~ AnyOpen(d) /\ \A u \in Users : doing[u].flags.device # d \/ doing[u] = Resting)
            => mode[<<d, "bus">>] = "gpio"

\* Handles are not shared: the slots the threads hold are open and distinct.
SpiHandlesDistinct ==
    \A u \in Users : \A s \in held[u] :
        /\ spiInfo[s].state = "OPENED"
        /\ \A v \in Users \ {u} : s \notin held[v]

\* A transfer loses no word, however the processor is held up: no word finds the
\* receive FIFO full, each is read as the answer to the one sent in its place, and
\* all are shifted while the device is selected, those for reading after the bus
\* was turned round and the others before.
WordsExchanged ==
    /\ Len(read) + Len(rxFifo) = Len(wire)
    /\ \A i \in DOMAIN wire :
         wire[i].word = i /\ wire[i].cs /\ (wire[i].ren <=> i > go.cnt4w)
    /\ \A i \in DOMAIN read : read[i] = i
    /\ go.at = "rest" /\ wire # <<>> => Len(wire) = go.count /\ Len(read) = go.count

\* The handles are distinct, and the modes of the pins follow them.
SpiModesKept == SpiTypeOK /\ HeldBusInSpiMode /\ LastCloseRestoresBus /\ SpiHandlesDistinct

=============================================================================
