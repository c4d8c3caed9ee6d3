----------------------------- MODULE DmaMemory -----------------------------
(***************************************************************************)
(* The memory of the DMA engine in pigpio.c: what gpioInitialise maps and  *)
(* allocates for it, block by block and in either of its two ways, what is *)
(* left when a step fails, and what initReleaseResources gives back.       *)
(*                                                                         *)
(* PAGEMAP: each block is anonymous memory; its physical pages are looked  *)
(* up and mapped once more, through /dev/mem, into a window of the block's *)
(* size.  MAILBOX: each block is memory of the firmware, which is locked   *)
(* and mapped through /dev/mem; it does not go away with the process.      *)
(*                                                                         *)
(* The other threads of the process map memory and open files of their own.*)
(* "quiet" is that they did so only while no start and no stop was under   *)
(* way: both unmap addresses that they have unmapped, or not yet mapped    *)
(* again, and close descriptors that they have closed.                     *)
(***************************************************************************)
EXTENDS Integers, Sequences

CONSTANTS
  DmaBlocks,        \* bufferBlocks + PI_WAVE_BLOCKS
  PAGES_PER_BLOCK,
  Areas,           \* the address ranges at which a block fits
  Memories,         \* handles of the firmware's memory
  MemoryFds,        \* descriptors
  MaxTrys           \* initPagemapBlock tries 10 times

ASSUME DmaMemoryAssumption ==
  /\ DmaBlocks \in Nat \ {0} /\ PAGES_PER_BLOCK \in Nat \ {0} /\ MaxTrys \in Nat \ {0}
  /\ Areas \subseteq Nat \ {0} /\ Memories \subseteq Nat \ {0}
  /\ Areas \cap Memories = {}
  /\ MemoryFds \subseteq Nat

Blocks == 0 .. DmaBlocks - 1
PageNos == 0 .. PAGES_PER_BLOCK - 1
Pages == Blocks \X PageNos
PageAt(b, n) == <<b, n>>

\* Addresses: page n of an area; what the arrays are filled with; and what a mapping
\* that failed returns.
NULL == <<0, 0>>
Addresses == Areas \X PageNos

\* A physical page is one of an anonymous mapping, named by its area, or one of the
\* firmware's memory.  A page of the address space maps nothing, anonymous memory, a
\* physical page, or what another thread mapped there.
Nothing == <<"nothing", 0, 0>>
Anonymous == <<"anonymous", 0, 0>>
Foreign == <<"foreign", 0, 0>>
Physical(m, n) == <<"physical", m, n>>
Frames == {"physical"} \X (Areas \cup Memories) \X PageNos
NoFrame == Nothing

RegisterBlocks == <<"gpio", "dma", "clk", "syst", "spi", "pwm", "pcm", "aux", "pads", "bscs">>
Arrays == {"dmaVirt", "dmaBus", "dmaPMapBlk", "dmaMboxBlk"}

VARIABLES
  memAllocMode,   \* "pagemap" or "mailbox"
  memoryAt,       \* the step of a start or stop, and its block and try
  registers,      \* the register blocks that are mapped
  arrays,         \* the arrays that are mapped, and not MAP_FAILED
  space,          \* what each page of the address space maps
  dmaVirt, dmaBus, dmaPMapBlk, dmaMboxBlk,
  firmware,       \* its memory: "free", "allocated" or "locked"
  fdPmap, fdMbox,
  descriptors,    \* who has each open: "nobody", "library" or "others"
  active,         \* the DMA engine runs
  restarting,     \* the alert thread has seen it stopped, and is about to start it
  theirs,         \* the areas other threads have mapped
  theirFds,       \* and the descriptors they have opened
  quiet,          \* they did so only between a start and a stop
  reused,         \* they were given a descriptor that the library still names
  stalled,        \* the engine has stopped by itself
  lost            \* the firmware could not be told to release its memory

memoryVars == <<memAllocMode, memoryAt, registers, arrays, space, dmaVirt, dmaBus,
                dmaPMapBlk, dmaMboxBlk, firmware, fdPmap, fdMbox, descriptors, active,
                restarting, theirs, theirFds, quiet, reused, stalled, lost>>
tables == <<dmaVirt, dmaBus, dmaPMapBlk, dmaMboxBlk>>
engine == <<active, restarting, stalled>>
others == <<theirs, theirFds, quiet, reused>>

StepAt(step, b, try) == [step |-> step, block |-> b, try |-> try]
Step == memoryAt.step
Block == memoryAt.block
NoMbox == [handle |-> 0, virtual_addr |-> 0]
NoFile == -1

MemoryTypeOK ==
  /\ memAllocMode \in {"pagemap", "mailbox"}
  /\ memoryAt \in [step : {"down", "registers", "arrays", "block", "zap", "threads",
                           "up", "killed", "pages", "blocks", "free", "files"},
                   block : Blocks, try : 0 .. MaxTrys - 1]
  /\ arrays \subseteq Arrays
  /\ space \in [Addresses -> {Nothing, Anonymous, Foreign} \cup Frames]
  /\ dmaVirt \in [Pages -> Addresses \cup {NULL}]
  /\ dmaBus \in [Pages -> Frames \cup {NoFrame}]
  /\ dmaPMapBlk \in [Blocks -> Areas \cup {0}]
  /\ dmaMboxBlk \in [Blocks -> [handle : Memories \cup {0}, virtual_addr : Areas \cup {0}]]
  /\ firmware \in [Memories -> {"free", "allocated", "locked"}]
  /\ fdPmap \in MemoryFds \cup {NoFile} /\ fdMbox \in MemoryFds \cup {NoFile}
  /\ descriptors \in [MemoryFds -> {"nobody", "library", "others"}]
  /\ theirs \subseteq Areas /\ theirFds \subseteq MemoryFds
  /\ {active, restarting, quiet, reused, stalled, lost} \subseteq BOOLEAN

MemoryInit ==
  /\ memAllocMode \in {"pagemap", "mailbox"}
  /\ memoryAt = StepAt("down", 0, 0)
  /\ registers = {} /\ arrays = {}
  /\ space = [a \in Addresses |-> Nothing]
  /\ dmaVirt = [p \in Pages |-> NULL] /\ dmaBus = [p \in Pages |-> NoFrame]
  /\ dmaPMapBlk = [b \in Blocks |-> 0] /\ dmaMboxBlk = [b \in Blocks |-> NoMbox]
  /\ firmware = [m \in Memories |-> "free"]
  /\ fdPmap = NoFile /\ fdMbox = NoFile
  /\ descriptors = [d \in MemoryFds |-> "nobody"]
  /\ active = FALSE /\ restarting = FALSE /\ stalled = FALSE
  /\ theirs = {} /\ theirFds = {} /\ quiet = TRUE /\ reused = FALSE /\ lost = FALSE

(***************************************************************************)
(* mmap, munmap, open and close                                            *)
(***************************************************************************)
FreeArea(q) == \A n \in PageNos : space[<<q, n>>] = Nothing
PagesOf(q) == {<<q, n>> : n \in PageNos}
\* What maps a whole area; page n of it to what[n].
Mapped(s, q, what) == [a \in Addresses |-> IF a[1] = q THEN what[a[2]] ELSE s[a]]
Unmapped(s, as) == [a \in Addresses |-> IF a \in as THEN Nothing ELSE s[a]]

Opened(d) == descriptors[d] = "nobody" /\ descriptors' = [descriptors EXCEPT ![d] = "library"]
\* close(fd) closes it, whoever has it by then.
Closed(ds, fd) == [d \in MemoryFds |-> IF d = fd THEN "nobody" ELSE ds[d]]

GiveUpStart == memoryAt' = StepAt("pages", 0, 0)
NextBlock(b) ==
  memoryAt' = IF b = DmaBlocks - 1 THEN StepAt("threads", 0, 0) ELSE StepAt("block", b + 1, 0)

(***************************************************************************)
(* The start: register blocks, arrays, then block by block.  A mapping     *)
(* through /dev/mem of pages that are there is taken to succeed; neither   *)
(* initZaps nor mbDMAAlloc looks.                                          *)
(***************************************************************************)
\* The register blocks one after the other; every pointer was MAP_FAILED.
initPeripherals ==
  /\ Step = "down"
  /\ \E k \in 0 .. Len(RegisterBlocks) :
       /\ registers' = registers \cup {RegisterBlocks[i] : i \in 1 .. k}
       /\ IF k = Len(RegisterBlocks) THEN memoryAt' = StepAt("arrays", 0, 0) ELSE GiveUpStart
  /\ UNCHANGED <<memAllocMode, arrays, space, tables, firmware, fdPmap, fdMbox,
                 descriptors, engine, others, lost>>

\* The arrays, which are filled with zeros, then the pagemap or the mailbox.
ArraysOf == <<"dmaVirt", "dmaBus",
              IF memAllocMode = "pagemap" THEN "dmaPMapBlk" ELSE "dmaMboxBlk">>
initAllocDMAMem ==
  /\ Step = "arrays"
  /\ \/ /\ \E k \in 0 .. 3 : arrays' = {ArraysOf[i] : i \in 1 .. k}
        /\ GiveUpStart /\ UNCHANGED <<fdPmap, fdMbox, descriptors>>
     \/ /\ arrays' = {ArraysOf[i] : i \in 1 .. 3}
        /\ \E d \in MemoryFds :
             /\ Opened(d)
             /\ IF memAllocMode = "pagemap" THEN fdPmap' = d /\ UNCHANGED fdMbox
                                           ELSE fdMbox' = d /\ UNCHANGED fdPmap
        /\ memoryAt' = StepAt("block", 0, 0)
  /\ UNCHANGED <<memAllocMode, registers, space, tables, firmware, engine,
                 others, lost>>

\* The descriptor is closed after the last block, or the one that failed, and keeps
\* its number.
EndOfBlocks(done, fd) ==
  descriptors' = IF done /\ Block < DmaBlocks - 1 THEN descriptors
                 ELSE Closed(descriptors, fd)

\* The anonymous memory of a block, and addresses for its window, which are mapped
\* and unmapped again.
initPagemapBlock ==
  /\ Step = "block" /\ memAllocMode = "pagemap"
  /\ \/ GiveUpStart /\ EndOfBlocks(FALSE, fdPmap) /\ UNCHANGED <<space, dmaVirt, dmaPMapBlk>>
     \/ \E q \in Areas :
          /\ FreeArea(q)
          /\ space' = Mapped(space, q, [n \in PageNos |-> Anonymous])
          /\ dmaPMapBlk' = [dmaPMapBlk EXCEPT ![Block] = q]
          /\ \/ GiveUpStart /\ EndOfBlocks(FALSE, fdPmap) /\ UNCHANGED dmaVirt
             \/ \E r \in Areas \ {q} :
                  /\ FreeArea(r)
                  /\ dmaVirt' = [dmaVirt EXCEPT ![PageAt(Block, 0)] = <<r, 0>>]
                  /\ memoryAt' = StepAt("zap", Block, 0)
                  /\ UNCHANGED descriptors
  /\ UNCHANGED <<memAllocMode, registers, arrays, dmaBus, dmaMboxBlk, firmware, fdPmap, fdMbox,
                 engine, others, lost>>

\* A try of initZaps: the pages whose physical page can be found are mapped into the
\* window, over whatever is there; it starts over, 50 ms later, until all are.
initZaps ==
  /\ Step = "zap"
  /\ LET r == dmaVirt[PageAt(Block, 0)][1]
         q == dmaPMapBlk[Block]
     IN \E found \in SUBSET PageNos :
          LET ok == found = PageNos
              now(p) == p[1] = Block /\ p[2] \in found
          IN /\ space' = [a \in Addresses |-> IF a[1] = r /\ a[2] \in found
                                              THEN Physical(q, a[2]) ELSE space[a]]
             /\ dmaVirt' = [p \in Pages |-> IF now(p) THEN <<r, p[2]>> ELSE dmaVirt[p]]
             /\ dmaBus' = [p \in Pages |-> IF now(p) THEN Physical(q, p[2]) ELSE dmaBus[p]]
             /\ \/ ok /\ NextBlock(Block) /\ EndOfBlocks(TRUE, fdPmap)
                \/ /\ ~ok /\ memoryAt.try < MaxTrys - 1
                   /\ memoryAt' = StepAt("zap", Block, memoryAt.try + 1)
                   /\ UNCHANGED descriptors
                \/ /\ ~ok /\ memoryAt.try = MaxTrys - 1
                   /\ GiveUpStart /\ EndOfBlocks(FALSE, fdPmap)
  /\ UNCHANGED <<memAllocMode, registers, arrays, dmaPMapBlk, dmaMboxBlk, firmware, fdPmap,
                 fdMbox, engine, others, lost>>

\* Memory of the firmware, locked and mapped.
mbDMAAlloc(m, q) ==
  /\ firmware[m] = "free" /\ FreeArea(q)
  /\ firmware' = [firmware EXCEPT ![m] = "locked"]
  /\ dmaMboxBlk' = [dmaMboxBlk EXCEPT ![Block] = [handle |-> m, virtual_addr |-> q]]
  /\ space' = Mapped(space, q, [n \in PageNos |-> Physical(m, n)])

initMboxBlock ==
  /\ Step = "block" /\ memAllocMode = "mailbox"
  /\ \/ GiveUpStart /\ EndOfBlocks(FALSE, fdMbox)
        /\ UNCHANGED <<space, dmaVirt, dmaBus, dmaMboxBlk, firmware>>
     \/ \E m \in Memories, q \in Areas :
          LET now(p) == p[1] = Block
          IN /\ mbDMAAlloc(m, q)
             /\ dmaVirt' = [p \in Pages |-> IF now(p) THEN <<q, p[2]>> ELSE dmaVirt[p]]
             /\ dmaBus' = [p \in Pages |-> IF now(p) THEN Physical(m, p[2]) ELSE dmaBus[p]]
             /\ NextBlock(Block) /\ EndOfBlocks(TRUE, fdMbox)
  /\ UNCHANGED <<memAllocMode, registers, arrays, dmaPMapBlk, fdPmap, fdMbox, engine,
                 others, lost>>

Untouched == UNCHANGED <<memAllocMode, registers, arrays, space, tables, firmware, fdPmap,
                         fdMbox, descriptors, lost>>

\* The rest of the start: a thread or a port may fail; the engine starts last.
initDMAgo ==
  /\ Step = "threads"
  /\ \/ GiveUpStart /\ UNCHANGED active
     \/ memoryAt' = StepAt("up", 0, 0) /\ active' = TRUE
  /\ UNCHANGED <<restarting, stalled, others>> /\ Untouched

(***************************************************************************)
(* The engine, the alert thread that starts it again should it stop, and   *)
(* the end of both.                                                        *)
(***************************************************************************)
EngineStops ==
  /\ Step = "up" /\ active /\ active' = FALSE /\ stalled' = TRUE
  /\ UNCHANGED <<memoryAt, restarting, others>> /\ Untouched

\* runState is looked at 5 ms after the engine, and the engine is started later still.
SeesStop ==
  /\ Step = "up" /\ ~active /\ restarting' = TRUE
  /\ UNCHANGED <<memoryAt, active, stalled, others>> /\ Untouched

Restart ==
  /\ restarting /\ restarting' = FALSE /\ active' = TRUE
  /\ UNCHANGED <<memoryAt, stalled, others>> /\ Untouched

\* runState is PI_ENDING from here; the alert thread is joined where it can be cancelled.
TerminateEngine ==
  /\ Step = "up" /\ memoryAt' = StepAt("killed", 0, 0) /\ active' = FALSE
  /\ UNCHANGED <<restarting, stalled, others>> /\ Untouched

JoinAlert ==
  /\ Step = "killed" /\ ~restarting /\ GiveUpStart
  /\ UNCHANGED <<engine, others>> /\ Untouched

(***************************************************************************)
(* initReleaseResources                                                    *)
(***************************************************************************)
\* The register blocks, but for the pads; dmaBus; every page that dmaVirt names.
ReleasePages ==
  /\ Step = "pages"
  /\ registers' = registers \cap {"pads"}
  /\ space' = Unmapped(space, {dmaVirt[p] : p \in Pages})
  /\ arrays' = arrays \ {"dmaVirt", "dmaBus"}
  /\ dmaVirt' = [p \in Pages |-> NULL] /\ dmaBus' = [p \in Pages |-> NoFrame]
  /\ memoryAt' = StepAt("blocks", 0, 0)
  /\ UNCHANGED <<memAllocMode, dmaPMapBlk, dmaMboxBlk, firmware, fdPmap, fdMbox, descriptors,
                 engine, others, lost>>

\* The anonymous memory; then the mailbox is opened, if there was one.
ReleaseBlocks ==
  /\ Step = "blocks"
  /\ space' = Unmapped(space, UNION {PagesOf(dmaPMapBlk[b]) : b \in Blocks})
  /\ dmaPMapBlk' = [b \in Blocks |-> 0]
  /\ arrays' = arrays \ {"dmaPMapBlk"}
  /\ IF "dmaMboxBlk" \in arrays
     THEN /\ memoryAt' = StepAt("free", DmaBlocks - 1, 0)
          /\ \/ \E d \in MemoryFds : Opened(d) /\ fdMbox' = d
             \/ fdMbox' = NoFile /\ UNCHANGED descriptors
     ELSE memoryAt' = StepAt("files", 0, 0) /\ UNCHANGED <<fdMbox, descriptors>>
  /\ UNCHANGED <<memAllocMode, registers, dmaVirt, dmaBus, dmaMboxBlk, firmware, fdPmap, engine,
                 others, lost>>

\* The last block first.  Its pages were unmapped already.
mbDMAFree ==
  LET mem == dmaMboxBlk[Block]
  IN /\ space' = Unmapped(space, PagesOf(mem.virtual_addr))
     /\ firmware' = [m \in Memories |-> IF m = mem.handle /\ fdMbox # NoFile THEN "free"
                                        ELSE firmware[m]]
     /\ lost' = (lost \/ (mem.handle # 0 /\ fdMbox = NoFile))
     /\ dmaMboxBlk' = [dmaMboxBlk EXCEPT ![Block] = NoMbox]
\* (mutant: the first block is forgotten)
ReleaseMboxButFirst ==
  /\ Step = "free"
  /\ mbDMAFree
  /\ IF Block > 1
     THEN memoryAt' = StepAt("free", Block - 1, 0) /\ UNCHANGED <<arrays, descriptors>>
     ELSE /\ memoryAt' = StepAt("files", 0, 0)
          /\ arrays' = arrays \ {"dmaMboxBlk"}
          /\ descriptors' = Closed(descriptors, fdMbox)
  /\ UNCHANGED <<memAllocMode, registers, dmaVirt, dmaBus, dmaPMapBlk, fdPmap, fdMbox,
                 engine, others>>
ReleaseMbox ==
  /\ Step = "free"
  /\ mbDMAFree
  /\ IF Block > 0
     THEN memoryAt' = StepAt("free", Block - 1, 0) /\ UNCHANGED <<arrays, descriptors>>
     ELSE /\ memoryAt' = StepAt("files", 0, 0)
          /\ arrays' = arrays \ {"dmaMboxBlk"}
          /\ descriptors' = Closed(descriptors, fdMbox)
  /\ UNCHANGED <<memAllocMode, registers, dmaVirt, dmaBus, dmaPMapBlk, fdPmap, fdMbox,
                 engine, others>>

\* Both descriptors, by their numbers.
ReleaseFiles ==
  /\ Step = "files"
  /\ descriptors' = Closed(Closed(descriptors, fdPmap), fdMbox)
  /\ fdPmap' = NoFile /\ fdMbox' = NoFile
  /\ memoryAt' = StepAt("down", 0, 0)
  /\ UNCHANGED <<memAllocMode, registers, arrays, space, tables, firmware, engine,
                 others, lost>>

(***************************************************************************)
(* The other threads of the process                                        *)
(***************************************************************************)
Resting == Step \in {"down", "threads", "up"}
Others(acts) ==
  /\ acts
  /\ UNCHANGED <<memAllocMode, memoryAt, registers, arrays, tables, firmware, fdPmap, fdMbox,
                 engine, lost>>

TheyMap(q) ==
  /\ FreeArea(q)
  /\ space' = Mapped(space, q, [n \in PageNos |-> Foreign])
  /\ theirs' = theirs \cup {q}
  /\ quiet' = (quiet /\ Resting)
  /\ UNCHANGED <<descriptors, theirFds, reused>>

TheyUnmap(q) ==
  /\ q \in theirs
  /\ space' = Unmapped(space, PagesOf(q))
  /\ theirs' = theirs \ {q}
  /\ UNCHANGED <<descriptors, theirFds, quiet, reused>>

TheyOpen(d) ==
  /\ descriptors[d] = "nobody"
  /\ descriptors' = [descriptors EXCEPT ![d] = "others"]
  /\ theirFds' = theirFds \cup {d}
  /\ quiet' = (quiet /\ Resting)
  /\ reused' = (reused \/ d = fdPmap)
  /\ UNCHANGED <<space, theirs>>

TheyClose(d) ==
  /\ d \in theirFds
  /\ descriptors' = Closed(descriptors, d)
  /\ theirFds' = theirFds \ {d}
  /\ UNCHANGED <<space, theirs, quiet, reused>>

MemoryNext ==
  \/ initPeripherals \/ initAllocDMAMem \/ initPagemapBlock \/ initZaps \/ initMboxBlock
  \/ initDMAgo \/ EngineStops \/ SeesStop \/ Restart \/ TerminateEngine \/ JoinAlert
  \/ ReleasePages \/ ReleaseBlocks \/ ReleaseMbox \/ ReleaseFiles
  \/ \E q \in Areas : Others(TheyMap(q)) \/ Others(TheyUnmap(q))
  \/ \E d \in MemoryFds : Others(TheyOpen(d)) \/ Others(TheyClose(d))

MemorySpec == MemoryInit /\ [][MemoryNext]_memoryVars

(***************************************************************************)
(* Properties, as long as the other threads are quiet                      *)
(***************************************************************************)
\* The physical page is held: by the anonymous memory it is of, or by the firmware.
Held(frame) ==
  IF frame[2] \in Areas THEN space[<<frame[2], frame[3]>>] = Anonymous
                         ELSE firmware[frame[2]] = "locked"

\* From the last block on, and wherever the engine runs, each page has an address and
\* a bus address of its own, of the same physical page, and that is held; unless the
\* engine had stopped by itself, and the alert thread starts it after gpioTerminate
\* has killed it.
EngineHasItsMemory ==
  quiet /\ (Step \in {"threads", "up"} \/ (active /\ ~stalled)) =>
    \A p \in Pages :
      /\ dmaVirt[p] \in Addresses /\ dmaBus[p] \in Frames
      /\ space[dmaVirt[p]] = dmaBus[p] /\ Held(dmaBus[p])
      /\ \A o \in Pages \ {p} : dmaVirt[o] # dmaVirt[p] /\ dmaBus[o] # dmaBus[p]

\* A library that is down has given everything back, whichever step of the start
\* failed: every mapping but that of the pads, every descriptor, and, if it could
\* speak to it, the memory of the firmware.
EverythingGivenBack ==
  quiet /\ Step = "down" =>
    /\ registers \subseteq {"pads"} /\ arrays = {}
    /\ \A a \in Addresses : space[a] \in {Nothing, Foreign}
    /\ \A d \in MemoryFds : descriptors[d] # "library"
    /\ ~lost => \A m \in Memories : firmware[m] = "free"

\* It takes nothing from the other threads: no page they have mapped and no file they
\* have opened, unless with a number that the library still names.
OthersKeepTheirs ==
  quiet =>
    /\ \A q \in theirs : \A n \in PageNos : space[<<q, n>>] = Foreign
    /\ ~reused => \A d \in theirFds : descriptors[d] = "others"

\* The memory is there while it is used, is given back, and is nobody else's.
MemoryKept == MemoryTypeOK /\ EngineHasItsMemory /\ EverythingGivenBack /\ OthersKeepTheirs
=============================================================================
