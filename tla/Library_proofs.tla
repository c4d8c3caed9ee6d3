--------------------------- MODULE Library_proofs ---------------------------
(***************************************************************************)
(* The library as a part of the machine.  Inside its process it lets go:   *)
(* whichever stage of gpioInitialise fails, and whenever gpioTerminate is  *)
(* called, no thread that the library joins outlives the memory it uses,   *)
(* and a library that is down holds nothing.  And beside other processes:  *)
(* its lock file keeps those apart that do not start at once, and a file   *)
(* that a crash left keeps nobody out.  And the memory of the DMA engine,  *)
(* block by block: held while it is used, given back when it is not.       *)
(***************************************************************************)
EXTENDS Library, LockFile, DmaMemory, TLAPS

-----------------------------------------------------------------------------
(* The life of the library *)

MemoryMapped == {"registers", "dma"} \subseteq held

(* A thread there is, is one the library knows of, and has its memory.     *)
EachKnown == \A t \in Joined : running[t] = "NONE" <=> thread[t] = "none"
EachMapped == \A t \in Joined : thread[t] # "none" => MemoryMapped

(* A library that is up has mapped what it uses, and so has one whose      *)
(* initialisation has come to the threads.                                 *)
UpMapped ==
  /\ pc[1] = "waiting" => MemoryMapped /\ libInitialised
  /\ pc[1] = "idle" /\ libInitialised => MemoryMapped
  /\ pc[1] = "init" /\ pc[2] >= 4 => "registers" \in held
  /\ pc[1] = "init" /\ pc[2] >= 5 => MemoryMapped

(* The release has stopped the threads whose stages are past, and after    *)
(* its stage "memory" nothing is mapped.                                   *)
Past(n) == {t \in Joined : \E i \in 1..5 : i < n /\ ReleaseStages[i] = t}
ReleasedSoFar ==
  pc[1] \in {"release", "join"} =>
    /\ \A t \in Past(pc[2]) : thread[t] = "none"
    /\ pc[1] = "join" => pc[2] <= 5
    /\ pc[2] = 7 => held \cap {"registers", "dma"} = {}

LibraryInv == /\ LibraryTypeOK /\ EachKnown /\ EachMapped /\ UpMapped /\ ReleasedSoFar
        /\ DownHoldsNothing
-----------------------------------------------------------------------------
(* The stages, by their numbers.                                           *)
LEMMA InitStagesAre ==
  /\ Len(InitStages) = 7
  /\ InitStages[1] = "mem" /\ InitStages[2] = "lock" /\ InitStages[3] = "registers"
  /\ InitStages[4] = "dma" /\ InitStages[5] = "alert" /\ InitStages[6] = "fifo"
  /\ InitStages[7] = "socket"
  BY DEF InitStages

LEMMA ReleaseStagesAre ==
  /\ ReleaseStages[1] = "isr" /\ ReleaseStages[2] = "timer" /\ ReleaseStages[3] = "alert"
  /\ ReleaseStages[4] = "fifo" /\ ReleaseStages[5] = "socket" /\ ReleaseStages[6] = "memory"
  /\ ReleaseStages[7] = "files"
  BY DEF ReleaseStages

LEMMA PcIs ==
  LibraryTypeOK => /\ pc[1] \in {"idle", "waiting", "init", "release", "join"}
                   /\ pc[1] \in {"init", "release", "join"} => pc[2] \in 1..7
  BY InitStagesAre DEF LibraryTypeOK

LEMMA PcTyped ==
  ASSUME NEW k \in {"init", "release", "join"}, NEW n \in 1..7
  PROVE  /\ <<k, n>> \in {<<"idle", 0>>, <<"waiting", 0>>}
                         \cup ({"init", "release", "join"} \X (1..Len(InitStages)))
         /\ <<k, n>>[1] = k /\ <<k, n>>[2] = n
  BY InitStagesAre

(* What is past at a stage, and at the one after it.                       *)
LEMMA PastGrows ==
  ASSUME NEW n \in 1..5
  PROVE  Past(n + 1) = Past(n) \cup {ReleaseStages[n]}
  <1>1. \A i \in 1..5 : i < n + 1 <=> i < n \/ i = n
    OBVIOUS
  <1>2. ReleaseStages[n] \in Joined
    BY ReleaseStagesAre DEF Joined, Interfaces
  <1> QED BY <1>1, <1>2 DEF Past

LEMMA PastAll ==
  /\ Past(1) = {}
  /\ Past(6) = Joined /\ Past(7) = Joined
  <1>1. Past(1) = {}
    BY DEF Past
  <1>2. \A t \in Joined : \E i \in 1..5 : ReleaseStages[i] = t
    BY ReleaseStagesAre DEF Joined, Interfaces
  <1>3. Past(6) = Joined /\ Past(7) = Joined
    BY <1>2 DEF Past
  <1> QED BY <1>1, <1>3
-----------------------------------------------------------------------------
(* One step per action.                                                    *)

LEMMA EntryStep == LibraryInv /\ gpioInitialise => LibraryInv'
  <1> SUFFICES ASSUME LibraryInv, gpioInitialise PROVE LibraryInv'
    OBVIOUS
  <1> USE DEF gpioInitialise, LibraryInv
  <1>1. pc' = <<"init", 1>> /\ pc'[1] = "init" /\ pc'[2] = 1
    OBVIOUS
  <1>2. \A t \in Joined : thread[t] = "none" /\ running[t] = "NONE"
    BY DEF DownHoldsNothing
  <1>3. \A t \in Joined : thread'[t] = "none" /\ running'[t] = "NONE"
    BY <1>2
  <1>4. LibraryTypeOK'
    <2>1. pc' \in {<<"idle", 0>>, <<"waiting", 0>>}
                  \cup ({"init", "release", "join"} \X (1..Len(InitStages)))
      BY <1>1, PcTyped
    <2>2. running' \in [Joined -> {"NONE", "STARTED", "RUNNING"}]
      BY <1>2
    <2> QED BY <2>1, <2>2 DEF LibraryTypeOK
  <1>5. EachKnown' /\ EachMapped'
    BY <1>3 DEF EachKnown, EachMapped
  <1>6. UpMapped' /\ ReleasedSoFar' /\ DownHoldsNothing'
    BY <1>1 DEF UpMapped, ReleasedSoFar, DownHoldsNothing
  <1> QED BY <1>4, <1>5, <1>6

(* The stage after this one, or the end of the initialisation.             *)
LEMMA ProceedsTo ==
  ASSUME LibraryTypeOK, pc[1] = "init", Proceed
  PROVE  \/ /\ pc[2] # 7 /\ pc' = <<"init", pc[2] + 1>>
            /\ pc'[1] = "init" /\ pc'[2] = pc[2] + 1
            /\ UNCHANGED <<libInitialised, runState>>
         \/ /\ pc[2] = 7 /\ libInitialised' = TRUE /\ runState' = "RUNNING"
            /\ pc' \in {<<"idle", 0>>, <<"waiting", 0>>}
            /\ pc'[1] \in {"idle", "waiting"}
  <1>1. pc[2] \in 1..7
    BY PcIs
  <1>2. CASE pc[2] = 7
    BY <1>2, InitStagesAre DEF Proceed, Succeed
  <1>3. CASE pc[2] # 7
    BY <1>3, <1>1, InitStagesAre DEF Proceed
  <1> QED BY <1>2, <1>3

(* What a stage needs to leave behind it.                                  *)
LEMMA ProceedStep ==
  ASSUME LibraryInv, pc[1] = "init", Proceed, disabled' = disabled,
         held' \subseteq Resources,
         thread' \in [Joined \cup Strays -> {"none", "spinning", "working", "ended"}],
         cancelled' \subseteq Joined,
         running' \in [Joined -> {"NONE", "STARTED", "RUNNING"}],
         exported' \in BOOLEAN,
         EachKnown', EachMapped',
         pc[2] >= 3 => "registers" \in held', pc[2] >= 4 => MemoryMapped'
  PROVE  LibraryInv'
  <1>1. pc[2] \in 1..7
    BY PcIs DEF LibraryInv
  <1>2. \/ /\ pc[2] # 7 /\ pc' = <<"init", pc[2] + 1>>
           /\ pc'[1] = "init" /\ pc'[2] = pc[2] + 1
           /\ UNCHANGED <<libInitialised, runState>>
        \/ /\ pc[2] = 7 /\ libInitialised' = TRUE /\ runState' = "RUNNING"
           /\ pc' \in {<<"idle", 0>>, <<"waiting", 0>>}
           /\ pc'[1] \in {"idle", "waiting"}
    BY ProceedsTo DEF LibraryInv
  <1>3. LibraryTypeOK'
    <2>1. pc' \in {<<"idle", 0>>, <<"waiting", 0>>}
                  \cup ({"init", "release", "join"} \X (1..Len(InitStages)))
      <3>1. pc[2] # 7 => pc[2] + 1 \in 1..7
        BY <1>1
      <3> QED BY <1>2, <3>1, PcTyped
    <2>2. libInitialised' \in BOOLEAN /\ runState' \in {"STARTING", "RUNNING", "ENDING"}
          /\ disabled' \in Configurations
      BY <1>2 DEF LibraryInv, LibraryTypeOK
    <2> QED BY <2>1, <2>2 DEF LibraryTypeOK
  <1>4. UpMapped'
    <2>1. pc'[1] \in {"idle", "waiting"} => MemoryMapped' /\ libInitialised'
      BY <1>2
    <2>2. pc'[1] = "init" => pc'[2] = pc[2] + 1
      BY <1>2
    <2>3. pc'[1] = "init" /\ pc'[2] >= 4 => "registers" \in held'
      BY <1>1, <2>2
    <2>4. pc'[1] = "init" /\ pc'[2] >= 5 => MemoryMapped'
      BY <1>1, <2>2
    <2> QED BY <2>1, <2>3, <2>4 DEF UpMapped
  <1>5. ReleasedSoFar' /\ DownHoldsNothing'
    BY <1>2 DEF ReleasedSoFar, DownHoldsNothing
  <1> QED BY <1>3, <1>4, <1>5 DEF LibraryInv

LEMMA InitStageStep == LibraryInv /\ InitStage => LibraryInv'
  <1> SUFFICES ASSUME LibraryInv, InitStage PROVE LibraryInv'
    OBVIOUS
  <1> DEFINE stage == InitStages[pc[2]]
  <1>1. pc[1] = "init" /\ pc[2] \in 1..7
    BY PcIs DEF InitStage, LibraryInv
  <1>2. Acquire(stage) \/ StartInterface(stage) \/ SkipInterface(stage) \/ FailStage(stage)
    BY DEF InitStage
  <1>3. /\ pc[2] = 3 <=> stage = "registers"
        /\ pc[2] = 4 <=> stage = "dma"
        /\ pc[2] >= 5 <=> stage \in Interfaces
        /\ pc[2] \in {1, 2} <=> stage \in {"mem", "lock"}
    BY <1>1, InitStagesAre DEF Interfaces
  <1> HIDE DEF stage
  <1>4. /\ pc[2] >= 4 => "registers" \in held
        /\ pc[2] >= 5 => MemoryMapped
    BY <1>1 DEF LibraryInv, UpMapped
  <1>5. CASE Acquire(stage)
    <2>1. /\ held' \subseteq Resources
          /\ stage = "registers" => "registers" \in held'
          /\ stage = "dma" => held' = (held \cup {"dma"}) \ {"mem"}
          /\ stage \in {"mem", "lock"} => held \subseteq held'
          /\ MemoryMapped => MemoryMapped'
      BY <1>5 DEF Acquire, Resources, MemoryMapped, LibraryInv, LibraryTypeOK
    <2>2. /\ thread' = thread /\ running' = running /\ cancelled' = cancelled
          /\ exported' = exported /\ disabled' = disabled /\ Proceed
      BY <1>5 DEF Acquire
    <2>3. EachKnown' /\ EachMapped'
      BY <2>1, <2>2 DEF EachKnown, EachMapped, LibraryInv
    <2>4. pc[2] >= 3 => "registers" \in held'
      <3>1. pc[2] >= 3 => pc[2] = 3 \/ pc[2] >= 4
        BY <1>1
      <3> QED BY <1>3, <1>4, <2>1, <3>1, <1>5 DEF Acquire, Interfaces
    <2>5. pc[2] >= 4 => MemoryMapped'
      <3>1. pc[2] >= 4 => pc[2] = 4 \/ pc[2] >= 5
        BY <1>1
      <3> QED BY <1>3, <1>4, <2>1, <3>1 DEF MemoryMapped
    <2> QED BY <1>1, <2>1, <2>2, <2>3, <2>4, <2>5, ProceedStep DEF LibraryInv, LibraryTypeOK
  <1>6. CASE StartInterface(stage)
    <2>1. /\ stage \in Interfaces /\ stage \in Joined
          /\ thread' = [thread EXCEPT ![stage] = "spinning"]
          /\ running' = [running EXCEPT ![stage] = "STARTED"]
          /\ held' = (IF stage = "socket" THEN held \cup {"port"} ELSE held)
          /\ cancelled' = cancelled /\ exported' = exported /\ disabled' = disabled /\ Proceed
      BY <1>6 DEF StartInterface, Joined
    <2>2. MemoryMapped
      BY <1>3, <1>4, <2>1
    <2>3. MemoryMapped' /\ held' \subseteq Resources /\ "registers" \in held'
      BY <2>1, <2>2 DEF MemoryMapped, Resources, LibraryInv, LibraryTypeOK
    <2>4. /\ thread' \in [Joined \cup Strays -> {"none", "spinning", "working", "ended"}]
          /\ running' \in [Joined -> {"NONE", "STARTED", "RUNNING"}]
      BY <2>1 DEF LibraryInv, LibraryTypeOK
    <2>5. EachKnown'
      BY <2>1 DEF EachKnown, LibraryInv, LibraryTypeOK
    <2>6. EachMapped'
      BY <2>3 DEF EachMapped
    <2> QED BY <1>1, <2>1, <2>3, <2>4, <2>5, <2>6, ProceedStep DEF LibraryInv, LibraryTypeOK
  <1>7. CASE SkipInterface(stage)
    <2>1. /\ stage \in Interfaces
          /\ UNCHANGED <<held, thread, cancelled, running, exported, disabled>> /\ Proceed
      BY <1>7, LibraryAssumption DEF SkipInterface, LibraryInv, LibraryTypeOK
    <2>2. MemoryMapped
      BY <1>3, <1>4, <2>1
    <2>3. MemoryMapped' /\ "registers" \in held' /\ EachKnown' /\ EachMapped'
      BY <2>1, <2>2 DEF MemoryMapped, EachKnown, EachMapped, LibraryInv
    <2> QED BY <1>1, <2>1, <2>3, ProceedStep DEF LibraryInv, LibraryTypeOK
  <1>8. CASE FailStage(stage)
    <2>1. /\ pc' = <<"release", 1>> /\ runState' = "ENDING"
          /\ UNCHANGED <<libInitialised, thread, cancelled, running, exported, disabled>>
      BY <1>8 DEF FailStage
    <2>2. held \subseteq held' /\ held' \subseteq Resources
      BY <1>8 DEF FailStage, Resources, LibraryInv, LibraryTypeOK
    <2>3. LibraryTypeOK'
      BY <2>1, <2>2, PcTyped DEF LibraryInv, LibraryTypeOK
    <2>4. EachKnown' /\ EachMapped'
      BY <2>1, <2>2 DEF EachKnown, EachMapped, MemoryMapped, LibraryInv
    <2>5. UpMapped' /\ ReleasedSoFar' /\ DownHoldsNothing'
      BY <2>1, PastAll DEF UpMapped, ReleasedSoFar, DownHoldsNothing
    <2> QED BY <2>3, <2>4, <2>5 DEF LibraryInv
  <1> QED BY <1>2, <1>5, <1>6, <1>7, <1>8

LEMMA AlertSeenStep == LibraryInv /\ AlertSeen => LibraryInv'
  <1> SUFFICES ASSUME LibraryInv, AlertSeen PROVE LibraryInv'
    OBVIOUS
  <1>1. /\ pc[1] = "waiting" /\ pc' = <<"idle", 0>>
        /\ UNCHANGED <<libInitialised, runState, held, thread, cancelled, running, exported,
                       disabled>>
    BY DEF AlertSeen
  <1>2. LibraryTypeOK'
    BY <1>1 DEF LibraryInv, LibraryTypeOK
  <1>3. EachKnown' /\ EachMapped'
    BY <1>1 DEF LibraryInv, EachKnown, EachMapped, MemoryMapped
  <1>4. libInitialised' /\ MemoryMapped'
    BY <1>1 DEF LibraryInv, UpMapped, MemoryMapped
  <1>5. UpMapped' /\ ReleasedSoFar' /\ DownHoldsNothing'
    BY <1>1, <1>4 DEF UpMapped, ReleasedSoFar, DownHoldsNothing
  <1> QED BY <1>2, <1>3, <1>5 DEF LibraryInv

LEMMA TerminateStep == LibraryInv /\ gpioTerminate => LibraryInv'
  <1> SUFFICES ASSUME LibraryInv, gpioTerminate PROVE LibraryInv'
    OBVIOUS
  <1>1. /\ pc' = <<"release", 1>> /\ runState' = "ENDING"
        /\ UNCHANGED <<libInitialised, held, thread, cancelled, running, exported, disabled>>
    BY DEF gpioTerminate
  <1>2. LibraryTypeOK'
    BY <1>1, PcTyped DEF LibraryInv, LibraryTypeOK
  <1>3. EachKnown' /\ EachMapped'
    BY <1>1 DEF LibraryInv, EachKnown, EachMapped, MemoryMapped
  <1>4. UpMapped' /\ ReleasedSoFar' /\ DownHoldsNothing'
    BY <1>1, PastAll DEF UpMapped, ReleasedSoFar, DownHoldsNothing
  <1> QED BY <1>2, <1>3, <1>4 DEF LibraryInv

(* A stage of the release that stops a thread has done so.                 *)
LEMMA StageReleased ==
  ASSUME LibraryInv, pc[1] \in {"release", "join"}, pc[2] \in 1..5,
         pc' = <<"release", pc[2] + 1>>,
         LibraryTypeOK', EachKnown', EachMapped',
         \A t \in Past(pc[2]) : thread'[t] = thread[t],
         thread'[ReleaseStages[pc[2]]] = "none"
  PROVE  LibraryInv'
  <1>1. pc'[1] = "release" /\ pc'[2] = pc[2] + 1 /\ pc'[2] # 7
    OBVIOUS
  <1>2. \A t \in Past(pc[2] + 1) : thread'[t] = "none"
    BY PastGrows DEF LibraryInv, ReleasedSoFar
  <1>3. UpMapped' /\ ReleasedSoFar' /\ DownHoldsNothing'
    BY <1>1, <1>2 DEF UpMapped, ReleasedSoFar, DownHoldsNothing
  <1> QED BY <1>3 DEF LibraryInv

LEMMA ReleaseStageStep == LibraryInv /\ ReleaseStage => LibraryInv'
  <1> SUFFICES ASSUME LibraryInv, ReleaseStage PROVE LibraryInv'
    OBVIOUS
  <1> DEFINE stage == ReleaseStages[pc[2]]
  <1>1. /\ pc[1] = "release" /\ pc[2] \in 1..7 /\ UNCHANGED <<runState, disabled>>
    BY PcIs DEF ReleaseStage, LibraryInv
  <1>2. \/ stage \in Joined /\ CancelThread(stage)
        \/ /\ stage \in Joined /\ running[stage] = "NONE"
           /\ pc' = <<"release", pc[2] + 1>>
           /\ UNCHANGED <<libInitialised, held, thread, cancelled, running, exported>>
        \/ /\ stage = "memory"
           /\ held' = held \ {"registers", "dma"}
           /\ pc' = <<"release", pc[2] + 1>>
           /\ UNCHANGED <<libInitialised, thread, cancelled, running, exported>>
        \/ /\ stage = "files"
           /\ held' = held \ {"mem", "lock", "port"}
           /\ libInitialised' = FALSE
           /\ pc' = <<"idle", 0>>
           /\ UNCHANGED <<thread, cancelled, running, exported>>
    BY DEF ReleaseStage
  <1>3. /\ stage \in Joined => pc[2] \in 1..5
        /\ stage = "memory" => pc[2] = 6
        /\ stage = "files" => pc[2] = 7
    BY <1>1, ReleaseStagesAre DEF Joined, Interfaces
  <1>4. CASE stage \in Joined /\ CancelThread(stage)
    <2>1. /\ pc' = <<"join", pc[2]>> /\ pc'[1] = "join" /\ pc'[2] = pc[2] /\ pc[2] \in 1..5
          /\ UNCHANGED <<libInitialised, runState, held, thread, running, exported, disabled>>
      BY <1>1, <1>3, <1>4 DEF CancelThread
    <2>2. cancelled' \subseteq Joined
      BY <1>4 DEF CancelThread, LibraryInv, LibraryTypeOK
    <2>3. LibraryTypeOK'
      BY <2>1, <2>2, PcTyped DEF LibraryInv, LibraryTypeOK
    <2>4. EachKnown' /\ EachMapped'
      BY <2>1 DEF LibraryInv, EachKnown, EachMapped, MemoryMapped
    <2>5. \A t \in Past(pc[2]) : thread'[t] = "none"
      BY <1>1, <2>1 DEF LibraryInv, ReleasedSoFar
    <2>6. UpMapped' /\ ReleasedSoFar' /\ DownHoldsNothing'
      BY <2>1, <2>5 DEF UpMapped, ReleasedSoFar, DownHoldsNothing
    <2> QED BY <2>3, <2>4, <2>6 DEF LibraryInv
  <1>5. CASE /\ stage \in Joined /\ running[stage] = "NONE"
             /\ pc' = <<"release", pc[2] + 1>>
             /\ UNCHANGED <<libInitialised, held, thread, cancelled, running, exported>>
    <2>1. pc[2] \in 1..5 /\ pc[2] + 1 \in 1..7
      BY <1>3, <1>5
    <2>2. LibraryTypeOK'
      BY <1>1, <1>5, <2>1, PcTyped DEF LibraryInv, LibraryTypeOK
    <2>3. EachKnown' /\ EachMapped'
      BY <1>5 DEF LibraryInv, EachKnown, EachMapped, MemoryMapped
    <2>4. thread'[stage] = "none" /\ \A t \in Past(pc[2]) : thread'[t] = thread[t]
      BY <1>5 DEF LibraryInv, EachKnown
    <2> QED BY <1>1, <1>5, <2>1, <2>2, <2>3, <2>4, StageReleased
  <1>6. CASE /\ stage = "memory"
             /\ held' = held \ {"registers", "dma"}
             /\ pc' = <<"release", pc[2] + 1>>
             /\ UNCHANGED <<libInitialised, thread, cancelled, running, exported>>
    <2>1. pc[2] = 6 /\ pc' = <<"release", 7>> /\ pc'[1] = "release" /\ pc'[2] = 7
      BY <1>3, <1>6
    <2>2. \A t \in Joined : thread[t] = "none"
      BY <1>1, <2>1, PastAll DEF LibraryInv, ReleasedSoFar
    <2>3. LibraryTypeOK'
      BY <1>1, <1>6, <2>1, PcTyped DEF LibraryInv, LibraryTypeOK
    <2>4. EachKnown' /\ EachMapped'
      BY <1>6, <2>2 DEF LibraryInv, EachKnown, EachMapped
    <2>5. ReleasedSoFar'
      BY <1>6, <2>1, <2>2, PastAll DEF ReleasedSoFar
    <2>6. UpMapped' /\ DownHoldsNothing'
      BY <2>1 DEF UpMapped, DownHoldsNothing
    <2> QED BY <2>3, <2>4, <2>5, <2>6 DEF LibraryInv
  <1>7. CASE /\ stage = "files"
             /\ held' = held \ {"mem", "lock", "port"}
             /\ libInitialised' = FALSE
             /\ pc' = <<"idle", 0>>
             /\ UNCHANGED <<thread, cancelled, running, exported>>
    <2>1. pc[2] = 7 /\ pc'[1] = "idle"
      BY <1>3, <1>7
    <2>2. \A t \in Joined : thread[t] = "none" /\ running[t] = "NONE"
      BY <1>1, <2>1, PastAll DEF LibraryInv, ReleasedSoFar, EachKnown
    <2>3. held \cap {"registers", "dma"} = {}
      BY <1>1, <2>1 DEF LibraryInv, ReleasedSoFar
    <2>4. held' \subseteq {"pads"}
      BY <1>7, <2>3 DEF LibraryInv, LibraryTypeOK, Resources
    <2>5. LibraryTypeOK'
      BY <1>1, <1>7 DEF LibraryInv, LibraryTypeOK
    <2>6. EachKnown' /\ EachMapped'
      BY <1>7, <2>2 DEF EachKnown, EachMapped
    <2>7. UpMapped' /\ ReleasedSoFar'
      BY <1>7, <2>1 DEF UpMapped, ReleasedSoFar
    <2>8. DownHoldsNothing'
      BY <1>7, <2>2, <2>4 DEF DownHoldsNothing
    <2> QED BY <2>5, <2>6, <2>7, <2>8 DEF LibraryInv
  <1> QED BY <1>2, <1>4, <1>5, <1>6, <1>7

LEMMA JoinThreadStep == LibraryInv /\ JoinThread => LibraryInv'
  <1> SUFFICES ASSUME LibraryInv, JoinThread PROVE LibraryInv'
    OBVIOUS
  <1> DEFINE t == ReleaseStages[pc[2]]
  <1>1. /\ pc[1] = "join" /\ pc[2] \in 1..5
        /\ pc' = <<"release", pc[2] + 1>> /\ pc[2] + 1 \in 1..7
    <2>1. pc[1] = "join" /\ pc[2] \in 1..7
      BY PcIs DEF JoinThread, LibraryInv
    <2>2. pc[2] <= 5
      BY <2>1 DEF LibraryInv, ReleasedSoFar
    <2> QED BY <2>1, <2>2 DEF JoinThread
  <1>2. t \in Joined
    BY <1>1, ReleaseStagesAre DEF Joined, Interfaces
  <1>3. /\ thread' = [thread EXCEPT ![t] = "none"]
        /\ running' = [running EXCEPT ![t] = "NONE"]
        /\ cancelled' = cancelled \ {t}
        /\ exported' \in {FALSE, exported}
        /\ UNCHANGED <<libInitialised, runState, held, disabled>>
    BY DEF JoinThread
  <1> HIDE DEF t
  <1>4. LibraryTypeOK'
    <2>1. pc' \in {<<"idle", 0>>, <<"waiting", 0>>}
                  \cup ({"init", "release", "join"} \X (1..Len(InitStages)))
      BY <1>1, PcTyped
    <2>2. /\ thread' \in [Joined \cup Strays -> {"none", "spinning", "working", "ended"}]
          /\ running' \in [Joined -> {"NONE", "STARTED", "RUNNING"}]
      BY <1>2, <1>3 DEF LibraryInv, LibraryTypeOK
    <2>3. cancelled' \subseteq Joined /\ exported' \in BOOLEAN
      BY <1>3 DEF LibraryInv, LibraryTypeOK
    <2> QED BY <1>3, <2>1, <2>2, <2>3 DEF LibraryInv, LibraryTypeOK
  <1>5. \A u \in Joined : /\ u = t => thread'[u] = "none" /\ running'[u] = "NONE"
                          /\ u # t => thread'[u] = thread[u] /\ running'[u] = running[u]
    BY <1>3 DEF LibraryInv, LibraryTypeOK
  <1>6. EachKnown' /\ EachMapped'
    BY <1>3, <1>5 DEF LibraryInv, EachKnown, EachMapped, MemoryMapped
  <1>7. \A u \in Past(pc[2]) : thread'[u] = thread[u]
    <2>1. \A u \in Past(pc[2]) : u \in Joined /\ thread[u] = "none"
      BY <1>1 DEF LibraryInv, ReleasedSoFar, Past
    <2> QED BY <1>5, <2>1
  <1>8. thread'[t] = "none"
    BY <1>2, <1>5
  <1> QED BY <1>1, <1>4, <1>6, <1>7, <1>8, StageReleased DEF t

(* A thread that goes on, or a call that starts or stops one while the     *)
(* library is up: nothing else of the library moves.                       *)
LEMMA ThreadStep ==
  ASSUME LibraryInv,
         UNCHANGED <<libInitialised, runState, pc, held, cancelled, disabled>>,
         thread' \in [Joined \cup Strays -> {"none", "spinning", "working", "ended"}],
         running' \in [Joined -> {"NONE", "STARTED", "RUNNING"}],
         exported' \in BOOLEAN,
         \A t \in Joined : running'[t] = "NONE" <=> thread'[t] = "none",
         \/ \A t \in Joined : thread[t] = "none" => thread'[t] = "none"
         \/ Ready
  PROVE  LibraryInv'
  <1>1. LibraryTypeOK'
    BY DEF LibraryInv, LibraryTypeOK
  <1>2. CASE \A t \in Joined : thread[t] = "none" => thread'[t] = "none"
    <2>1. EachMapped'
      BY <1>2 DEF LibraryInv, EachMapped, MemoryMapped
    <2>2. UpMapped'
      BY DEF LibraryInv, UpMapped, MemoryMapped
    <2>3. ReleasedSoFar'
      BY <1>2 DEF LibraryInv, ReleasedSoFar, Past
    <2>4. DownHoldsNothing'
      BY <1>2 DEF LibraryInv, DownHoldsNothing
    <2> QED BY <1>1, <2>1, <2>2, <2>3, <2>4 DEF LibraryInv, EachKnown
  <1>3. CASE Ready
    <2>1. pc'[1] = "idle" /\ libInitialised' /\ MemoryMapped /\ MemoryMapped'
      BY <1>3 DEF Ready, LibraryInv, UpMapped, MemoryMapped
    <2>2. EachMapped' /\ UpMapped' /\ ReleasedSoFar' /\ DownHoldsNothing'
      BY <2>1 DEF EachMapped, UpMapped, ReleasedSoFar, DownHoldsNothing
    <2> QED BY <1>1, <2>2 DEF LibraryInv, EachKnown
  <1> QED BY <1>2, <1>3

LEMMA ThreadsStep ==
  ASSUME LibraryInv,
         \/ \E t \in Interfaces : LeaveSpin(t)
         \/ AlertReady
         \/ \E t \in Joined : EndThread(t)
         \/ \E t \in Strays : StartStray(t) \/ StopStray(t)
  PROVE  LibraryInv'
  <1> USE DEF LibraryInv, LibraryTypeOK, EachKnown
  <1>1. ASSUME NEW t \in Interfaces, LeaveSpin(t) PROVE LibraryInv'
    <2>1. /\ UNCHANGED <<libInitialised, runState, pc, held, cancelled, disabled, running,
                         exported>>
          /\ thread[t] = "spinning" /\ thread' = [thread EXCEPT ![t] = "working"]
      BY <1>1 DEF LeaveSpin
    <2>2. thread' \in [Joined \cup Strays -> {"none", "spinning", "working", "ended"}]
      BY <2>1
    <2>3. \A u \in Joined : /\ running'[u] = "NONE" <=> thread'[u] = "none"
                            /\ thread[u] = "none" => thread'[u] = "none"
      BY <2>1
    <2> QED BY <2>1, <2>2, <2>3, ThreadStep
  <1>2. ASSUME AlertReady PROVE LibraryInv'
    <2>1. /\ UNCHANGED <<libInitialised, runState, pc, held, cancelled, disabled, thread,
                         exported>>
          /\ running["alert"] = "STARTED" /\ running' = [running EXCEPT !["alert"] = "RUNNING"]
      BY <1>2 DEF AlertReady
    <2>2. running' \in [Joined -> {"NONE", "STARTED", "RUNNING"}]
      BY <2>1
    <2>3. \A u \in Joined : /\ running'[u] = "NONE" <=> thread'[u] = "none"
                            /\ thread[u] = "none" => thread'[u] = "none"
      BY <2>1
    <2> QED BY <2>1, <2>2, <2>3, ThreadStep
  <1>3. ASSUME NEW t \in Joined, EndThread(t) PROVE LibraryInv'
    <2>1. /\ UNCHANGED <<libInitialised, runState, pc, held, cancelled, disabled, running,
                         exported>>
          /\ thread[t] = "working" /\ thread' = [thread EXCEPT ![t] = "ended"]
      BY <1>3 DEF EndThread
    <2>2. thread' \in [Joined \cup Strays -> {"none", "spinning", "working", "ended"}]
      BY <2>1
    <2>3. \A u \in Joined : /\ running'[u] = "NONE" <=> thread'[u] = "none"
                            /\ thread[u] = "none" => thread'[u] = "none"
      BY <2>1
    <2> QED BY <2>1, <2>2, <2>3, ThreadStep
  <1>4. ASSUME NEW t \in Strays, StartStray(t) \/ StopStray(t) PROVE LibraryInv'
    <2>1. UNCHANGED <<libInitialised, runState, pc, held, cancelled, disabled, running,
                      exported>>
      BY <1>4 DEF StartStray, StopStray
    <2>2. thread' \in {[thread EXCEPT ![t] = "working"], [thread EXCEPT ![t] = "none"]}
      BY <1>4 DEF StartStray, StopStray
    <2>3. thread' \in [Joined \cup Strays -> {"none", "spinning", "working", "ended"}]
      BY <2>2
    <2>4. \A u \in Joined : thread'[u] = thread[u]
      BY <2>2 DEF Strays, Joined, Interfaces
    <2> QED BY <2>1, <2>3, <2>4, ThreadStep
  <1> QED BY <1>1, <1>2, <1>3, <1>4

LEMMA CallsStep ==
  ASSUME LibraryInv, (\E on \in BOOLEAN : gpioSetTimerFunc(on)) \/ SetISR \/ ClearISR
  PROVE  LibraryInv'
  <1> USE DEF LibraryInv, LibraryTypeOK, EachKnown
  <1>1. ASSUME NEW t \in {"timer", "isr"}, NEW r \in {"NONE", "STARTED"},
               NEW w \in {"none", "working"}, r = "NONE" <=> w = "none",
               running' = [running EXCEPT ![t] = r], thread' = [thread EXCEPT ![t] = w],
               Ready, exported' \in BOOLEAN,
               UNCHANGED <<libInitialised, runState, pc, held, cancelled, disabled>>
        PROVE  LibraryInv'
    <2>1. t \in Joined
      BY DEF Joined
    <2>2. /\ thread' \in [Joined \cup Strays -> {"none", "spinning", "working", "ended"}]
          /\ running' \in [Joined -> {"NONE", "STARTED", "RUNNING"}]
      BY <1>1, <2>1
    <2>3. \A u \in Joined : running'[u] = "NONE" <=> thread'[u] = "none"
      BY <1>1, <2>1
    <2> QED BY <1>1, <2>2, <2>3, ThreadStep
  <1>2. ASSUME NEW on \in BOOLEAN, gpioSetTimerFunc(on) PROVE LibraryInv'
    <2>1. CASE on
      BY <1>1, <1>2, <2>1 DEF gpioSetTimerFunc
    <2>2. CASE ~on
      BY <1>1, <1>2, <2>2 DEF gpioSetTimerFunc
    <2> QED BY <2>1, <2>2
  <1>3. ASSUME SetISR PROVE LibraryInv'
    <2>1. exported' \in BOOLEAN /\ Ready
          /\ UNCHANGED <<libInitialised, runState, pc, held, cancelled, disabled>>
      BY <1>3 DEF SetISR
    <2>2. CASE UNCHANGED <<thread, running>>
      BY <2>1, <2>2, ThreadStep
    <2>3. CASE /\ thread' = [thread EXCEPT !["isr"] = "working"]
               /\ running' = [running EXCEPT !["isr"] = "STARTED"]
      BY <1>1, <2>1, <2>3
    <2> QED BY <1>3, <2>2, <2>3 DEF SetISR
  <1>4. ASSUME ClearISR PROVE LibraryInv'
    <2>1. exported' \in BOOLEAN
      BY <1>4 DEF ClearISR
    <2> QED BY <1>1, <1>4, <2>1 DEF ClearISR
  <1> QED BY <1>2, <1>3, <1>4

LEMMA LibraryStep == LibraryInv /\ [LibraryNext]_libVars => LibraryInv'
  <1> SUFFICES ASSUME LibraryInv, [LibraryNext]_libVars PROVE LibraryInv'
    OBVIOUS
  <1>1. CASE LibraryNext
    BY <1>1, EntryStep, InitStageStep, AlertSeenStep, TerminateStep, ReleaseStageStep,
       JoinThreadStep, ThreadsStep, CallsStep DEF LibraryNext, Caller
  <1>2. CASE UNCHANGED libVars
    <2>1. LibraryTypeOK' /\ EachKnown' /\ EachMapped'
      BY <1>2 DEF libVars, LibraryInv, LibraryTypeOK, EachKnown, EachMapped, MemoryMapped
    <2>2. UpMapped' /\ ReleasedSoFar' /\ DownHoldsNothing'
      BY <1>2 DEF libVars, LibraryInv, UpMapped, ReleasedSoFar, DownHoldsNothing, MemoryMapped
    <2> QED BY <2>1, <2>2 DEF LibraryInv
  <1> QED BY <1>1, <1>2

LEMMA LibraryBegins == LibraryInit => LibraryInv
  <1> SUFFICES ASSUME LibraryInit PROVE LibraryInv
    OBVIOUS
  <1>1. LibraryTypeOK
    BY DEF LibraryInit, LibraryTypeOK
  <1>2. EachKnown /\ EachMapped
    BY DEF LibraryInit, EachKnown, EachMapped
  <1>3. UpMapped /\ ReleasedSoFar /\ DownHoldsNothing
    BY DEF LibraryInit, UpMapped, ReleasedSoFar, DownHoldsNothing
  <1> QED BY <1>1, <1>2, <1>3 DEF LibraryInv

(* Whichever stage of gpioInitialise fails and whenever gpioTerminate is   *)
(* called, with any interfaces disabled: the threads that the library      *)
(* joins never run without the memory it maps, and a library that is down  *)
(* holds nothing but the map of the pads and runs none of those threads.   *)
THEOREM LibraryLetsGoAlways == LibrarySpec => []LibraryLetsGo
  <1>1. LibraryInv => LibraryLetsGo
    BY DEF LibraryInv, EachMapped, MemoryMapped, LibraryLetsGo, ThreadsHaveTheirMemory
  <1> QED BY LibraryBegins, LibraryStep, <1>1, PTL DEF LibrarySpec

-----------------------------------------------------------------------------
(* The lock file *)

(* As long as no process starts beside one that no file tells of:          *)
NoneStarts == \A p \in Processes : step[p] \notin Starting
OneStarts == \A p, q \in Processes : step[p] \in Starting /\ step[q] \in Starting => p = q

(* the file is that of the process that uses the library, or is about to,  *)
(* or of one that died;                                                    *)
FileOfUser ==
  \A p \in Processes : /\ UsesLibrary(p) => lockfile.by = p /\ (lockfile.written = TRUE \/ NoneStarts)
                       /\ step[p] = "writing" => lockfile.by = p /\ lockfile.written = FALSE
UserOfFile ==
  lockfile # Missing =>
    /\ step[lockfile.by] \in {"writing", "running", "releasing", "dead"}
    /\ lockfile.written = FALSE => NoneStarts \/ step[lockfile.by] \in {"writing", "dead"}
    /\ lockfile.written = TRUE => step[lockfile.by] # "writing"

(* what a process has read is the file there is, unless that was removed;  *)
SeenIsCurrent ==
  \A p \in Processes :
    step[p] = "judging" =>
      /\ seen[p] # Missing /\ lockfile \in {seen[p], Missing}
      /\ seen[p].written = FALSE => step[seen[p].by] = "dead"

(* it removes no file but one of a process that died;                      *)
RemovesOfDead ==
  \A p \in Processes :
    step[p] = "removing" => lockfile = Missing \/ step[lockfile.by] = "dead"

(* and who uses the library while another starts did so when it began.     *)
UserWasMet == \A p, q \in Processes : step[p] \in Starting /\ UsesLibrary(q) => p \in met
RefusalMet ==
  \A p \in Processes : step[p] = "grabbing" /\ lockfile # Missing => p \in met \/ p \in deceived

Apart == /\ OneStarts /\ FileOfUser /\ UserOfFile /\ SeenIsCurrent /\ RemovesOfDead
         /\ UserWasMet /\ RefusalMet

LockInv == LockTypeOK /\ (unseen \/ Apart)
-----------------------------------------------------------------------------
LEMMA Files ==
  /\ Missing.by = "nobody" /\ Missing.written = FALSE /\ Missing \notin File
  /\ \A f \in File : f.by \in Processes /\ f.written \in BOOLEAN /\ f # Missing
  /\ \A f \in File \cup {Missing} : f.by \in Processes => f \in File
  <1>1. Missing.by = "nobody" /\ Missing.written = FALSE
    BY DEF Missing
  <1>2. \A f \in File : f.by \in Processes /\ f.written \in BOOLEAN
    BY DEF File
  <1> QED BY <1>1, <1>2, LockAssumption

(* A step of p: what it does to the file, and what stays.                  *)
LEMMA Written ==
  ASSUME NEW p \in Processes, NEW f \in File
  PROVE  /\ [by |-> p, written |-> FALSE] \in File
         /\ [by |-> p, written |-> FALSE].by = p
         /\ [by |-> p, written |-> FALSE].written = FALSE
         /\ \A w \in BOOLEAN : /\ [f EXCEPT !.written = w] \in File
                               /\ [f EXCEPT !.written = w].by = f.by
                               /\ [f EXCEPT !.written = w].written = w
  BY DEF File

LEMMA GotoMoves ==
  ASSUME LockTypeOK, NEW p \in Processes, NEW at \in Steps, Goto(p, at)
  PROVE  /\ step' \in [Processes -> Steps]
         /\ step'[p] = at
         /\ \A q \in Processes : q # p => step'[q] = step[q]
  BY DEF LockTypeOK, Goto

LEMMA TypedStep == LockTypeOK /\ [LockNext]_lockVars => LockTypeOK'
  <1> SUFFICES ASSUME LockTypeOK, [LockNext]_lockVars PROVE LockTypeOK'
    OBVIOUS
  <1>1. ASSUME NEW p \in Processes,
               \/ StartProcess(p) \/ ReadLock(p) \/ Judge(p) \/ RemoveLock(p) \/ GrabLock(p)
               \/ WritePid(p) \/ StopProcess(p) \/ ReleaseLock(p) \/ Die(p) \/ ReusePid(p)
        PROVE  LockTypeOK'
    <2>1. step' = step \/ \E at \in Steps : Goto(p, at)
      BY <1>1 DEF StartProcess, ReadLock, Judge, RemoveLock, GrabLock, WritePid, StopProcess,
                  ReleaseLock, Die, ReusePid, Steps
    <2>2. step' \in [Processes -> Steps]
      BY <2>1, GotoMoves DEF LockTypeOK
    <2>3. seen' \in [Processes -> File \cup {Missing}]
      <3>1. seen' = seen \/ \E f \in File \cup {Missing} : seen' = [seen EXCEPT ![p] = f]
        BY <1>1 DEF StartProcess, ReadLock, Judge, RemoveLock, GrabLock, WritePid,
                    StopProcess, ReleaseLock, Die, ReusePid, LockTypeOK
      <3> QED BY <3>1 DEF LockTypeOK
    <2>4. lockfile' \in File \cup {Missing}
      <3>1. CASE lockfile' = lockfile \/ lockfile' = Missing
        BY <3>1 DEF LockTypeOK
      <3>2. CASE lockfile' = [by |-> p, written |-> FALSE]
        BY <3>2 DEF File
      <3>3. CASE lockfile.by = p /\ \E w \in BOOLEAN : lockfile' = [lockfile EXCEPT !.written = w]
        <4>1. PICK w \in BOOLEAN : lockfile' = [lockfile EXCEPT !.written = w]
          BY <3>3
        <4>2. lockfile.by = p
          BY <3>3
        <4>3. lockfile \in File
          BY <4>2, Files DEF LockTypeOK
        <4>4. [lockfile EXCEPT !.written = w] \in File
          BY <4>3, Written
        <4> QED BY <4>1, <4>4
      <3> QED BY <1>1, <3>1, <3>2, <3>3
          DEF StartProcess, ReadLock, Judge, RemoveLock, GrabLock, WritePid, StopProcess,
              ReleaseLock, Die, ReusePid
    <2>5. /\ unseen' \in BOOLEAN
          /\ pidsReused' \subseteq Processes /\ met' \subseteq Processes /\ deceived' \subseteq Processes
      BY <1>1 DEF StartProcess, ReadLock, Judge, RemoveLock, GrabLock, WritePid, StopProcess,
                  ReleaseLock, Die, ReusePid, LockTypeOK
    <2> QED BY <2>2, <2>3, <2>4, <2>5 DEF LockTypeOK
  <1>2. CASE UNCHANGED lockVars
    BY <1>2 DEF lockVars, LockTypeOK
  <1> QED BY <1>1, <1>2 DEF LockNext
-----------------------------------------------------------------------------
-----------------------------------------------------------------------------
(* The steps of a process while none has started beside one that no file   *)
(* told of.                                                                *)

LEMMA StartProcessStep ==
  ASSUME LockTypeOK, Apart, NEW p \in Processes, StartProcess(p), LockTypeOK', ~unseen'
  PROVE  Apart'
  <1>1. /\ step[p] = "off" /\ step'[p] = "checking" /\ UNCHANGED <<lockfile, seen>>
        /\ \A q \in Processes : q # p => step[q] \notin Starting
        /\ \A q \in Processes : UsesLibrary(q) => p \in met' /\ lockfile.written = TRUE
        /\ \A q \in Processes : q # p => (q \in met' <=> q \in met)
        /\ \A q \in Processes : q # p => (q \in deceived' <=> q \in deceived)
    BY DEF LockTypeOK, StartProcess, Goto, Starting, UsesLibrary, HasItsFile, Alive, Steps
  <1>2. \A q \in Processes : q # p => step'[q] = step[q]
    BY DEF LockTypeOK, StartProcess, Goto
  <1>3. /\ OneStarts /\ FileOfUser /\ UserOfFile /\ SeenIsCurrent /\ RemovesOfDead
        /\ UserWasMet /\ RefusalMet
    BY DEF Apart
  <1>4. /\ lockfile \in File \cup {Missing} /\ lockfile' \in File \cup {Missing}
        /\ \A q \in Processes : seen[q] \in File \cup {Missing}
    BY DEF LockTypeOK
  <1>5. OneStarts'
    BY <1>1, <1>2, <1>3 DEF OneStarts, Starting
  <1>6. FileOfUser'
    BY <1>1, <1>2, <1>3, <1>4, Files DEF OneStarts, FileOfUser, UserOfFile, RemovesOfDead, NoneStarts, UsesLibrary, Starting
  <1>7. UserOfFile'
    BY <1>1, <1>2, <1>3, <1>4, Files
    DEF OneStarts, FileOfUser, UserOfFile, NoneStarts, UsesLibrary, Starting
  <1>8. SeenIsCurrent'
    BY <1>1, <1>2, <1>3, <1>4, Files DEF OneStarts, SeenIsCurrent, UserOfFile, NoneStarts, Starting
  <1>9. RemovesOfDead'
    BY <1>1, <1>2, <1>3, <1>4, Files DEF OneStarts, SeenIsCurrent, RemovesOfDead, Starting
  <1>10. UserWasMet'
    BY <1>1, <1>2, <1>3 DEF OneStarts, UserWasMet, UsesLibrary, Starting
  <1>11. RefusalMet'
    BY <1>1, <1>2, <1>3, <1>4, Files
    DEF OneStarts, SeenIsCurrent, UserOfFile, UserWasMet, RefusalMet, NoneStarts, UsesLibrary, Starting
  <1> QED BY <1>5, <1>6, <1>7, <1>8, <1>9, <1>10, <1>11 DEF Apart

LEMMA ReadLockStep ==
  ASSUME LockTypeOK, Apart, NEW p \in Processes, ReadLock(p), LockTypeOK', ~unseen'
  PROVE  Apart'
  <1>1. /\ step[p] = "checking" /\ UNCHANGED <<lockfile, met, deceived>>
        /\ \/ lockfile = Missing /\ step'[p] = "grabbing" /\ seen' = seen
           \/ lockfile # Missing /\ step'[p] = "judging" /\ seen'[p] = lockfile
        /\ \A q \in Processes : q # p => seen'[q] = seen[q]
    BY DEF LockTypeOK, ReadLock, Goto, Starting, UsesLibrary, Alive, Steps
  <1>2. \A q \in Processes : q # p => step'[q] = step[q]
    BY DEF LockTypeOK, ReadLock, Goto
  <1>3. /\ OneStarts /\ FileOfUser /\ UserOfFile /\ SeenIsCurrent /\ RemovesOfDead
        /\ UserWasMet /\ RefusalMet
    BY DEF Apart
  <1>4. /\ lockfile \in File \cup {Missing} /\ lockfile' \in File \cup {Missing}
        /\ \A q \in Processes : seen[q] \in File \cup {Missing}
    BY DEF LockTypeOK
  <1>5. OneStarts'
    BY <1>1, <1>2, <1>3 DEF OneStarts, Starting
  <1>6. FileOfUser'
    BY <1>1, <1>2, <1>3, <1>4, Files DEF OneStarts, FileOfUser, UserOfFile, RemovesOfDead, NoneStarts, UsesLibrary, Starting
  <1>7. UserOfFile'
    BY <1>1, <1>2, <1>3, <1>4, Files
    DEF OneStarts, FileOfUser, UserOfFile, NoneStarts, UsesLibrary, Starting
  <1>8. SeenIsCurrent'
    BY <1>1, <1>2, <1>3, <1>4, Files DEF OneStarts, SeenIsCurrent, UserOfFile, NoneStarts, Starting
  <1>9. RemovesOfDead'
    BY <1>1, <1>2, <1>3, <1>4, Files DEF OneStarts, SeenIsCurrent, RemovesOfDead, Starting
  <1>10. UserWasMet'
    BY <1>1, <1>2, <1>3 DEF OneStarts, UserWasMet, UsesLibrary, Starting
  <1>11. RefusalMet'
    BY <1>1, <1>2, <1>3, <1>4, Files
    DEF OneStarts, SeenIsCurrent, UserOfFile, UserWasMet, RefusalMet, NoneStarts, UsesLibrary, Starting
  <1> QED BY <1>5, <1>6, <1>7, <1>8, <1>9, <1>10, <1>11 DEF Apart

LEMMA JudgeStep ==
  ASSUME LockTypeOK, Apart, NEW p \in Processes, Judge(p), LockTypeOK', ~unseen'
  PROVE  Apart'
  <1>1. /\ step[p] = "judging" /\ UNCHANGED <<lockfile, met>>
        /\ \/ /\ seen[p].written = TRUE /\ step'[p] = "grabbing"
              /\ step[seen[p].by] # "dead" \/ p \in deceived'
           \/ step'[p] = "removing" /\ (seen[p].written = FALSE \/ step[seen[p].by] = "dead")
        /\ \A q \in Processes : q # p => seen'[q] = seen[q]
        /\ \A q \in Processes : q # p => (q \in deceived' <=> q \in deceived)
    <2>1. seen[p].written \in BOOLEAN
      BY Files DEF LockTypeOK
    <2>2. /\ step[p] = "judging" /\ UNCHANGED <<lockfile, met>>
          /\ \A q \in Processes : q # p => seen'[q] = seen[q]
          /\ \A q \in Processes : q # p => (q \in deceived' <=> q \in deceived)
      BY DEF LockTypeOK, Judge
    <2>3. CASE seen[p].written /\ Kill(seen[p].by)
      BY <2>1, <2>3 DEF LockTypeOK, Judge, Goto, Kill, Alive
    <2>4. CASE ~(seen[p].written /\ Kill(seen[p].by))
      BY <2>1, <2>4 DEF LockTypeOK, Judge, Goto, Kill, Alive
    <2> QED BY <2>2, <2>3, <2>4
  <1>2. \A q \in Processes : q # p => step'[q] = step[q]
    BY DEF LockTypeOK, Judge, Goto
  <1>3. /\ OneStarts /\ FileOfUser /\ UserOfFile /\ SeenIsCurrent /\ RemovesOfDead
        /\ UserWasMet /\ RefusalMet
    BY DEF Apart
  <1>4. /\ lockfile \in File \cup {Missing} /\ lockfile' \in File \cup {Missing}
        /\ \A q \in Processes : seen[q] \in File \cup {Missing}
    BY DEF LockTypeOK
  <1>5. OneStarts'
    BY <1>1, <1>2, <1>3 DEF OneStarts, Starting
  <1>6. FileOfUser'
    BY <1>1, <1>2, <1>3, <1>4, Files DEF OneStarts, FileOfUser, UserOfFile, RemovesOfDead, NoneStarts, UsesLibrary, Starting
  <1>7. UserOfFile'
    BY <1>1, <1>2, <1>3, <1>4, Files
    DEF OneStarts, FileOfUser, UserOfFile, NoneStarts, UsesLibrary, Starting
  <1>8. SeenIsCurrent'
    BY <1>1, <1>2, <1>3, <1>4, Files DEF OneStarts, SeenIsCurrent, UserOfFile, NoneStarts, Starting
  <1>9. RemovesOfDead'
    BY <1>1, <1>2, <1>3, <1>4, Files DEF OneStarts, SeenIsCurrent, RemovesOfDead, Starting
  <1>10. UserWasMet'
    BY <1>1, <1>2, <1>3 DEF OneStarts, UserWasMet, UsesLibrary, Starting
  <1>11. RefusalMet'
    BY <1>1, <1>2, <1>3, <1>4, Files
    DEF OneStarts, SeenIsCurrent, UserOfFile, UserWasMet, RefusalMet, NoneStarts, UsesLibrary, Starting
  <1> QED BY <1>5, <1>6, <1>7, <1>8, <1>9, <1>10, <1>11 DEF Apart

LEMMA RemoveLockStep ==
  ASSUME LockTypeOK, Apart, NEW p \in Processes, RemoveLock(p), LockTypeOK', ~unseen'
  PROVE  Apart'
  <1>1. /\ step[p] = "removing" /\ step'[p] = "grabbing" /\ lockfile' = Missing
        /\ UNCHANGED <<seen, met, deceived>>
    BY DEF LockTypeOK, RemoveLock, Goto, Starting, UsesLibrary, Alive, Steps
  <1>2. \A q \in Processes : q # p => step'[q] = step[q]
    BY DEF LockTypeOK, RemoveLock, Goto
  <1>3. /\ OneStarts /\ FileOfUser /\ UserOfFile /\ SeenIsCurrent /\ RemovesOfDead
        /\ UserWasMet /\ RefusalMet
    BY DEF Apart
  <1>4. /\ lockfile \in File \cup {Missing} /\ lockfile' \in File \cup {Missing}
        /\ \A q \in Processes : seen[q] \in File \cup {Missing}
    BY DEF LockTypeOK
  <1>5. OneStarts'
    BY <1>1, <1>2, <1>3 DEF OneStarts, Starting
  <1>6. FileOfUser'
    BY <1>1, <1>2, <1>3, <1>4, Files DEF OneStarts, FileOfUser, UserOfFile, RemovesOfDead, NoneStarts, UsesLibrary, Starting
  <1>7. UserOfFile'
    BY <1>1, <1>2, <1>3, <1>4, Files
    DEF OneStarts, FileOfUser, UserOfFile, NoneStarts, UsesLibrary, Starting
  <1>8. SeenIsCurrent'
    BY <1>1, <1>2, <1>3, <1>4, Files DEF OneStarts, SeenIsCurrent, UserOfFile, NoneStarts, Starting
  <1>9. RemovesOfDead'
    BY <1>1, <1>2, <1>3, <1>4, Files DEF OneStarts, SeenIsCurrent, RemovesOfDead, Starting
  <1>10. UserWasMet'
    BY <1>1, <1>2, <1>3 DEF OneStarts, UserWasMet, UsesLibrary, Starting
  <1>11. RefusalMet'
    BY <1>1, <1>2, <1>3, <1>4, Files
    DEF OneStarts, SeenIsCurrent, UserOfFile, UserWasMet, RefusalMet, NoneStarts, UsesLibrary, Starting
  <1> QED BY <1>5, <1>6, <1>7, <1>8, <1>9, <1>10, <1>11 DEF Apart

LEMMA GrabLockStep ==
  ASSUME LockTypeOK, Apart, NEW p \in Processes, GrabLock(p), LockTypeOK', ~unseen'
  PROVE  Apart'
  <1>1. /\ step[p] = "grabbing" /\ UNCHANGED <<seen, met, deceived>>
        /\ \/ /\ lockfile = Missing /\ step'[p] = "writing"
              /\ lockfile' \in File /\ lockfile'.by = p /\ lockfile'.written = FALSE
           \/ lockfile # Missing /\ step'[p] = "off" /\ lockfile' = lockfile
    <2>1. step' = [step EXCEPT ![p] = "writing"] \/ step' = [step EXCEPT ![p] = "off"]
      BY DEF GrabLock, Goto
    <2>2. step'[p] = "writing" => lockfile = Missing /\ lockfile' = [by |-> p, written |-> FALSE]
      BY <2>1 DEF GrabLock, Goto, LockTypeOK
    <2>3. step'[p] = "writing" => /\ lockfile' \in File /\ lockfile'.by = p
                                  /\ lockfile'.written = FALSE
      <3>1. [by |-> p, written |-> FALSE] \in File
        BY DEF File
      <3>2. [by |-> p, written |-> FALSE].by = p
        OBVIOUS
      <3>3. [by |-> p, written |-> FALSE].written = FALSE
        BY Zenon
      <3> QED BY <2>2, <3>1, <3>2, <3>3, Zenon
    <2>4. step'[p] # "writing" => lockfile # Missing /\ step'[p] = "off" /\ lockfile' = lockfile
      BY <2>1 DEF GrabLock, Goto, LockTypeOK
    <2> QED BY <2>2, <2>3, <2>4 DEF GrabLock
  <1>2. \A q \in Processes : q # p => step'[q] = step[q]
    BY DEF LockTypeOK, GrabLock, Goto
  <1>3. /\ OneStarts /\ FileOfUser /\ UserOfFile /\ SeenIsCurrent /\ RemovesOfDead
        /\ UserWasMet /\ RefusalMet
    BY DEF Apart
  <1>4. /\ lockfile \in File \cup {Missing} /\ lockfile' \in File \cup {Missing}
        /\ \A q \in Processes : seen[q] \in File \cup {Missing}
    BY DEF LockTypeOK
  <1>5. OneStarts'
    BY <1>1, <1>2, <1>3 DEF OneStarts, Starting
  <1>6. FileOfUser'
    BY <1>1, <1>2, <1>3, <1>4, Files DEF OneStarts, FileOfUser, UserOfFile, RemovesOfDead, NoneStarts, UsesLibrary, Starting
  <1>7. UserOfFile'
    BY <1>1, <1>2, <1>3, <1>4, Files
    DEF OneStarts, FileOfUser, UserOfFile, NoneStarts, UsesLibrary, Starting
  <1>8. SeenIsCurrent'
    BY <1>1, <1>2, <1>3, <1>4, Files DEF OneStarts, SeenIsCurrent, UserOfFile, NoneStarts, Starting
  <1>9. RemovesOfDead'
    BY <1>1, <1>2, <1>3, <1>4, Files DEF OneStarts, SeenIsCurrent, RemovesOfDead, Starting
  <1>10. UserWasMet'
    BY <1>1, <1>2, <1>3 DEF OneStarts, UserWasMet, UsesLibrary, Starting
  <1>11. RefusalMet'
    BY <1>1, <1>2, <1>3, <1>4, Files
    DEF OneStarts, SeenIsCurrent, UserOfFile, UserWasMet, RefusalMet, NoneStarts, UsesLibrary, Starting
  <1> QED BY <1>5, <1>6, <1>7, <1>8, <1>9, <1>10, <1>11 DEF Apart

LEMMA WritePidStep ==
  ASSUME LockTypeOK, Apart, NEW p \in Processes, WritePid(p), LockTypeOK', ~unseen'
  PROVE  Apart'
  <1>1. /\ step[p] = "writing" /\ step'[p] = "running" /\ UNCHANGED <<seen, met, deceived>>
        /\ lockfile \in File /\ lockfile.by = p
        /\ lockfile' \in File /\ lockfile'.by = p
    <2>1. /\ step[p] = "writing" /\ step'[p] = "running" /\ UNCHANGED <<seen, met, deceived>>
      BY DEF WritePid, Goto, LockTypeOK
    <2>2. lockfile.by = p
      BY <2>1 DEF Apart, FileOfUser
    <2>3. PICK w \in BOOLEAN : lockfile' = [lockfile EXCEPT !.written = w]
      BY <2>2 DEF WritePid
    <2>4. lockfile \in File
      BY <2>2, Files DEF LockTypeOK
    <2>5. [lockfile EXCEPT !.written = w] \in File /\ [lockfile EXCEPT !.written = w].by = p
      BY <2>2, <2>4, Written
    <2> QED BY <2>1, <2>2, <2>3, <2>4, <2>5
  <1>2. \A q \in Processes : q # p => step'[q] = step[q]
    BY DEF LockTypeOK, WritePid, Goto
  <1>3. /\ OneStarts /\ FileOfUser /\ UserOfFile /\ SeenIsCurrent /\ RemovesOfDead
        /\ UserWasMet /\ RefusalMet
    BY DEF Apart
  <1>4. /\ lockfile \in File \cup {Missing} /\ lockfile' \in File \cup {Missing}
        /\ \A q \in Processes : seen[q] \in File \cup {Missing}
    BY DEF LockTypeOK
  <1>5. OneStarts'
    BY <1>1, <1>2, <1>3 DEF OneStarts, Starting
  <1>6. FileOfUser'
    BY <1>1, <1>2, <1>3, <1>4, Files DEF OneStarts, FileOfUser, UserOfFile, RemovesOfDead, NoneStarts, UsesLibrary, Starting
  <1>7. UserOfFile'
    BY <1>1, <1>2, <1>3, <1>4, Files
    DEF OneStarts, FileOfUser, UserOfFile, NoneStarts, UsesLibrary, Starting
  <1>8. SeenIsCurrent'
    BY <1>1, <1>2, <1>3, <1>4, Files DEF OneStarts, SeenIsCurrent, UserOfFile, NoneStarts, Starting
  <1>9. RemovesOfDead'
    BY <1>1, <1>2, <1>3, <1>4, Files DEF OneStarts, SeenIsCurrent, RemovesOfDead, Starting
  <1>10. UserWasMet'
    BY <1>1, <1>2, <1>3 DEF OneStarts, UserWasMet, UsesLibrary, Starting
  <1>11. RefusalMet'
    BY <1>1, <1>2, <1>3, <1>4, Files
    DEF OneStarts, SeenIsCurrent, UserOfFile, UserWasMet, RefusalMet, NoneStarts, UsesLibrary, Starting
  <1> QED BY <1>5, <1>6, <1>7, <1>8, <1>9, <1>10, <1>11 DEF Apart

LEMMA StopProcessStep ==
  ASSUME LockTypeOK, Apart, NEW p \in Processes, StopProcess(p), LockTypeOK', ~unseen'
  PROVE  Apart'
  <1>1. /\ step[p] = "running" /\ step'[p] = "releasing" /\ UNCHANGED <<lockfile, seen, met, deceived>>
    BY DEF LockTypeOK, StopProcess, Goto, Starting, UsesLibrary, Alive, Steps
  <1>2. \A q \in Processes : q # p => step'[q] = step[q]
    BY DEF LockTypeOK, StopProcess, Goto
  <1>3. /\ OneStarts /\ FileOfUser /\ UserOfFile /\ SeenIsCurrent /\ RemovesOfDead
        /\ UserWasMet /\ RefusalMet
    BY DEF Apart
  <1>4. /\ lockfile \in File \cup {Missing} /\ lockfile' \in File \cup {Missing}
        /\ \A q \in Processes : seen[q] \in File \cup {Missing}
    BY DEF LockTypeOK
  <1>5. OneStarts'
    BY <1>1, <1>2, <1>3 DEF OneStarts, Starting
  <1>6. FileOfUser'
    BY <1>1, <1>2, <1>3, <1>4, Files DEF OneStarts, FileOfUser, UserOfFile, RemovesOfDead, NoneStarts, UsesLibrary, Starting
  <1>7. UserOfFile'
    BY <1>1, <1>2, <1>3, <1>4, Files
    DEF OneStarts, FileOfUser, UserOfFile, NoneStarts, UsesLibrary, Starting
  <1>8. SeenIsCurrent'
    BY <1>1, <1>2, <1>3, <1>4, Files DEF OneStarts, SeenIsCurrent, UserOfFile, NoneStarts, Starting
  <1>9. RemovesOfDead'
    BY <1>1, <1>2, <1>3, <1>4, Files DEF OneStarts, SeenIsCurrent, RemovesOfDead, Starting
  <1>10. UserWasMet'
    BY <1>1, <1>2, <1>3 DEF OneStarts, UserWasMet, UsesLibrary, Starting
  <1>11. RefusalMet'
    BY <1>1, <1>2, <1>3, <1>4, Files
    DEF OneStarts, SeenIsCurrent, UserOfFile, UserWasMet, RefusalMet, NoneStarts, UsesLibrary, Starting
  <1> QED BY <1>5, <1>6, <1>7, <1>8, <1>9, <1>10, <1>11 DEF Apart

LEMMA ReleaseLockStep ==
  ASSUME LockTypeOK, Apart, NEW p \in Processes, ReleaseLock(p), LockTypeOK', ~unseen'
  PROVE  Apart'
  <1>1. /\ step[p] = "releasing" /\ step'[p] = "off" /\ lockfile' = Missing
        /\ UNCHANGED <<seen, met, deceived>>
    BY DEF LockTypeOK, ReleaseLock, Goto, Starting, UsesLibrary, Alive, Steps
  <1>2. \A q \in Processes : q # p => step'[q] = step[q]
    BY DEF LockTypeOK, ReleaseLock, Goto
  <1>3. /\ OneStarts /\ FileOfUser /\ UserOfFile /\ SeenIsCurrent /\ RemovesOfDead
        /\ UserWasMet /\ RefusalMet
    BY DEF Apart
  <1>4. /\ lockfile \in File \cup {Missing} /\ lockfile' \in File \cup {Missing}
        /\ \A q \in Processes : seen[q] \in File \cup {Missing}
    BY DEF LockTypeOK
  <1>5. OneStarts'
    BY <1>1, <1>2, <1>3 DEF OneStarts, Starting
  <1>6. FileOfUser'
    BY <1>1, <1>2, <1>3, <1>4, Files DEF OneStarts, FileOfUser, UserOfFile, RemovesOfDead, NoneStarts, UsesLibrary, Starting
  <1>7. UserOfFile'
    BY <1>1, <1>2, <1>3, <1>4, Files
    DEF OneStarts, FileOfUser, UserOfFile, NoneStarts, UsesLibrary, Starting
  <1>8. SeenIsCurrent'
    BY <1>1, <1>2, <1>3, <1>4, Files DEF OneStarts, SeenIsCurrent, UserOfFile, NoneStarts, Starting
  <1>9. RemovesOfDead'
    BY <1>1, <1>2, <1>3, <1>4, Files DEF OneStarts, SeenIsCurrent, RemovesOfDead, Starting
  <1>10. UserWasMet'
    BY <1>1, <1>2, <1>3 DEF OneStarts, UserWasMet, UsesLibrary, Starting
  <1>11. RefusalMet'
    BY <1>1, <1>2, <1>3, <1>4, Files
    DEF OneStarts, SeenIsCurrent, UserOfFile, UserWasMet, RefusalMet, NoneStarts, UsesLibrary, Starting
  <1> QED BY <1>5, <1>6, <1>7, <1>8, <1>9, <1>10, <1>11 DEF Apart

LEMMA DieStep ==
  ASSUME LockTypeOK, Apart, NEW p \in Processes, Die(p), LockTypeOK', ~unseen'
  PROVE  Apart'
  <1>1. /\ step'[p] = "dead" /\ UNCHANGED <<lockfile, met, deceived>>
        /\ \A q \in Processes : q # p => seen'[q] = seen[q]
    BY DEF LockTypeOK, Die, Goto, Starting, UsesLibrary, Alive, Steps
  <1>2. \A q \in Processes : q # p => step'[q] = step[q]
    BY DEF LockTypeOK, Die, Goto
  <1>3. /\ OneStarts /\ FileOfUser /\ UserOfFile /\ SeenIsCurrent /\ RemovesOfDead
        /\ UserWasMet /\ RefusalMet
    BY DEF Apart
  <1>4. /\ lockfile \in File \cup {Missing} /\ lockfile' \in File \cup {Missing}
        /\ \A q \in Processes : seen[q] \in File \cup {Missing}
    BY DEF LockTypeOK
  <1>5. OneStarts'
    BY <1>1, <1>2, <1>3 DEF OneStarts, Starting
  <1>6. FileOfUser'
    BY <1>1, <1>2, <1>3, <1>4, Files DEF OneStarts, FileOfUser, UserOfFile, RemovesOfDead, NoneStarts, UsesLibrary, Starting
  <1>7. UserOfFile'
    BY <1>1, <1>2, <1>3, <1>4, Files
    DEF OneStarts, FileOfUser, UserOfFile, NoneStarts, UsesLibrary, Starting
  <1>8. SeenIsCurrent'
    BY <1>1, <1>2, <1>3, <1>4, Files DEF OneStarts, SeenIsCurrent, UserOfFile, NoneStarts, Starting
  <1>9. RemovesOfDead'
    BY <1>1, <1>2, <1>3, <1>4, Files DEF OneStarts, SeenIsCurrent, RemovesOfDead, Starting
  <1>10. UserWasMet'
    BY <1>1, <1>2, <1>3 DEF OneStarts, UserWasMet, UsesLibrary, Starting
  <1>11. RefusalMet'
    BY <1>1, <1>2, <1>3, <1>4, Files
    DEF OneStarts, SeenIsCurrent, UserOfFile, UserWasMet, RefusalMet, NoneStarts, UsesLibrary, Starting
  <1> QED BY <1>5, <1>6, <1>7, <1>8, <1>9, <1>10, <1>11 DEF Apart

LEMMA ReusePidStep ==
  ASSUME LockTypeOK, Apart, NEW p \in Processes, ReusePid(p)
  PROVE  Apart'
  <1>1. UNCHANGED <<lockfile, step, seen, met, deceived>>
    BY DEF ReusePid
  <1>2. OneStarts' /\ FileOfUser' /\ UserOfFile'
    BY <1>1 DEF Apart, OneStarts, FileOfUser, UserOfFile, NoneStarts, UsesLibrary
  <1>3. SeenIsCurrent' /\ RemovesOfDead'
    BY <1>1 DEF Apart, SeenIsCurrent, RemovesOfDead
  <1>4. UserWasMet' /\ RefusalMet'
    BY <1>1 DEF Apart, UserWasMet, RefusalMet, UsesLibrary
  <1> QED BY <1>2, <1>3, <1>4, Zenon DEF Apart

LEMMA LockBegins == LockInit => LockInv
  <1> SUFFICES ASSUME LockInit PROVE LockInv
    OBVIOUS
  <1>1. LockTypeOK
    BY DEF LockInit, LockTypeOK, Steps
  <1>2. OneStarts /\ FileOfUser /\ UserOfFile /\ SeenIsCurrent /\ RemovesOfDead
    BY DEF LockInit, OneStarts, FileOfUser, UserOfFile, SeenIsCurrent, RemovesOfDead, UsesLibrary,
           NoneStarts, Starting
  <1>3. UserWasMet /\ RefusalMet
    BY DEF LockInit, UserWasMet, RefusalMet, NoneStarts, UsesLibrary, Starting
  <1> QED BY <1>1, <1>2, <1>3 DEF LockInv, Apart

LEMMA LockStep == LockInv /\ [LockNext]_lockVars => LockInv'
  <1> SUFFICES ASSUME LockInv, [LockNext]_lockVars PROVE LockInv'
    OBVIOUS
  <1>1. LockTypeOK /\ LockTypeOK'
    BY TypedStep DEF LockInv
  <1>2. CASE unseen'
    BY <1>1, <1>2 DEF LockInv
  <1>3. CASE ~unseen'
    <2>1. Apart
      BY <1>3 DEF LockInv, lockVars, LockNext, StartProcess, ReadLock, Judge, RemoveLock, GrabLock,
                  WritePid, StopProcess, ReleaseLock, Die, ReusePid
    <2>2. ASSUME NEW p \in Processes,
                 \/ StartProcess(p) \/ ReadLock(p) \/ Judge(p) \/ RemoveLock(p) \/ GrabLock(p)
                 \/ WritePid(p) \/ StopProcess(p) \/ ReleaseLock(p) \/ Die(p) \/ ReusePid(p)
          PROVE  Apart'
      BY <1>1, <1>3, <2>1, <2>2, StartProcessStep, ReadLockStep, JudgeStep, RemoveLockStep,
         GrabLockStep, WritePidStep, StopProcessStep, ReleaseLockStep, DieStep, ReusePidStep
    <2>3. CASE UNCHANGED lockVars
      <3>1. OneStarts' /\ FileOfUser' /\ UserOfFile'
        BY <2>1, <2>3
           DEF lockVars, Apart, OneStarts, FileOfUser, UserOfFile, NoneStarts, UsesLibrary
      <3>2. SeenIsCurrent' /\ RemovesOfDead'
        BY <2>1, <2>3 DEF lockVars, Apart, SeenIsCurrent, RemovesOfDead
      <3>3. UserWasMet' /\ RefusalMet'
        BY <2>1, <2>3 DEF lockVars, Apart, UserWasMet, RefusalMet, UsesLibrary
      <3> QED BY <1>1, <3>1, <3>2, <3>3, Zenon DEF Apart, LockInv
    <2> QED BY <1>1, <2>2, <2>3 DEF LockNext, LockInv
  <1> QED BY <1>2, <1>3

(* A refusal is the step of a process that found a file.                   *)
LEMMA RefusedMet ==
  ASSUME LockInv, [LockNext]_lockVars, NEW p \in Processes,
         TurnedAway(p), ~unseen
  PROVE  p \in met \cup deceived
  <1> USE DEF TurnedAway
  <1>1. LockTypeOK /\ RefusalMet
    BY DEF LockInv, Apart
  <1>2. ASSUME NEW q \in Processes, q # p,
               \/ StartProcess(q) \/ ReadLock(q) \/ Judge(q) \/ RemoveLock(q) \/ GrabLock(q)
               \/ WritePid(q) \/ StopProcess(q) \/ ReleaseLock(q) \/ Die(q) \/ ReusePid(q)
        PROVE  step'[p] = step[p]
    BY <1>1, <1>2 DEF LockTypeOK, Goto, StartProcess, ReadLock, Judge, RemoveLock, GrabLock,
                      WritePid, StopProcess, ReleaseLock, Die, ReusePid
  <1>3. CASE GrabLock(p)
    <2>1. lockfile = Missing => step'[p] = "writing"
      BY <1>1, <1>3 DEF GrabLock, Goto, LockTypeOK
    <2> QED BY <1>1, <2>1 DEF RefusalMet
  <1>4. ~StartProcess(p) /\ ~ReadLock(p) /\ ~Judge(p) /\ ~RemoveLock(p) /\ ~WritePid(p)
        /\ ~StopProcess(p) /\ ~ReleaseLock(p)
    BY DEF StartProcess, ReadLock, Judge, RemoveLock, WritePid, StopProcess, ReleaseLock
  <1>5. ~Die(p) /\ ~ReusePid(p)
    BY <1>1 DEF Die, ReusePid, Goto, LockTypeOK
  <1>6. ~UNCHANGED lockVars
    BY DEF lockVars
  <1> QED BY <1>2, <1>3, <1>4, <1>5, <1>6 DEF LockNext

(* For any number of processes that start, stop and die at any system      *)
(* call, as long as none starts beside one that starts too or that could   *)
(* not write its pid: one at a time uses the library, and one is refused   *)
(* only if it met another that used it, or took the pid of a dead one,     *)
(* which some process has by now, for that of a live owner.                *)
THEOREM LockKeepsApart == LockSpec => LockKept
  <1>1. LockInv => LockTypeOK /\ OneProcessRuns
    <2> SUFFICES ASSUME LockInv, ~unseen PROVE OneProcessRuns
      BY DEF LockInv, OneProcessRuns
    <2>1. FileOfUser
      BY DEF LockInv, Apart
    <2> QED BY <2>1 DEF FileOfUser, OneProcessRuns
  <1>2. LockInv /\ [LockNext]_lockVars =>
          [\A p \in Processes : TurnedAway(p) /\ ~unseen => p \in met \cup deceived]_lockVars
    BY RefusedMet
  <1> QED BY LockBegins, LockStep, <1>1, <1>2, PTL
          DEF LockSpec, LockKept, RefusedOnlyByLiveOwner


-----------------------------------------------------------------------------
(* The memory of the DMA engine                                            *)

\* What a block has: the area that its pages are addressed in, and what owns its frames.
Window(b) == dmaVirt[<<b, 0>>][1]
Owner(b) == IF memAllocMode = "pagemap" THEN dmaPMapBlk[b] ELSE dmaMboxBlk[b].handle

Blank(b) ==
  /\ dmaPMapBlk[b] = 0 /\ dmaMboxBlk[b] = NoMbox
  /\ \A n \in PageNos : dmaVirt[<<b, n>>] = NULL

Done(b) ==
  /\ Window(b) \in Areas
  /\ IF memAllocMode = "pagemap"
     THEN /\ Owner(b) \in Areas
          /\ \A n \in PageNos : space[<<Owner(b), n>>] = Anonymous
     ELSE /\ Owner(b) \in Memories /\ firmware[Owner(b)] = "locked"
          /\ dmaMboxBlk[b].virtual_addr = Window(b)
  /\ \A n \in PageNos :
       /\ dmaVirt[<<b, n>>] = <<Window(b), n>>
       /\ dmaBus[<<b, n>>] = Physical(Owner(b), n)
       /\ space[<<Window(b), n>>] = Physical(Owner(b), n)

\* Between the mapping of its memory and that of the window, which is reserved only.
Zapping(b) ==
  /\ memAllocMode = "pagemap"
  /\ Window(b) \in Areas /\ dmaPMapBlk[b] \in Areas /\ dmaPMapBlk[b] # Window(b)
  /\ \A n \in PageNos :
       /\ space[<<dmaPMapBlk[b], n>>] = Anonymous
       /\ dmaVirt[<<b, n>>] \in {NULL, <<Window(b), n>>}
       /\ \/ space[<<Window(b), n>>] = Nothing
          \/ /\ space[<<Window(b), n>>] = Physical(dmaPMapBlk[b], n)
             /\ dmaVirt[<<b, n>>] = <<Window(b), n>>
             /\ dmaBus[<<b, n>>] = Physical(dmaPMapBlk[b], n)

OwnersApart(bs) == \A b, c \in bs : Owner(b) = Owner(c) => b = c

\* How far a start has come.
Before(b) == {c \in Blocks : c < b}
After(b) == {c \in Blocks : c > b}
Started ==
  /\ Step \in {"block", "zap"} =>
       /\ \A c \in Before(Block) : Done(c)
       /\ \A c \in After(Block) : Blank(c)
       /\ OwnersApart(Before(Block))
  /\ Step = "block" => Blank(Block)
  /\ Step = "zap" => Zapping(Block) /\ \A c \in Before(Block) : Owner(c) # dmaPMapBlk[Block]
  /\ Step \in {"threads", "up"} => (\A c \in Blocks : Done(c)) /\ OwnersApart(Blocks)
\* How far a stop.
NoPages == \A p \in Pages : dmaVirt[p] = NULL
Stopped ==
  /\ Step \in {"down", "arrays"} => \A b \in Blocks : Blank(b)
  /\ Step \in {"blocks", "free", "files"} => NoPages
  /\ Step \in {"free", "files"} => \A b \in Blocks : dmaPMapBlk[b] = 0
  /\ Step = "free" => \A b \in After(Block) : dmaMboxBlk[b] = NoMbox
  /\ Step = "files" => \A b \in Blocks : dmaMboxBlk[b] = NoMbox
  /\ Step \in {"blocks", "free", "files", "down"} => registers \subseteq {"pads"}
\* A window is reserved before it is mapped.
Reserved ==
  Step = "zap" => memAllocMode = "pagemap" /\ Window(Block) \in Areas /\ dmaPMapBlk[Block] \in Areas
ModesApart ==
  \A b \in Blocks : IF memAllocMode = "pagemap" THEN dmaMboxBlk[b] = NoMbox
                                               ELSE dmaPMapBlk[b] = 0
ArraysKnown ==
  /\ Step = "blocks" => arrays \subseteq {"dmaPMapBlk", "dmaMboxBlk"}
  /\ Step = "free" => arrays \subseteq {"dmaMboxBlk"}
  /\ Step \in {"files", "down", "arrays"} => arrays = {}
  /\ Step \in {"block", "zap"} => "dmaMboxBlk" \in arrays \/ memAllocMode = "pagemap"
  /\ (\E b \in Blocks : dmaMboxBlk[b] # NoMbox) => "dmaMboxBlk" \in arrays

\* Whatever is mapped is another thread's or one that the library knows of; and so are
\* the memories of the firmware.
SpaceKnown ==
  \A a \in Addresses :
    \/ space[a] = Nothing
    \/ space[a] = Foreign
    \/ space[a] = Anonymous /\ \E b \in Blocks : dmaPMapBlk[b] = a[1]
    \/ space[a] \in Frames /\ \E p \in Pages : dmaVirt[p] = a
FirmwareKnown ==
  ~lost => \A m \in Memories : firmware[m] # "free" => \E b \in Blocks : dmaMboxBlk[b].handle = m
\* The others and the library keep apart.
Owned(q) ==
  \/ \E b \in Blocks : dmaPMapBlk[b] = q \/ dmaMboxBlk[b].virtual_addr = q
  \/ \E p \in Pages : dmaVirt[p][1] = q
AreasApart == \A q \in theirs : ~Owned(q) /\ \A n \in PageNos : space[<<q, n>>] = Foreign

FilesKnown ==
  /\ \A d \in MemoryFds : descriptors[d] = "library" =>
       \/ Step \in {"block", "zap"} /\ d = (IF memAllocMode = "pagemap" THEN fdPmap ELSE fdMbox)
       \/ Step = "free" /\ d = fdMbox
  /\ Step \in {"down", "arrays"} => fdPmap = NoFile /\ fdMbox = NoFile
  /\ fdMbox # NoFile => Step \in {"free", "files"} \/ "dmaMboxBlk" \in arrays
  /\ memAllocMode = "pagemap" => "dmaMboxBlk" \notin arrays /\ fdMbox = NoFile
FilesApart ==
  ~reused => /\ \A d \in theirFds : descriptors[d] = "others"
             /\ fdPmap \notin theirFds
             /\ Step \in {"block", "zap", "free", "files"} => fdMbox \notin theirFds

EngineKnown ==
  /\ restarting => stalled
  /\ Step = "up" /\ ~active => stalled
  /\ active /\ ~stalled => Step = "up"

\* The invariant.  What it says of mappings and files needs the others quiet; how far a
\* start or a stop has come in the tables does not.
MemoryInv ==
  /\ MemoryTypeOK /\ ModesApart /\ ArraysKnown /\ EngineKnown /\ Stopped /\ Reserved
  /\ quiet => Started /\ SpaceKnown /\ FirmwareKnown /\ AreasApart /\ FilesKnown /\ FilesApart

MemoryPlain == MemoryTypeOK /\ ModesApart /\ ArraysKnown /\ Stopped /\ Reserved
MemoryQuiet == Started /\ SpaceKnown /\ FirmwareKnown /\ AreasApart /\ FilesKnown /\ FilesApart

\* There is a first and a last block, and no number stands for a thing and for none.
LEMMA MemoryConstants ==
  /\ DmaBlocks \in Nat \ {0} /\ PAGES_PER_BLOCK \in Nat \ {0} /\ MaxTrys \in Nat \ {0}
  /\ 0 \in PageNos /\ 0 \in Blocks /\ DmaBlocks - 1 \in Blocks /\ Blocks \subseteq Nat
  /\ 0 \notin Areas /\ 0 \notin Memories /\ NoFile \notin MemoryFds /\ Areas \cap Memories = {}
  BY DmaMemoryAssumption DEF PageNos, Blocks, NoFile

\* What a page maps tells what it is, and of which memory.
LEMMA MappingsDiffer ==
  /\ Nothing # Anonymous /\ Nothing # Foreign /\ Anonymous # Foreign
  /\ \A m, n : Physical(m, n) \notin {Nothing, Anonymous, Foreign}
  /\ Nothing \notin Frames /\ Anonymous \notin Frames /\ Foreign \notin Frames
  /\ \A m, n, k, l : Physical(m, n) = Physical(k, l) => m = k /\ n = l
  /\ \A m \in Areas \cup Memories, n \in PageNos : Physical(m, n) \in Frames
  /\ NULL \notin Addresses /\ NULL[1] = 0 /\ NULL[1] \notin Areas
  /\ \A q \in Areas, n \in PageNos : <<q, n>> \in Addresses /\ <<q, n>>[1] = q
  BY MemoryConstants DEF Nothing, Anonymous, Foreign, Physical, Frames, NULL, Addresses

\* A page is a block and a number in it.
LEMMA PagesArePairs ==
  /\ \A p \in Pages : \E b \in Blocks, n \in PageNos : p = <<b, n>>
  /\ \A b \in Blocks, n \in PageNos : <<b, n>> \in Pages
  BY DEF Pages

\* A block that is done stays so, if nobody touches what it has.
LEMMA DoneKeeps ==
  ASSUME NEW b \in Blocks, Done(b), memAllocMode' = memAllocMode,
         dmaPMapBlk'[b] = dmaPMapBlk[b], dmaMboxBlk'[b] = dmaMboxBlk[b],
         \A n \in PageNos : /\ dmaVirt'[<<b, n>>] = dmaVirt[<<b, n>>]
                            /\ dmaBus'[<<b, n>>] = dmaBus[<<b, n>>]
                            /\ space'[<<Window(b), n>>] = space[<<Window(b), n>>]
                            /\ Owner(b) \in Areas => space'[<<Owner(b), n>>] = space[<<Owner(b), n>>],
         Owner(b) \in Memories => firmware'[Owner(b)] = firmware[Owner(b)]
  PROVE  Done(b)' /\ Owner(b)' = Owner(b)
<1>1. Owner(b)' = Owner(b)
  BY DEF Owner
<1>2. Window(b)' = Window(b)
  BY MemoryConstants DEF Window
<1>3. 0 \in PageNos
  BY MemoryConstants
<1>4. \A n \in PageNos : /\ dmaVirt'[<<b, n>>] = <<Window(b), n>>
                         /\ dmaBus'[<<b, n>>] = Physical(Owner(b), n)
                         /\ space'[<<Window(b), n>>] = Physical(Owner(b), n)
  BY DEF Done
<1>5. IF memAllocMode = "pagemap"
      THEN /\ Owner(b) \in Areas
           /\ \A n \in PageNos : space'[<<Owner(b), n>>] = Anonymous
      ELSE /\ Owner(b) \in Memories /\ firmware'[Owner(b)] = "locked"
           /\ dmaMboxBlk'[b].virtual_addr = Window(b)
  BY DEF Done
<1>6. Window(b) \in Areas
  BY DEF Done
<1> QED BY <1>1, <1>2, <1>4, <1>5, <1>6 DEF Done, PageNos, Physical

-----------------------------------------------------------------------------
\* The engine starts, stops and is started again: nothing is mapped or opened.
Onward ==
  \/ memoryAt' = memoryAt
  \/ /\ Step \in {"threads", "up", "killed"} /\ Step' \in {"up", "killed", "pages"}
     /\ Step' = "up" => Step = "threads"
     /\ memoryAt' \in [step : {"up", "killed", "pages"}, block : Blocks, try : 0 .. MaxTrys - 1]

\* A step of the engine or of its thread that maps, opens and allocates nothing.
LEMMA UntouchedKeeps ==
  ASSUME MemoryInv, Untouched, UNCHANGED others, Onward,
         active' \in BOOLEAN, restarting' \in BOOLEAN, stalled' \in BOOLEAN
  PROVE  MemoryPlain' /\ (quiet' => MemoryQuiet')
<1>1. UNCHANGED <<memAllocMode, registers, arrays, space, dmaVirt, dmaBus, dmaPMapBlk, dmaMboxBlk,
                  firmware, fdPmap, fdMbox, descriptors, lost, theirs, theirFds, quiet, reused>>
  BY DEF Untouched, tables, others
<1>2. MemoryTypeOK'
  BY <1>1 DEF MemoryInv, MemoryTypeOK, Onward
<1>3. ModesApart'
  BY <1>1 DEF MemoryInv, ModesApart, NoMbox
<1>4. ArraysKnown'
  BY <1>1 DEF MemoryInv, ArraysKnown, Onward, Step, NoMbox
<1>5. Stopped'
  BY <1>1 DEF MemoryInv, Stopped, Onward, Step, Block, NoPages, Blank, NoMbox, After, NULL
<1>7. Reserved'
  BY <1>1 DEF MemoryInv, Reserved, Onward, Step, Block, Window
<1>6. ASSUME quiet' PROVE MemoryQuiet'
  <2>1. MemoryQuiet
    BY <1>1, <1>6 DEF MemoryInv, MemoryQuiet
  <2>2. \A b \in Blocks : (Done(b) => Done(b)') /\ Owner(b)' = Owner(b)
    BY <1>1 DEF Done, Owner, Window
  <2>3. Started'
    <3>1. CASE memoryAt' = memoryAt
      <4>1. Step' = Step /\ Block' = Block
        BY <3>1 DEF Step, Block
      <4> QED BY <1>1, <2>1, <2>2, <4>1
              DEF MemoryQuiet, Started, Before, After, OwnersApart, Blank, Zapping, Window, NULL, NoMbox
    <3>2. CASE /\ Step \in {"threads", "up", "killed"} /\ Step' \in {"up", "killed", "pages"}
               /\ Step' = "up" => Step = "threads"
      BY <2>1, <2>2, <3>2 DEF MemoryQuiet, Started, OwnersApart
    <3> QED BY <3>1, <3>2 DEF Onward
  <2>4. SpaceKnown' /\ FirmwareKnown' /\ AreasApart'
    BY <1>1, <2>1 DEF MemoryQuiet, SpaceKnown, FirmwareKnown, AreasApart, Owned
  <2>5. FilesKnown' /\ FilesApart'
    BY <1>1, <2>1 DEF MemoryQuiet, FilesKnown, FilesApart, Onward, Step, NoFile
  <2> QED BY <2>3, <2>4, <2>5 DEF MemoryQuiet
<1> QED BY <1>2, <1>3, <1>4, <1>5, <1>6, <1>7 DEF MemoryPlain

\* The end of a start, the engine and the alert thread.
LEMMA EngineLeavesMemory ==
  ASSUME MemoryInv, initDMAgo \/ EngineStops \/ SeesStop \/ Restart \/ TerminateEngine \/ JoinAlert
  PROVE  MemoryInv'
<1>1. Untouched /\ UNCHANGED others
  BY DEF initDMAgo, EngineStops, SeesStop, Restart, TerminateEngine, JoinAlert
<1>2. active \in BOOLEAN /\ restarting \in BOOLEAN /\ stalled \in BOOLEAN /\ 0 \in 0 .. MaxTrys - 1
  BY MemoryConstants DEF MemoryInv, MemoryTypeOK
<1>3. active' \in BOOLEAN /\ restarting' \in BOOLEAN /\ stalled' \in BOOLEAN
  BY <1>2 DEF initDMAgo, EngineStops, SeesStop, Restart, TerminateEngine, JoinAlert, engine
<1>4. Onward
  BY <1>2, MemoryConstants DEF initDMAgo, EngineStops, SeesStop, Restart, TerminateEngine,
      JoinAlert, Onward, GiveUpStart, StepAt, Step
<1>5. EngineKnown'
  BY DEF initDMAgo, EngineStops, SeesStop, Restart, TerminateEngine, JoinAlert, GiveUpStart, StepAt,
         Step, MemoryInv, EngineKnown, engine
<1>6. MemoryPlain' /\ (quiet' => MemoryQuiet')
  BY <1>1, <1>3, <1>4, UntouchedKeeps
<1> QED BY <1>5, <1>6 DEF MemoryInv, MemoryPlain, MemoryQuiet

-----------------------------------------------------------------------------
\* A library that rests owns no page that maps nothing: whatever else is mapped there
\* is not of its memory.
LEMMA RestingOwnsWhatIsMapped ==
  ASSUME MemoryInv, quiet, Resting, NEW q \in Areas, FreeArea(q)
  PROVE  ~Owned(q)
<1>1. MemoryQuiet /\ Stopped /\ ModesApart
  BY DEF MemoryInv, MemoryQuiet
<1>2. q # 0 /\ 0 \in PageNos
  BY MemoryConstants
<1>3. space[<<q, 0>>] = Nothing
  BY <1>2 DEF FreeArea
<1>4. CASE Step = "down"
  <2>1. \A b \in Blocks : Blank(b)
    BY <1>1, <1>4 DEF Stopped
  <2>2. \A p \in Pages : dmaVirt[p][1] = 0
    BY <2>1 DEF Blank, Pages, NULL
  <2>3. \A b \in Blocks : dmaPMapBlk[b] = 0 /\ dmaMboxBlk[b].virtual_addr = 0
    BY <2>1 DEF Blank, NoMbox
  <2> QED BY <1>2, <2>2, <2>3 DEF Owned
<1>5. CASE Step \in {"threads", "up"}
  <2>1. \A b \in Blocks : Done(b)
    BY <1>1, <1>5 DEF MemoryQuiet, Started
  <2>2. \A b \in Blocks : /\ space[<<Window(b), 0>>] = Physical(Owner(b), 0)
                          /\ \A n \in PageNos : dmaVirt[<<b, n>>] = <<Window(b), n>>
    BY <1>2, <2>1 DEF Done
  <2>3. \A b \in Blocks : Window(b) # q
    BY <1>3, <2>2, MappingsDiffer
  <2>4. \A p \in Pages : dmaVirt[p][1] # q
    <3> SUFFICES ASSUME NEW p \in Pages PROVE dmaVirt[p][1] # q
      OBVIOUS
    <3>1. PICK b \in Blocks, n \in PageNos : p = <<b, n>>
      BY PagesArePairs
    <3>2. dmaVirt[p] = <<Window(b), n>>
      BY <2>2, <3>1
    <3> QED BY <2>3, <3>2
  <2>5. \A b \in Blocks : dmaPMapBlk[b] # q /\ dmaMboxBlk[b].virtual_addr # q
    <3> SUFFICES ASSUME NEW b \in Blocks PROVE dmaPMapBlk[b] # q /\ dmaMboxBlk[b].virtual_addr # q
      OBVIOUS
    <3>1. CASE memAllocMode = "pagemap"
      <4>1. dmaMboxBlk[b].virtual_addr = 0
        BY <1>1, <3>1 DEF ModesApart, NoMbox
      <4>2. space[<<dmaPMapBlk[b], 0>>] = Anonymous
        BY <1>2, <2>1, <3>1 DEF Done, Owner
      <4> QED BY <1>2, <1>3, <4>1, <4>2, MappingsDiffer
    <3>2. CASE memAllocMode # "pagemap"
      <4>1. dmaPMapBlk[b] = 0 /\ dmaMboxBlk[b].virtual_addr = Window(b)
        BY <1>1, <2>1, <3>2 DEF ModesApart, Done
      <4> QED BY <1>2, <2>3, <4>1
    <3> QED BY <3>1, <3>2
  <2> QED BY <2>4, <2>5 DEF Owned
<1> QED BY <1>4, <1>5 DEF Resting

\* A block that is done has its pages from nobody else.
LEMMA DoneIsOwned ==
  ASSUME NEW b \in Blocks, Done(b)
  PROVE  Owned(Window(b)) /\ (Owner(b) \in Areas => Owned(Owner(b)))
<1>1. <<b, 0>> \in Pages /\ dmaVirt[<<b, 0>>][1] = Window(b)
  BY MemoryConstants DEF Pages, Window
<1>2. Owner(b) \in Areas => Owner(b) = dmaPMapBlk[b]
  BY MemoryConstants DEF Done, Owner
<1> QED BY <1>1, <1>2 DEF Owned

\* The other threads touch neither what the library owns nor its memory of the firmware.
LEMMA OthersLeave ==
  ASSUME MemoryInv, quiet, quiet',
         UNCHANGED <<memAllocMode, memoryAt, dmaVirt, dmaBus, dmaPMapBlk, dmaMboxBlk, firmware, lost>>,
         NEW q \in Areas, ~Owned(q),
         NEW m \in {Nothing, Foreign},
         space' = [a \in Addresses |-> IF a[1] = q THEN m ELSE space[a]]
  PROVE  Started' /\ SpaceKnown' /\ FirmwareKnown'
<1>1. MemoryQuiet
  BY DEF MemoryInv, MemoryQuiet
<1>2. \A r, n : r \in Areas /\ n \in PageNos /\ r # q => space'[<<r, n>>] = space[<<r, n>>]
  BY MappingsDiffer
<1>3. \A b \in Blocks : Done(b) => Done(b)' /\ Owner(b)' = Owner(b)
  <2> SUFFICES ASSUME NEW b \in Blocks, Done(b) PROVE Done(b)' /\ Owner(b)' = Owner(b)
    OBVIOUS
  <2>1. Window(b) # q /\ (Owner(b) \in Areas => Owner(b) # q) /\ Window(b) \in Areas
    BY DoneIsOwned DEF Done
  <2>2. \A n \in PageNos : /\ space'[<<Window(b), n>>] = space[<<Window(b), n>>]
                           /\ Owner(b) \in Areas => space'[<<Owner(b), n>>] = space[<<Owner(b), n>>]
    BY <1>2, <2>1
  <2> QED BY <2>2, DoneKeeps
<1>4. \A b \in Blocks : Zapping(b) => Zapping(b)'
  <2> SUFFICES ASSUME NEW b \in Blocks, Zapping(b) PROVE Zapping(b)'
    OBVIOUS
  <2>1. Window(b) \in Areas /\ dmaPMapBlk[b] \in Areas /\ Window(b) # q /\ dmaPMapBlk[b] # q
    BY MemoryConstants DEF Zapping, Owned, Window, Pages
  <2>2. \A n \in PageNos : /\ space'[<<Window(b), n>>] = space[<<Window(b), n>>]
                           /\ space'[<<dmaPMapBlk[b], n>>] = space[<<dmaPMapBlk[b], n>>]
    BY <1>2, <2>1
  <2> QED BY <2>2 DEF Zapping, Window, NULL, Nothing, Anonymous, Physical, PageNos
<1>5. \A b \in Blocks : Blank(b)' <=> Blank(b)
  BY DEF Blank, NULL, NoMbox
<1>6. Step' = Step /\ Block' = Block /\ \A b \in Blocks : Owner(b)' = Owner(b)
  BY DEF Step, Block, Owner
<1>7. Started'
  <2>1. Step \in {"block", "zap"} => Block \in Blocks
    BY DEF MemoryInv, MemoryTypeOK, Block
  <2>2. Started
    BY <1>1 DEF MemoryQuiet
  <2> QED BY <1>3, <1>4, <1>5, <1>6, <2>1, <2>2 DEF Started, Before, After, OwnersApart
<1>8. SpaceKnown'
  BY <1>1, MappingsDiffer DEF MemoryQuiet, SpaceKnown
<1>9. FirmwareKnown'
  BY <1>1 DEF MemoryQuiet, FirmwareKnown
<1> QED BY <1>7, <1>8, <1>9

\* The other threads map and unmap, open and close.
LEMMA OthersKeepInv ==
  ASSUME MemoryInv,
         (\E q \in Areas : Others(TheyMap(q)) \/ Others(TheyUnmap(q)))
           \/ (\E d \in MemoryFds : Others(TheyOpen(d)) \/ Others(TheyClose(d)))
  PROVE  MemoryInv'
<1>1. UNCHANGED <<memAllocMode, memoryAt, registers, arrays, dmaVirt, dmaBus, dmaPMapBlk, dmaMboxBlk,
                  firmware, fdPmap, fdMbox, active, restarting, stalled, lost>>
  BY DEF Others, tables, engine
<1>2. Step' = Step /\ Block' = Block
  BY <1>1 DEF Step, Block
<1>3. ModesApart' /\ ArraysKnown' /\ Stopped' /\ EngineKnown' /\ Reserved'
  BY <1>1, <1>2 DEF MemoryInv, ModesApart, ArraysKnown, Stopped, EngineKnown, Reserved, NoMbox, NoPages,
                    Blank, After, NULL, Window
<1>4. MemoryInv /\ MemoryTypeOK
  BY DEF MemoryInv
<1>5. ASSUME NEW q \in Areas, Others(TheyMap(q))
      PROVE  MemoryTypeOK' /\ (quiet' => MemoryQuiet')
  <2>1. /\ FreeArea(q) /\ theirs' = theirs \cup {q} /\ quiet' = (quiet /\ Resting)
        /\ UNCHANGED <<descriptors, theirFds, reused>>
        /\ space' = [a \in Addresses |-> IF a[1] = q THEN [n \in PageNos |-> Foreign][a[2]] ELSE space[a]]
    BY <1>5 DEF Others, TheyMap, Mapped
  <2>2. space' = [a \in Addresses |-> IF a[1] = q THEN Foreign ELSE space[a]]
    BY <2>1 DEF Addresses
  <2>3. MemoryTypeOK'
    BY <1>1, <1>4, <2>1, <2>2 DEF MemoryTypeOK
  <2>4. ASSUME quiet' PROVE MemoryQuiet'
    <3>1. quiet /\ Resting /\ MemoryQuiet
      BY <1>4, <2>1, <2>4 DEF MemoryInv, MemoryQuiet
    <3>2. ~Owned(q)
      BY <2>1, <3>1, RestingOwnsWhatIsMapped
    <3>3. Started' /\ SpaceKnown' /\ FirmwareKnown'
      BY <1>1, <2>2, <2>4, <3>1, <3>2, OthersLeave
    <3>4. \A r : Owned(r)' <=> Owned(r)
      BY <1>1 DEF Owned
    <3>5. AreasApart'
      <4> SUFFICES ASSUME NEW r \in theirs'
                   PROVE  ~Owned(r)' /\ \A n \in PageNos : space'[<<r, n>>] = Foreign
        BY DEF AreasApart, PageNos, Foreign
      <4>1. r \in Areas
        BY <2>3 DEF MemoryTypeOK
      <4>2. CASE r = q
        BY <2>2, <3>2, <3>4, <4>2, MappingsDiffer
      <4>3. CASE r # q
        <5>1. r \in theirs /\ ~Owned(r) /\ \A n \in PageNos : space[<<r, n>>] = Foreign
          BY <2>1, <3>1, <4>3 DEF MemoryQuiet, AreasApart
        <5> QED BY <2>2, <3>4, <4>1, <4>3, <5>1, MappingsDiffer
      <4> QED BY <4>2, <4>3
    <3>6. FilesKnown' /\ FilesApart'
      BY <1>1, <1>2, <2>1, <3>1 DEF MemoryQuiet, FilesKnown, FilesApart, NoFile
    <3> QED BY <3>3, <3>5, <3>6 DEF MemoryQuiet
  <2> QED BY <2>3, <2>4
<1>6. ASSUME NEW q \in Areas, Others(TheyUnmap(q))
      PROVE  MemoryTypeOK' /\ (quiet' => MemoryQuiet')
  <2>1. /\ q \in theirs /\ theirs' = theirs \ {q}
        /\ UNCHANGED <<descriptors, theirFds, quiet, reused>>
        /\ space' = [a \in Addresses |-> IF a \in PagesOf(q) THEN Nothing ELSE space[a]]
    BY <1>6 DEF Others, TheyUnmap, Unmapped
  <2>2. space' = [a \in Addresses |-> IF a[1] = q THEN Nothing ELSE space[a]]
    <3>1. \A a \in Addresses : a \in PagesOf(q) <=> a[1] = q
      BY DEF Addresses, PagesOf
    <3> QED BY <2>1, <3>1
  <2>3. MemoryTypeOK'
    BY <1>1, <1>4, <2>1, <2>2 DEF MemoryTypeOK
  <2>4. ASSUME quiet' PROVE MemoryQuiet'
    <3>1. quiet /\ MemoryQuiet
      BY <1>4, <2>1, <2>4 DEF MemoryInv, MemoryQuiet
    <3>2. ~Owned(q)
      BY <2>1, <3>1 DEF MemoryQuiet, AreasApart
    <3>3. Started' /\ SpaceKnown' /\ FirmwareKnown'
      BY <1>1, <2>2, <2>4, <3>1, <3>2, OthersLeave
    <3>4. \A r : Owned(r)' <=> Owned(r)
      BY <1>1 DEF Owned
    <3>5. AreasApart'
      <4> SUFFICES ASSUME NEW r \in theirs'
                   PROVE  ~Owned(r)' /\ \A n \in PageNos : space'[<<r, n>>] = Foreign
        BY DEF AreasApart, PageNos, Foreign
      <4>1. r \in Areas /\ r # q /\ r \in theirs
        BY <2>1, <2>3 DEF MemoryTypeOK
      <4>2. ~Owned(r) /\ \A n \in PageNos : space[<<r, n>>] = Foreign
        BY <3>1, <4>1 DEF MemoryQuiet, AreasApart
      <4> QED BY <2>2, <3>4, <4>1, <4>2, MappingsDiffer
    <3>6. FilesKnown' /\ FilesApart'
      BY <1>1, <1>2, <2>1, <3>1 DEF MemoryQuiet, FilesKnown, FilesApart, NoFile
    <3> QED BY <3>3, <3>5, <3>6 DEF MemoryQuiet
  <2> QED BY <2>3, <2>4
<1>7. ASSUME NEW d \in MemoryFds, Others(TheyOpen(d)) \/ Others(TheyClose(d))
      PROVE  MemoryTypeOK' /\ (quiet' => MemoryQuiet')
  <2>1. UNCHANGED <<space, theirs>> /\ (quiet' => quiet)
    <3>1. CASE Others(TheyOpen(d))
      BY <3>1 DEF Others, TheyOpen
    <3>2. CASE Others(TheyClose(d))
      BY <3>2 DEF Others, TheyClose
    <3> QED BY <1>7, <3>1, <3>2
  <2>2. \/ /\ descriptors[d] = "nobody" /\ descriptors' = [descriptors EXCEPT ![d] = "others"]
           /\ theirFds' = theirFds \cup {d} /\ quiet' = (quiet /\ Resting)
           /\ reused' = (reused \/ d = fdPmap)
        \/ /\ d \in theirFds /\ theirFds' = theirFds \ {d} /\ quiet' = quiet /\ reused' = reused
           /\ descriptors' = [e \in MemoryFds |-> IF e = d THEN "nobody" ELSE descriptors[e]]
    BY <1>7 DEF Others, TheyOpen, TheyClose, Closed
  <2>3. MemoryTypeOK'
    <3>1. /\ descriptors \in [MemoryFds -> {"nobody", "library", "others"}]
          /\ theirFds \subseteq MemoryFds /\ quiet \in BOOLEAN /\ reused \in BOOLEAN
      BY <1>4 DEF MemoryTypeOK
    <3>2. /\ descriptors' \in [MemoryFds -> {"nobody", "library", "others"}]
          /\ theirFds' \subseteq MemoryFds
      BY <2>2, <3>1
    <3>3. quiet' \in BOOLEAN /\ reused' \in BOOLEAN
      BY <2>2, <3>1
    <3> QED BY <1>1, <1>4, <2>1, <3>2, <3>3 DEF MemoryTypeOK
  <2>4. ASSUME quiet' PROVE MemoryQuiet'
    <3>1. quiet /\ MemoryQuiet
      BY <1>4, <2>1, <2>4 DEF MemoryInv, MemoryQuiet
    <3>2. \A b \in Blocks : Done(b)' <=> Done(b)
      BY <1>1, <2>1 DEF Done, Owner, Window, PageNos, Physical, Anonymous
    <3>3. \A b \in Blocks : (Zapping(b)' <=> Zapping(b)) /\ (Blank(b)' <=> Blank(b))
                            /\ Owner(b)' = Owner(b)
      BY <1>1, <2>1 DEF Zapping, Window, Owner, Blank, PageNos, Physical, Anonymous, Nothing, NULL, NoMbox
    <3>4. Step \in {"block", "zap"} => Block \in Blocks
      BY <1>4 DEF MemoryTypeOK, Block
    <3>5. Started'
      BY <1>1, <1>2, <3>1, <3>2, <3>3, <3>4 DEF MemoryQuiet, Started, Before, After, OwnersApart
    <3>6. SpaceKnown' /\ FirmwareKnown' /\ AreasApart'
      BY <1>1, <2>1, <3>1 DEF MemoryQuiet, SpaceKnown, FirmwareKnown, AreasApart, Owned
    <3>7. descriptors \in [MemoryFds -> {"nobody", "library", "others"}]
          /\ theirFds \subseteq MemoryFds
      BY <1>4 DEF MemoryTypeOK
    <3>8. \A e \in MemoryFds : descriptors'[e] = "library" => descriptors[e] = "library"
      BY <2>2, <3>7
    <3>9. FilesKnown'
      BY <1>1, <1>2, <3>1, <3>8 DEF MemoryQuiet, FilesKnown, NoFile
    <3>10. FilesApart'
      <4> SUFFICES ASSUME ~reused'
                   PROVE  /\ \A e \in theirFds' : descriptors'[e] = "others"
                          /\ fdPmap \notin theirFds'
                          /\ Step \in {"block", "zap", "free", "files"} => fdMbox \notin theirFds'
        BY <1>1, <1>2 DEF FilesApart
      <4>1. ~reused
        BY <2>2
      <4>2. /\ \A e \in theirFds : descriptors[e] = "others"
            /\ fdPmap \notin theirFds
            /\ Step \in {"block", "zap", "free", "files"} => fdMbox \notin theirFds
        BY <3>1, <4>1 DEF MemoryQuiet, FilesApart
      <4>3. CASE /\ descriptors' = [descriptors EXCEPT ![d] = "others"]
                 /\ theirFds' = theirFds \cup {d} /\ quiet' = (quiet /\ Resting)
                 /\ reused' = (reused \/ d = fdPmap)
        BY <2>4, <3>7, <4>2, <4>3 DEF Resting
      <4>4. CASE /\ theirFds' = theirFds \ {d}
                 /\ descriptors' = [e \in MemoryFds |-> IF e = d THEN "nobody" ELSE descriptors[e]]
        BY <3>7, <4>2, <4>4
      <4> QED BY <2>2, <4>3, <4>4
    <3> QED BY <3>5, <3>6, <3>9, <3>10 DEF MemoryQuiet
  <2> QED BY <2>3, <2>4
<1> QED BY <1>3, <1>5, <1>6, <1>7 DEF MemoryInv, MemoryQuiet

-----------------------------------------------------------------------------
\* Where a start or a stop goes on.
LEMMA StepIsAt ==
  ASSUME NEW s, NEW b, NEW n, memoryAt' = StepAt(s, b, n)
  PROVE  Step' = s /\ Block' = b /\ memoryAt' = [step |-> s, block |-> b, try |-> n]
  BY DEF StepAt, Step, Block

\* A step of the start that works on one block: it maps what was free, and all of that
\* is the block's.
LEMMA BlockStep ==
  ASSUME MemoryInv, quiet,
         UNCHANGED <<memAllocMode, theirs, lost>>,
         NEW b \in Blocks,
         \A a \in Addresses :
           \/ space'[a] = space[a]
           \/ /\ space[a] = Nothing
              /\ \/ space'[a] = Anonymous /\ dmaPMapBlk'[b] = a[1]
                 \/ space'[a] \in Frames /\ \E p \in Pages : dmaVirt'[p] = a,
         \A c \in Blocks \ {b} :
           /\ dmaPMapBlk'[c] = dmaPMapBlk[c] /\ dmaMboxBlk'[c] = dmaMboxBlk[c]
           /\ \A n \in PageNos : /\ dmaVirt'[<<c, n>>] = dmaVirt[<<c, n>>]
                                 /\ dmaBus'[<<c, n>>] = dmaBus[<<c, n>>],
         dmaPMapBlk[b] = 0 \/ dmaPMapBlk'[b] = dmaPMapBlk[b],
         \A n \in PageNos : dmaVirt[<<b, n>>] = NULL \/ dmaVirt'[<<b, n>>] = dmaVirt[<<b, n>>],
         \A q \in Areas :
           (\/ dmaPMapBlk'[b] = q \/ dmaMboxBlk'[b].virtual_addr = q
            \/ \E n \in PageNos : dmaVirt'[<<b, n>>][1] = q) => Owned(q) \/ FreeArea(q),
         \A m \in Memories : \/ firmware'[m] = firmware[m]
                             \/ firmware[m] = "free" /\ dmaMboxBlk'[b].handle = m,
         dmaMboxBlk[b].handle = 0 \/ dmaMboxBlk'[b] = dmaMboxBlk[b]
  PROVE  /\ \A c \in Blocks \ {b} : /\ Done(c) => Done(c)'
                                    /\ Blank(c) => Blank(c)'
                                    /\ Owner(c)' = Owner(c)
         /\ SpaceKnown' /\ FirmwareKnown' /\ AreasApart'
<1>1. MemoryQuiet /\ MemoryTypeOK
  BY DEF MemoryInv, MemoryQuiet
<1>2. \A c \in Blocks \ {b} : Owner(c)' = Owner(c)
  BY DEF Owner
<1>3. \A c \in Blocks \ {b} : Blank(c) => Blank(c)'
  BY DEF Blank, NULL, NoMbox, PageNos
<1>4. ASSUME NEW c \in Blocks \ {b}, Done(c) PROVE Done(c)'
  <2>1. \A n \in PageNos : /\ space[<<Window(c), n>>] # Nothing
                           /\ Owner(c) \in Areas => space[<<Owner(c), n>>] # Nothing
    <3> SUFFICES ASSUME NEW n \in PageNos
                 PROVE  /\ space[<<Window(c), n>>] # Nothing
                        /\ Owner(c) \in Areas => space[<<Owner(c), n>>] # Nothing
      OBVIOUS
    <3>1. space[<<Window(c), n>>] = Physical(Owner(c), n)
      BY <1>4 DEF Done
    <3>2. Owner(c) \in Areas => space[<<Owner(c), n>>] = Anonymous
      BY <1>4, MemoryConstants DEF Done
    <3> QED BY <3>1, <3>2, MappingsDiffer
  <2>2. Window(c) \in Areas
    BY <1>4 DEF Done
  <2>3. \A n \in PageNos : /\ space'[<<Window(c), n>>] = space[<<Window(c), n>>]
                           /\ Owner(c) \in Areas => space'[<<Owner(c), n>>] = space[<<Owner(c), n>>]
    BY <2>1, <2>2, MappingsDiffer
  <2>4. Owner(c) \in Memories => firmware'[Owner(c)] = firmware[Owner(c)]
    <3> SUFFICES ASSUME Owner(c) \in Memories PROVE firmware'[Owner(c)] = firmware[Owner(c)]
      OBVIOUS
    <3>1. firmware[Owner(c)] = "locked"
      BY <1>4, MemoryConstants DEF Done
    <3> QED BY <3>1
  <2> QED BY <1>4, <2>3, <2>4, DoneKeeps
<1>5. SpaceKnown'
  <2> SUFFICES ASSUME NEW a \in Addresses
               PROVE  \/ space'[a] \in {Nothing, Foreign}
                      \/ space'[a] = Anonymous /\ \E c \in Blocks : dmaPMapBlk'[c] = a[1]
                      \/ space'[a] \in Frames /\ \E p \in Pages : dmaVirt'[p] = a
    BY DEF SpaceKnown, Addresses, Pages, Frames, Nothing, Foreign, Anonymous
  <2>1. CASE space'[a] = space[a]
    <3>1. ASSUME NEW c \in Blocks, dmaPMapBlk[c] = a[1] PROVE dmaPMapBlk'[c] = a[1]
      <4>1. a[1] # 0
        BY MemoryConstants DEF Addresses
      <4> QED BY <3>1, <4>1
    <3>2. ASSUME NEW p \in Pages, dmaVirt[p] = a PROVE dmaVirt'[p] = a
      <4>1. PICK c \in Blocks, n \in PageNos : p = <<c, n>>
        BY PagesArePairs
      <4>2. a # NULL
        BY MappingsDiffer
      <4> QED BY <3>2, <4>1, <4>2
    <3> QED BY <1>1, <2>1, <3>1, <3>2 DEF MemoryQuiet, SpaceKnown
  <2>2. CASE space'[a] # space[a]
    BY <2>2
  <2> QED BY <2>1, <2>2
<1>6. FirmwareKnown'
  <2> SUFFICES ASSUME ~lost, NEW m \in Memories, firmware'[m] # "free"
               PROVE  \E c \in Blocks : dmaMboxBlk'[c].handle = m
    BY DEF FirmwareKnown
  <2>1. CASE firmware'[m] = firmware[m]
    <3>1. PICK c \in Blocks : dmaMboxBlk[c].handle = m
      BY <1>1, <2>1 DEF MemoryQuiet, FirmwareKnown
    <3>2. m # 0
      BY MemoryConstants
    <3> QED BY <3>1, <3>2
  <2>2. CASE firmware'[m] # firmware[m]
    BY <2>2
  <2> QED BY <2>1, <2>2
<1>7. AreasApart'
  <2> SUFFICES ASSUME NEW q \in theirs
               PROVE  ~Owned(q)' /\ \A n \in PageNos : space'[<<q, n>>] = Foreign
    BY DEF AreasApart, PageNos, Foreign
  <2>1. q \in Areas /\ ~Owned(q) /\ \A n \in PageNos : space[<<q, n>>] = Foreign
    BY <1>1 DEF MemoryQuiet, AreasApart, MemoryTypeOK
  <2>2. \A n \in PageNos : space'[<<q, n>>] = Foreign
    BY <2>1, MappingsDiffer
  <2>3. ~FreeArea(q)
    <3>1. space[<<q, 0>>] = Foreign /\ 0 \in PageNos
      BY <2>1, MemoryConstants
    <3>2. space[<<q, 0>>] # Nothing
      BY <3>1, MappingsDiffer
    <3> QED BY <3>1, <3>2 DEF FreeArea
  <2>4. ~Owned(q)'
    <3> SUFFICES ASSUME Owned(q)' PROVE FALSE
      OBVIOUS
    <3>1. CASE \E c \in Blocks : dmaPMapBlk'[c] = q \/ dmaMboxBlk'[c].virtual_addr = q
      BY <2>1, <2>3, <3>1 DEF Owned
    <3>2. CASE \E p \in Pages : dmaVirt'[p][1] = q
      <4>1. PICK c \in Blocks, n \in PageNos : dmaVirt'[<<c, n>>][1] = q
        BY <3>2, PagesArePairs
      <4>2. c = b
        BY <2>1, <4>1, PagesArePairs DEF Owned
      <4> QED BY <2>1, <2>3, <4>1, <4>2
    <3> QED BY <3>1, <3>2 DEF Owned, Blocks, Pages, PageNos
  <2> QED BY <2>2, <2>4
<1> QED BY <1>2, <1>3, <1>4, <1>5, <1>6, <1>7

\* The descriptor through which the blocks are mapped is closed when that ends.
LEMMA FilesOfBlocks ==
  ASSUME MemoryInv, quiet, quiet' = quiet, Step \in {"block", "zap"},
         UNCHANGED <<memAllocMode, arrays, fdPmap, fdMbox, theirFds, reused>>,
         \/ descriptors' = descriptors /\ Step' \in {"block", "zap"}
         \/ /\ descriptors' = Closed(descriptors, IF memAllocMode = "pagemap" THEN fdPmap ELSE fdMbox)
            /\ Step' \in {"threads", "pages"}
  PROVE  FilesKnown' /\ FilesApart'
<1>1. FilesKnown /\ FilesApart /\ descriptors \in [MemoryFds -> {"nobody", "library", "others"}]
      /\ theirFds \subseteq MemoryFds
  BY DEF MemoryInv, MemoryTypeOK
<1>2. CASE descriptors' = descriptors /\ Step' \in {"block", "zap"}
  BY <1>1, <1>2 DEF FilesKnown, FilesApart, NoFile
<1>3. CASE /\ descriptors' = Closed(descriptors, IF memAllocMode = "pagemap" THEN fdPmap ELSE fdMbox)
           /\ Step' \in {"threads", "pages"}
  <2> DEFINE fd == IF memAllocMode = "pagemap" THEN fdPmap ELSE fdMbox
  <2>1. \A d \in MemoryFds : descriptors'[d] = IF d = fd THEN "nobody" ELSE descriptors[d]
    BY <1>3 DEF Closed
  <2>2. \A d \in MemoryFds : descriptors[d] = "library" => d = fd
    BY <1>1 DEF FilesKnown
  <2>3. ~reused => fd \notin theirFds
    BY <1>1 DEF FilesApart
  <2> HIDE DEF fd
  <2>4. \A d \in MemoryFds : descriptors'[d] # "library"
    BY <2>1, <2>2
  <2>5. ~reused => \A d \in theirFds : descriptors'[d] = "others"
    BY <1>1, <2>1, <2>3 DEF FilesApart
  <2>6. FilesKnown'
    BY <1>1, <1>3, <2>4 DEF FilesKnown, NoFile
  <2>7. FilesApart'
    BY <1>1, <1>3, <2>5 DEF FilesApart
  <2> QED BY <2>6, <2>7
<1> QED BY <1>2, <1>3

-----------------------------------------------------------------------------
\* The register blocks.
LEMMA PeripheralsKeep ==
  ASSUME MemoryInv, initPeripherals
  PROVE  MemoryInv'
<1>1. Step = "down" /\ memoryAt' \in {StepAt("arrays", 0, 0), StepAt("pages", 0, 0)}
  BY DEF initPeripherals, GiveUpStart
<1>2. UNCHANGED <<memAllocMode, arrays, space, dmaVirt, dmaBus, dmaPMapBlk, dmaMboxBlk, firmware, fdPmap,
                  fdMbox, descriptors, active, restarting, stalled, theirs, theirFds, quiet, reused, lost>>
  BY DEF initPeripherals, tables, engine, others
<1>3. Step' \in {"arrays", "pages"}
  BY <1>1, StepIsAt
<1>4. MemoryTypeOK'
  <2>1. memoryAt' \in [step : {"arrays", "pages"}, block : Blocks, try : 0 .. MaxTrys - 1]
    BY <1>1, MemoryConstants DEF StepAt
  <2> QED BY <1>2, <2>1 DEF MemoryInv, MemoryTypeOK
<1>5. ModesApart'
  BY <1>2 DEF MemoryInv, ModesApart, NoMbox
<1>6. ArraysKnown' /\ EngineKnown'
  BY <1>1, <1>2, <1>3 DEF MemoryInv, ArraysKnown, EngineKnown, NoMbox
<1>7. Stopped'
  BY <1>1, <1>2, <1>3 DEF MemoryInv, Stopped, Blank, NULL, NoMbox, PageNos
<1>8. Started' /\ Reserved'
  BY <1>3 DEF Started, Reserved
<1>9. quiet => SpaceKnown' /\ FirmwareKnown' /\ AreasApart'
  BY <1>2 DEF MemoryInv, SpaceKnown, FirmwareKnown, AreasApart, Owned
<1>10. quiet => FilesKnown' /\ FilesApart'
  BY <1>1, <1>2, <1>3 DEF MemoryInv, FilesKnown, FilesApart, NoFile
<1> QED BY <1>2, <1>4, <1>5, <1>6, <1>7, <1>8, <1>9, <1>10 DEF MemoryInv

\* The arrays, and the pagemap or the mailbox.
LEMMA ArraysKeep ==
  ASSUME MemoryInv, initAllocDMAMem
  PROVE  MemoryInv'
<1>1. Step = "arrays"
  BY DEF initAllocDMAMem
<1>2. UNCHANGED <<memAllocMode, registers, space, dmaVirt, dmaBus, dmaPMapBlk, dmaMboxBlk, firmware, active,
                  restarting, stalled, theirs, theirFds, quiet, reused, lost>>
  BY DEF initAllocDMAMem, tables, engine, others
<1>3. \A k \in 0 .. 3 : /\ {ArraysOf[i] : i \in 1 .. k} \subseteq Arrays
                        /\ memAllocMode = "pagemap" => "dmaMboxBlk" \notin {ArraysOf[i] : i \in 1 .. k}
  BY DEF ArraysOf, Arrays
<1>4. memAllocMode # "pagemap" => "dmaMboxBlk" \in {ArraysOf[i] : i \in 1 .. 3}
  BY DEF ArraysOf
<1>5. /\ arrays' \subseteq Arrays /\ (memAllocMode = "pagemap" => "dmaMboxBlk" \notin arrays')
      /\ \/ memoryAt' = StepAt("pages", 0, 0) /\ UNCHANGED <<fdPmap, fdMbox, descriptors>>
         \/ /\ memoryAt' = StepAt("block", 0, 0)
            /\ memAllocMode = "pagemap" \/ "dmaMboxBlk" \in arrays'
            /\ \E d \in MemoryFds :
                 /\ descriptors[d] = "nobody" /\ descriptors' = [descriptors EXCEPT ![d] = "library"]
                 /\ fdPmap' = IF memAllocMode = "pagemap" THEN d ELSE fdPmap
                 /\ fdMbox' = IF memAllocMode = "pagemap" THEN fdMbox ELSE d
  BY <1>3, <1>4 DEF initAllocDMAMem, GiveUpStart, Opened
<1>6. Step' \in {"pages", "block"}
      /\ (Step' = "block" => memAllocMode = "pagemap" \/ "dmaMboxBlk" \in arrays')
  BY <1>5, StepIsAt
<1>7. MemoryTypeOK'
  <2>1. memoryAt' \in [step : {"block", "pages"}, block : Blocks, try : 0 .. MaxTrys - 1]
    BY <1>5, MemoryConstants DEF StepAt
  <2>2. /\ fdPmap' \in MemoryFds \cup {NoFile} /\ fdMbox' \in MemoryFds \cup {NoFile}
        /\ descriptors' \in [MemoryFds -> {"nobody", "library", "others"}]
    BY <1>5 DEF MemoryInv, MemoryTypeOK
  <2> QED BY <1>2, <1>5, <2>1, <2>2 DEF MemoryInv, MemoryTypeOK
<1>8. ModesApart'
  BY <1>2 DEF MemoryInv, ModesApart, NoMbox
<1>9. \A b \in Blocks : Blank(b)
  BY <1>1 DEF MemoryInv, Stopped
<1>10. \A b \in Blocks : Blank(b)'
  BY <1>2, <1>9 DEF Blank, NULL, NoMbox, PageNos
<1>11. ArraysKnown' /\ EngineKnown'
  BY <1>1, <1>2, <1>6, <1>9 DEF MemoryInv, ArraysKnown, EngineKnown, Blank
<1>12. Stopped' /\ Reserved'
  BY <1>6 DEF Stopped, Reserved
<1>13. Started'
  <2>1. CASE memoryAt' = StepAt("pages", 0, 0)
    BY <2>1, StepIsAt DEF Started
  <2>2. CASE memoryAt' = StepAt("block", 0, 0)
    <3>1. Step' = "block" /\ Block' = 0 /\ 0 \in Blocks
      BY <2>2, StepIsAt, MemoryConstants
    <3>2. Before(0) = {}
      BY DEF Before, Blocks
    <3>3. Before(Block)' = {} /\ After(Block)' \subseteq Blocks
      BY <3>1, <3>2 DEF Before, After, Blocks
    <3> QED BY <1>10, <3>1, <3>3 DEF Started, OwnersApart
  <2> QED BY <1>5, <2>1, <2>2
<1>14. quiet => SpaceKnown' /\ FirmwareKnown' /\ AreasApart'
  BY <1>2 DEF MemoryInv, SpaceKnown, FirmwareKnown, AreasApart, Owned
<1>15. ASSUME quiet PROVE FilesKnown' /\ FilesApart'
  <2>1. FilesKnown /\ FilesApart /\ descriptors \in [MemoryFds -> {"nobody", "library", "others"}]
        /\ theirFds \subseteq MemoryFds /\ fdPmap = NoFile /\ fdMbox = NoFile
    BY <1>1, <1>15 DEF MemoryInv, MemoryTypeOK, FilesKnown
  <2>2. \A d \in MemoryFds : descriptors[d] # "library"
    BY <1>1, <2>1 DEF FilesKnown
  <2>3. CASE memoryAt' = StepAt("pages", 0, 0) /\ UNCHANGED <<fdPmap, fdMbox, descriptors>>
    BY <1>2, <1>5, <2>1, <2>2, <2>3, StepIsAt DEF FilesKnown, FilesApart, NoFile
  <2>4. CASE /\ memoryAt' = StepAt("block", 0, 0)
             /\ memAllocMode = "pagemap" \/ "dmaMboxBlk" \in arrays'
             /\ \E d \in MemoryFds :
                  /\ descriptors[d] = "nobody" /\ descriptors' = [descriptors EXCEPT ![d] = "library"]
                  /\ fdPmap' = IF memAllocMode = "pagemap" THEN d ELSE fdPmap
                  /\ fdMbox' = IF memAllocMode = "pagemap" THEN fdMbox ELSE d
    <3>1. PICK d \in MemoryFds :
                  /\ descriptors[d] = "nobody" /\ descriptors' = [descriptors EXCEPT ![d] = "library"]
                  /\ fdPmap' = IF memAllocMode = "pagemap" THEN d ELSE fdPmap
                  /\ fdMbox' = IF memAllocMode = "pagemap" THEN fdMbox ELSE d
      BY <2>4
    <3>2. Step' = "block"
      BY <2>4, StepIsAt
    <3>3. ~reused => d \notin theirFds
      BY <2>1, <3>1 DEF FilesApart
    <3>4. \A e \in MemoryFds : descriptors'[e] = IF e = d THEN "library" ELSE descriptors[e]
      BY <2>1, <3>1
    <3>5. FilesKnown'
      BY <1>2, <1>5, <2>1, <2>2, <2>4, <3>1, <3>2, <3>4 DEF FilesKnown, NoFile
    <3>6. FilesApart'
      BY <1>2, <2>1, <3>1, <3>2, <3>3, <3>4, MemoryConstants DEF FilesApart, NoFile
    <3> QED BY <3>5, <3>6
  <2> QED BY <1>5, <2>3, <2>4
<1> QED BY <1>2, <1>7, <1>8, <1>11, <1>12, <1>13, <1>14, <1>15 DEF MemoryInv

-----------------------------------------------------------------------------
\* A start that fails goes to the release, of which nothing is known but what is mapped.
LEMMA GivesUp ==
  ASSUME MemoryInv, GiveUpStart
  PROVE  /\ Step' = "pages" /\ Stopped' /\ Started' /\ Reserved'
         /\ memoryAt' \in [step : {"pages"}, block : Blocks, try : 0 .. MaxTrys - 1]
<1>1. Step' = "pages" /\ memoryAt' = [step |-> "pages", block |-> 0, try |-> 0]
  BY StepIsAt DEF GiveUpStart
<1> QED BY <1>1, MemoryConstants DEF Stopped, Started, Reserved

\* The blocks after this one are the next one and those after it.
LEMMA GoesOn ==
  ASSUME MemoryInv, Step \in {"block", "zap"}, NextBlock(Block)
  PROVE  /\ Block \in Blocks
         /\ Step' \in {"block", "threads"}
         /\ memoryAt' \in [step : {"block", "threads"}, block : Blocks, try : 0 .. MaxTrys - 1]
         /\ Block < DmaBlocks - 1 <=> Step' = "block"
         /\ Step' = "block" => /\ Block' \in After(Block) /\ Before(Block)' = Before(Block) \cup {Block}
                               /\ After(Block)' = After(Block) \ {Block'}
         /\ Step' = "threads" => Blocks = Before(Block) \cup {Block}
<1>1. Block \in Blocks /\ 0 \in 0 .. MaxTrys - 1
  BY MemoryConstants DEF MemoryInv, MemoryTypeOK, Block
<1>2. CASE Block = DmaBlocks - 1
  <2>1. Step' = "threads" /\ memoryAt' = [step |-> "threads", block |-> 0, try |-> 0]
    BY <1>2, StepIsAt DEF NextBlock
  <2>2. Blocks = Before(Block) \cup {Block}
    BY <1>1, <1>2, MemoryConstants DEF Before, Blocks
  <2> QED BY <1>1, <1>2, <2>1, <2>2, MemoryConstants DEF Blocks
<1>3. CASE Block # DmaBlocks - 1
  <2> DEFINE b == Block
             next == b + 1
  <2>1. memoryAt' = StepAt("block", next, 0)
    BY <1>3 DEF NextBlock
  <2>2. Step' = "block" /\ Block' = next /\ memoryAt' = [step |-> "block", block |-> next, try |-> 0]
    BY <2>1, StepIsAt
  <2>3. b \in Blocks /\ b < DmaBlocks - 1 /\ next \in Blocks
    BY <1>1, <1>3, MemoryConstants DEF Blocks
  <2>4. Before(Block)' = Before(next) /\ After(Block)' = After(next)
    BY <2>2 DEF Before, After, Blocks
  <2>5. next \in After(b) /\ Before(next) = Before(b) \cup {b} /\ After(next) = After(b) \ {next}
    <3> HIDE DEF b
    <3> QED BY <2>3, MemoryConstants DEF Before, After, Blocks
  <2> HIDE DEF next
  <2> QED BY <1>1, <2>2, <2>3, <2>4, <2>5
<1> QED BY <1>2, <1>3

\* A block that is done, and whose memory is of no block before it, lets the start go on.
LEMMA StartedOn ==
  ASSUME MemoryInv, quiet, Step \in {"block", "zap"}, NextBlock(Block),
         \A c \in Blocks \ {Block} : /\ Done(c) => Done(c)'
                                     /\ Blank(c) => Blank(c)'
                                     /\ Owner(c)' = Owner(c),
         NEW f, NEW b, b = Block, Done(b)', Owner(b)' = f, \A c \in Before(b) : Owner(c) # f
  PROVE  Started'
<1>1. Started
  BY DEF MemoryInv
<1>2. b \in Blocks /\ b \notin Before(b) /\ b \notin After(b)
      /\ Before(b) \subseteq Blocks /\ After(b) \subseteq Blocks
  BY GoesOn DEF Before, After, Blocks
<1>3. /\ \A c \in Before(b) : Done(c)
      /\ \A c \in After(b) : Blank(c)
      /\ OwnersApart(Before(b))
  BY <1>1 DEF Started
<1>4. /\ \A c \in Before(b) \cup {b} : Done(c)'
      /\ \A c \in After(b) : Blank(c)'
  BY <1>2, <1>3
<1>5. \A c, d \in Before(b) \cup {b} : Owner(c)' = Owner(d)' => c = d
  BY <1>2, <1>3 DEF OwnersApart
<1>6. CASE Step' = "block"
  <2>1. /\ Before(Block)' = Before(b) \cup {b} /\ Block' \in After(b)
        /\ After(Block)' \subseteq After(b)
    BY <1>6, GoesOn
  <2>2. Blank(Block)'
    <3> DEFINE n == Block'
    <3>1. n \in After(b)
      BY <2>1
    <3>2. dmaPMapBlk'[n] = 0 /\ dmaMboxBlk'[n] = NoMbox /\ \A k \in PageNos : dmaVirt'[<<n, k>>] = NULL
      BY <1>4, <3>1 DEF Blank, NoMbox, NULL
    <3> QED BY <3>2 DEF Blank, NoMbox, NULL, PageNos
  <2>3. OwnersApart(Before(Block))'
    BY <1>5, <2>1 DEF OwnersApart
  <2> QED BY <1>4, <1>6, <2>1, <2>2, <2>3 DEF Started
<1>7. CASE Step' = "threads"
  <2>1. Blocks = Before(b) \cup {b}
    BY <1>7, GoesOn
  <2> QED BY <1>4, <1>5, <1>7, <2>1 DEF Started, OwnersApart, Blocks
<1> QED BY <1>6, <1>7, GoesOn

\* The anonymous memory of a block, and the addresses of its window.
LEMMA PagemapBlockKeeps ==
  ASSUME MemoryInv, initPagemapBlock
  PROVE  MemoryInv'
<1>b. PICK b \in Blocks : b = Block
  BY DEF MemoryInv, MemoryTypeOK, Block
<1>1. /\ Step = "block" /\ memAllocMode = "pagemap"
      /\ UNCHANGED <<memAllocMode, registers, arrays, dmaBus, dmaMboxBlk, firmware, fdPmap, fdMbox,
                     active, restarting, stalled, theirs, theirFds, quiet, reused, lost>>
  BY DEF initPagemapBlock, engine, others
<1>2. b \in Blocks /\ MemoryTypeOK
  BY DEF MemoryInv
<1>3. \/ /\ GiveUpStart /\ UNCHANGED <<space, dmaVirt, dmaPMapBlk>>
         /\ descriptors' = Closed(descriptors, fdPmap)
      \/ \E q \in Areas :
           /\ FreeArea(q)
           /\ space' = [a \in Addresses |-> IF a[1] = q THEN Anonymous ELSE space[a]]
           /\ dmaPMapBlk' = [dmaPMapBlk EXCEPT ![b] = q]
           /\ \/ GiveUpStart /\ descriptors' = Closed(descriptors, fdPmap) /\ UNCHANGED dmaVirt
              \/ \E r \in Areas \ {q} :
                   /\ FreeArea(r)
                   /\ dmaVirt' = [dmaVirt EXCEPT ![<<b, 0>>] = <<r, 0>>]
                   /\ memoryAt' = StepAt("zap", b, 0)
                   /\ descriptors' = descriptors
  <2>1. \A q : Mapped(space, q, [n \in PageNos |-> Anonymous])
                 = [a \in Addresses |-> IF a[1] = q THEN Anonymous ELSE space[a]]
    BY DEF Mapped, Addresses
  <2>2. EndOfBlocks(FALSE, fdPmap) <=> descriptors' = Closed(descriptors, fdPmap)
    BY DEF EndOfBlocks
  <2>3. PageAt(Block, 0) = <<b, 0>>
    BY <1>b DEF PageAt
  <2>4. \/ /\ GiveUpStart /\ EndOfBlocks(FALSE, fdPmap)
           /\ UNCHANGED <<space, dmaVirt, dmaPMapBlk>>
        \/ \E q \in Areas :
             /\ FreeArea(q)
             /\ space' = Mapped(space, q, [n \in PageNos |-> Anonymous])
             /\ dmaPMapBlk' = [dmaPMapBlk EXCEPT ![b] = q]
             /\ \/ GiveUpStart /\ EndOfBlocks(FALSE, fdPmap) /\ UNCHANGED dmaVirt
                \/ \E r \in Areas \ {q} :
                     /\ FreeArea(r)
                     /\ dmaVirt' = [dmaVirt EXCEPT ![<<b, 0>>] = <<r, 0>>]
                     /\ memoryAt' = StepAt("zap", b, 0)
                     /\ descriptors' = descriptors
    BY <1>b, <2>3, Zenon DEF initPagemapBlock
  <2>5. ASSUME NEW q \in Areas, space' = Mapped(space, q, [n \in PageNos |-> Anonymous])
        PROVE  space' = [a \in Addresses |-> IF a[1] = q THEN Anonymous ELSE space[a]]
    BY <2>1, <2>5, Zenon
  <2> QED BY <2>2, <2>4, <2>5, Zenon
<1>4. Step' \in {"pages", "zap"} /\ (GiveUpStart \/ memoryAt' = StepAt("zap", b, 0))
  BY <1>3, StepIsAt, GivesUp
<1>5. MemoryTypeOK'
  <2>1. memoryAt' \in [step : {"pages", "zap"}, block : Blocks, try : 0 .. MaxTrys - 1]
    BY <1>2, <1>4, GivesUp, MemoryConstants DEF StepAt
  <2>2. descriptors' \in [MemoryFds -> {"nobody", "library", "others"}]
    BY <1>2, <1>3 DEF MemoryTypeOK, Closed
  <2>3. dmaVirt' \in [Pages -> Addresses \cup {NULL}]
    <3>1. \A r \in Areas : <<r, 0>> \in Addresses
      BY MemoryConstants, MappingsDiffer
    <3>2. dmaVirt' = dmaVirt \/ \E r \in Areas : dmaVirt' = [dmaVirt EXCEPT ![<<b, 0>>] = <<r, 0>>]
      BY <1>3
    <3>3. dmaVirt \in [Pages -> Addresses \cup {NULL}]
      BY <1>2 DEF MemoryTypeOK
    <3> QED BY <3>1, <3>2, <3>3
  <2>4. /\ space' \in [Addresses -> {Nothing, Anonymous, Foreign} \cup Frames]
        /\ dmaPMapBlk' \in [Blocks -> Areas \cup {0}]
    BY <1>2, <1>3 DEF MemoryTypeOK
  <2> QED BY <1>1, <1>2, <2>1, <2>2, <2>3, <2>4 DEF MemoryTypeOK
<1>6. ModesApart'
  BY <1>1 DEF MemoryInv, ModesApart, NoMbox
<1>7. ArraysKnown' /\ EngineKnown'
  BY <1>1, <1>4 DEF MemoryInv, ArraysKnown, EngineKnown, NoMbox
<1>8. Stopped'
  BY <1>4 DEF Stopped
<1>10. Reserved'
  <2>1. CASE GiveUpStart
    BY <2>1, GivesUp
  <2>2. CASE ~GiveUpStart
    <3>1. memoryAt' = StepAt("zap", b, 0)
      BY <1>4, <2>2
    <3>2. Block' = b
      BY <3>1, StepIsAt
    <3>3. /\ dmaPMapBlk \in [Blocks -> Areas \cup {0}] /\ dmaVirt \in [Pages -> Addresses \cup {NULL}]
      BY <1>2 DEF MemoryTypeOK
    <3>4. dmaPMapBlk'[b] \in Areas /\ dmaVirt'[<<b, 0>>][1] \in Areas
      BY <1>2, <1>3, <2>2, <3>3, PagesArePairs, MemoryConstants
    <3> QED BY <1>1, <3>2, <3>4 DEF Reserved, Window
  <2> QED BY <2>1, <2>2
<1>9. ASSUME quiet PROVE MemoryQuiet'
  <2>1. MemoryQuiet
    BY <1>9 DEF MemoryInv, MemoryQuiet
  <2>2. FilesKnown' /\ FilesApart'
    <3>1. \/ descriptors' = descriptors /\ Step' \in {"block", "zap"}
          \/ descriptors' = Closed(descriptors, fdPmap) /\ Step' \in {"threads", "pages"}
      BY <1>3, StepIsAt, GivesUp
    <3> QED BY <1>1, <1>9, <3>1, FilesOfBlocks
  <2>3. Blank(b)
    BY <1>1, <1>b, <2>1 DEF MemoryQuiet, Started
  <2>4. dmaPMapBlk[b] = 0 /\ dmaMboxBlk[b] = NoMbox /\ \A n \in PageNos : dmaVirt[<<b, n>>] = NULL
    BY <2>3 DEF Blank
  <2>5. /\ dmaPMapBlk \in [Blocks -> Areas \cup {0}] /\ dmaVirt \in [Pages -> Addresses \cup {NULL}]
        /\ space \in [Addresses -> {Nothing, Anonymous, Foreign} \cup Frames]
    BY <1>2 DEF MemoryTypeOK
  <2>6. \A a \in Addresses : \/ space'[a] = space[a]
                             \/ /\ space[a] = Nothing
                                /\ space'[a] = Anonymous /\ dmaPMapBlk'[b] = a[1]
    <3>1. \A q \in Areas : FreeArea(q) => \A a \in Addresses : a[1] = q => space[a] = Nothing
      BY DEF FreeArea, Addresses
    <3> QED BY <1>2, <1>3, <2>5, <3>1
  <2>7. \A c \in Blocks \ {b} :
          /\ dmaPMapBlk'[c] = dmaPMapBlk[c] /\ dmaMboxBlk'[c] = dmaMboxBlk[c]
          /\ \A n \in PageNos : /\ dmaVirt'[<<c, n>>] = dmaVirt[<<c, n>>]
                                /\ dmaBus'[<<c, n>>] = dmaBus[<<c, n>>]
    BY <1>1, <1>2, <1>3, <2>5, PagesArePairs
  <2>8. \A q \in Areas :
          (\/ dmaPMapBlk'[b] = q \/ dmaMboxBlk'[b].virtual_addr = q
           \/ \E n \in PageNos : dmaVirt'[<<b, n>>][1] = q) => Owned(q) \/ FreeArea(q)
    <3> SUFFICES ASSUME NEW q \in Areas,
                        \/ dmaPMapBlk'[b] = q \/ dmaMboxBlk'[b].virtual_addr = q
                        \/ \E n \in PageNos : dmaVirt'[<<b, n>>][1] = q
                 PROVE  Owned(q) \/ FreeArea(q)
      OBVIOUS
    <3>1. q # 0 /\ NULL[1] = 0
      BY MemoryConstants, MappingsDiffer
    <3>2. CASE dmaPMapBlk'[b] = q
      BY <1>2, <1>3, <2>4, <2>5, <3>1, <3>2
    <3>3. CASE dmaMboxBlk'[b].virtual_addr = q
      BY <1>1, <2>4, <3>1, <3>3 DEF NoMbox
    <3>4. CASE \E n \in PageNos : dmaVirt'[<<b, n>>][1] = q
      <4>1. PICK n \in PageNos : dmaVirt'[<<b, n>>][1] = q
        BY <3>4
      <4>2. <<b, n>> \in Pages /\ <<b, 0>> \in Pages /\ dmaVirt[<<b, n>>][1] # q
        BY <1>2, <2>4, <3>1, PagesArePairs, MemoryConstants
      <4>3. PICK r \in Areas : FreeArea(r) /\ dmaVirt' = [dmaVirt EXCEPT ![<<b, 0>>] = <<r, 0>>]
        BY <1>3, <4>1, <4>2
      <4>4. dmaVirt'[<<b, n>>] = <<r, 0>>
        BY <2>5, <4>1, <4>2, <4>3
      <4> QED BY <4>1, <4>3, <4>4
    <3> QED BY <3>2, <3>3, <3>4
  <2>9. /\ \A c \in Blocks \ {b} : /\ Done(c) => Done(c)'
                                   /\ Blank(c) => Blank(c)'
                                   /\ Owner(c)' = Owner(c)
        /\ SpaceKnown' /\ FirmwareKnown' /\ AreasApart'
    <3>1. dmaMboxBlk[b].handle = 0
      BY <2>4 DEF NoMbox
    <3> QED BY <1>1, <1>2, <1>9, <2>4, <2>6, <2>7, <2>8, <3>1, BlockStep
  <2>10. Started'
    <3>1. CASE GiveUpStart
      BY <3>1, GivesUp
    <3>2. CASE ~GiveUpStart
      <4>0. PICK q \in Areas :
              /\ FreeArea(q)
              /\ space' = [a \in Addresses |-> IF a[1] = q THEN Anonymous ELSE space[a]]
              /\ dmaPMapBlk' = [dmaPMapBlk EXCEPT ![b] = q]
              /\ \E r \in Areas \ {q} :
                    /\ FreeArea(r)
                    /\ dmaVirt' = [dmaVirt EXCEPT ![<<b, 0>>] = <<r, 0>>]
                    /\ memoryAt' = StepAt("zap", b, 0)
        BY <1>3, <3>2
      <4>1. PICK r \in Areas \ {q} :
              /\ FreeArea(r)
              /\ dmaVirt' = [dmaVirt EXCEPT ![<<b, 0>>] = <<r, 0>>]
              /\ memoryAt' = StepAt("zap", b, 0)
        BY <4>0
      <4>2. Step' = "zap" /\ Block' = b
        BY <4>1, StepIsAt
      <4>3. /\ \A c \in Before(b) : Done(c)
            /\ \A c \in After(b) : Blank(c)
            /\ OwnersApart(Before(b))
        BY <1>1, <1>b, <2>1 DEF MemoryQuiet, Started
      <4>4. Before(b) \subseteq Blocks \ {b} /\ After(b) \subseteq Blocks \ {b}
            /\ Before(Block)' = Before(b) /\ After(Block)' = After(b)
        BY <1>2, <4>2, MemoryConstants DEF Before, After, Blocks
      <4>5. dmaPMapBlk'[b] = q /\ dmaVirt'[<<b, 0>>] = <<r, 0>>
            /\ \A n \in PageNos : dmaVirt'[<<b, n>>] \in {NULL, <<r, n>>}
        BY <1>2, <2>4, <2>5, <4>0, <4>1, PagesArePairs, MemoryConstants
      <4>6. \A n \in PageNos : space'[<<q, n>>] = Anonymous /\ space'[<<r, n>>] = Nothing
        BY <4>0, <4>1, MappingsDiffer DEF FreeArea
      <4>8. \A c \in Before(b) : Owner(c) # q
        <5> SUFFICES ASSUME NEW c \in Before(b), Owner(c) = q PROVE FALSE
          OBVIOUS
        <5>1. space[<<q, 0>>] = Anonymous
          BY <1>1, <4>3, MemoryConstants DEF Done
        <5>2. space[<<q, 0>>] = Nothing
          BY <4>0, MemoryConstants DEF FreeArea
        <5> QED BY <5>1, <5>2, MappingsDiffer
      <4>9. Zapping(Block)' /\ dmaPMapBlk'[Block'] = q
        <5> DEFINE c == Block'
        <5>1. c = b
          BY <4>2
        <5> HIDE DEF c
        <5>2. /\ dmaVirt'[<<c, 0>>][1] \in Areas /\ dmaPMapBlk'[c] \in Areas
              /\ dmaPMapBlk'[c] # dmaVirt'[<<c, 0>>][1]
              /\ \A n \in PageNos :
                   /\ space'[<<dmaPMapBlk'[c], n>>] = Anonymous
                   /\ dmaVirt'[<<c, n>>] \in {NULL, <<dmaVirt'[<<c, 0>>][1], n>>}
                   /\ space'[<<dmaVirt'[<<c, 0>>][1], n>>] = Nothing
          BY <4>0, <4>1, <4>5, <4>6, <5>1
        <5> QED BY <1>1, <4>5, <5>1, <5>2 DEF Zapping, Window, NULL, Nothing, Anonymous, PageNos, c
      <4> QED BY <2>9, <4>2, <4>3, <4>4, <4>8, <4>9 DEF Started, OwnersApart
    <3> QED BY <3>1, <3>2
  <2> QED BY <2>2, <2>9, <2>10 DEF MemoryQuiet
<1> QED BY <1>1, <1>5, <1>6, <1>7, <1>8, <1>9, <1>10 DEF MemoryInv, MemoryQuiet

\* A try of initZaps maps into the window only pages of the block's own memory.
LEMMA ZapsKeep ==
  ASSUME MemoryInv, initZaps
  PROVE  MemoryInv'
<1>b. PICK b \in Blocks : b = Block
  BY DEF MemoryInv, MemoryTypeOK, Block
<1> DEFINE r == Window(b)
           q == dmaPMapBlk[b]
<1>1. /\ Step = "zap"
      /\ UNCHANGED <<memAllocMode, registers, arrays, dmaPMapBlk, dmaMboxBlk, firmware, fdPmap, fdMbox,
                     active, restarting, stalled, theirs, theirFds, quiet, reused, lost>>
  BY DEF initZaps, engine, others
<1>2. /\ memAllocMode = "pagemap" /\ r \in Areas /\ q \in Areas /\ MemoryTypeOK
  BY <1>b, <1>1 DEF MemoryInv, Reserved
<1>3. dmaVirt[PageAt(Block, 0)][1] = r /\ dmaPMapBlk[Block] = q
  BY <1>b DEF PageAt, Window
<1>4. PICK found \in SUBSET PageNos :
        /\ space' = [a \in Addresses |-> IF a[1] = r /\ a[2] \in found THEN Physical(q, a[2]) ELSE space[a]]
        /\ dmaVirt' = [p \in Pages |-> IF p[1] = b /\ p[2] \in found THEN <<r, p[2]>> ELSE dmaVirt[p]]
        /\ dmaBus' = [p \in Pages |-> IF p[1] = b /\ p[2] \in found THEN Physical(q, p[2]) ELSE dmaBus[p]]
        /\ \/ found = PageNos /\ NextBlock(Block) /\ EndOfBlocks(TRUE, fdPmap)
           \/ /\ memoryAt.try < MaxTrys - 1
              /\ memoryAt' = StepAt("zap", Block, memoryAt.try + 1)
              /\ descriptors' = descriptors
           \/ GiveUpStart /\ EndOfBlocks(FALSE, fdPmap)
  <2> HIDE DEF r, q
  <2> QED BY <1>b, <1>3, Zenon DEF initZaps
<1>5. /\ \A c \in Blocks, n \in PageNos :
           /\ dmaVirt'[<<c, n>>] = IF c = b /\ n \in found THEN <<r, n>> ELSE dmaVirt[<<c, n>>]
           /\ dmaBus'[<<c, n>>] = IF c = b /\ n \in found THEN Physical(q, n) ELSE dmaBus[<<c, n>>]
      /\ \A m \in Areas, n \in PageNos :
           space'[<<m, n>>] = IF m = r /\ n \in found THEN Physical(q, n) ELSE space[<<m, n>>]
  <2> HIDE DEF r, q
  <2> QED BY <1>4, PagesArePairs, MappingsDiffer
<1>6. \/ /\ found = PageNos /\ NextBlock(Block) /\ Step' \in {"block", "threads"}
         /\ descriptors' = IF Step' = "block" THEN descriptors ELSE Closed(descriptors, fdPmap)
      \/ Step' = "zap" /\ Block' = b /\ descriptors' = descriptors
      \/ GiveUpStart /\ Step' = "pages" /\ descriptors' = Closed(descriptors, fdPmap)
  <2>1. EndOfBlocks(FALSE, fdPmap) => descriptors' = Closed(descriptors, fdPmap)
    BY DEF EndOfBlocks
  <2>2. NextBlock(Block) /\ EndOfBlocks(TRUE, fdPmap) =>
          /\ Step' \in {"block", "threads"}
          /\ descriptors' = IF Step' = "block" THEN descriptors ELSE Closed(descriptors, fdPmap)
    BY <1>1, GoesOn DEF EndOfBlocks
  <2>3. GiveUpStart => Step' = "pages"
    BY GivesUp
  <2>4. \A n : memoryAt' = StepAt("zap", Block, n) => Step' = "zap" /\ Block' = b
    BY <1>b, StepIsAt
  <2> QED BY <1>4, <2>1, <2>2, <2>3, <2>4
<1>7. memoryAt' \in [step : {"block", "threads", "zap", "pages"}, block : Blocks, try : 0 .. MaxTrys - 1]
  <2>1. memoryAt.try \in 0 .. MaxTrys - 1
    BY <1>2 DEF MemoryTypeOK
  <2>2. memoryAt.try < MaxTrys - 1 => memoryAt.try + 1 \in 0 .. MaxTrys - 1
    BY <2>1, MemoryConstants
  <2>3. CASE NextBlock(Block)
    BY <1>1, <2>3, GoesOn
  <2>4. CASE GiveUpStart
    BY <2>4, GivesUp
  <2>5. CASE memoryAt.try < MaxTrys - 1 /\ memoryAt' = StepAt("zap", Block, memoryAt.try + 1)
    BY <1>b, <2>2, <2>5 DEF StepAt
  <2> QED BY <1>4, <2>3, <2>4, <2>5
<1>8. MemoryTypeOK'
  <2>1. /\ space \in [Addresses -> {Nothing, Anonymous, Foreign} \cup Frames]
        /\ dmaVirt \in [Pages -> Addresses \cup {NULL}] /\ dmaBus \in [Pages -> Frames \cup {NoFrame}]
        /\ descriptors \in [MemoryFds -> {"nobody", "library", "others"}]
    BY <1>2 DEF MemoryTypeOK
  <2>2. /\ \A a \in Addresses : a[2] \in PageNos
        /\ \A p \in Pages : p[2] \in PageNos
    BY DEF Addresses, Pages
  <2>3. \A n \in PageNos : Physical(q, n) \in Frames /\ <<r, n>> \in Addresses
    BY <1>2, MappingsDiffer
  <2>4. /\ space' \in [Addresses -> {Nothing, Anonymous, Foreign} \cup Frames]
        /\ dmaVirt' \in [Pages -> Addresses \cup {NULL}] /\ dmaBus' \in [Pages -> Frames \cup {NoFrame}]
    <3> HIDE DEF r, q
    <3> QED BY <1>4, <2>1, <2>2, <2>3
  <2>5. descriptors' \in [MemoryFds -> {"nobody", "library", "others"}]
    BY <1>6, <2>1 DEF Closed
  <2> QED BY <1>1, <1>2, <1>7, <2>4, <2>5 DEF MemoryTypeOK
<1>9. Step' \in {"block", "threads", "zap", "pages"}
  BY <1>6
<1>10. ModesApart' /\ ArraysKnown' /\ EngineKnown' /\ Stopped'
  <2>1. ModesApart'
    BY <1>1 DEF MemoryInv, ModesApart, NoMbox
  <2>2. ArraysKnown' /\ EngineKnown' /\ Stopped'
    BY <1>1, <1>2, <1>9 DEF MemoryInv, ArraysKnown, EngineKnown, Stopped, NoMbox
  <2> QED BY <2>1, <2>2
<1>11. dmaVirt'[<<b, 0>>][1] = r
  <2>1. dmaVirt[<<b, 0>>][1] = r
    BY DEF Window
  <2> HIDE DEF r, q
  <2>2. dmaVirt'[<<b, 0>>] = IF 0 \in found THEN <<r, 0>> ELSE dmaVirt[<<b, 0>>]
    BY <1>5, MemoryConstants
  <2>3. CASE 0 \in found
    BY <2>2, <2>3
  <2>4. CASE 0 \notin found
    BY <2>1, <2>2, <2>4
  <2> QED BY <2>3, <2>4
<1>12. Reserved'
  BY <1>1, <1>2, <1>6, <1>9, <1>11 DEF Reserved, Window, GiveUpStart
<1>13. ASSUME quiet PROVE MemoryQuiet'
  <2>1. MemoryQuiet
    BY <1>13 DEF MemoryInv, MemoryQuiet
  <2>2. FilesKnown' /\ FilesApart'
    <3>1. \/ descriptors' = descriptors /\ Step' \in {"block", "zap"}
          \/ descriptors' = Closed(descriptors, fdPmap) /\ Step' \in {"threads", "pages"}
      BY <1>6
    <3> QED BY <1>1, <1>2, <1>13, <3>1, FilesOfBlocks
  <2>3. /\ \A c \in Before(b) : Done(c) /\ Owner(c) # q
        /\ \A c \in After(b) : Blank(c)
        /\ OwnersApart(Before(b))
        /\ q # r
        /\ \A n \in PageNos :
             /\ space[<<q, n>>] = Anonymous
             /\ dmaVirt[<<b, n>>] \in {NULL, <<r, n>>}
             /\ \/ space[<<r, n>>] = Nothing
                \/ /\ space[<<r, n>>] = Physical(q, n)
                   /\ dmaVirt[<<b, n>>] = <<r, n>>
                   /\ dmaBus[<<b, n>>] = Physical(q, n)
    BY <1>1, <1>b, <2>1 DEF MemoryQuiet, Started, Zapping
  <2> HIDE DEF r, q
  <2>4. Owned(r) /\ Owned(q) /\ dmaPMapBlk[b] = q
    BY PagesArePairs, MemoryConstants DEF Owned, r, q, Window
  <2>5. \A a \in Addresses : \/ space'[a] = space[a]
                             \/ /\ space[a] = Nothing
                                /\ space'[a] \in Frames /\ \E p \in Pages : dmaVirt'[p] = a
    <3> SUFFICES ASSUME NEW a \in Addresses, space'[a] # space[a]
                 PROVE  space[a] = Nothing /\ space'[a] \in Frames /\ \E p \in Pages : dmaVirt'[p] = a
      OBVIOUS
    <3>1. PICK m \in Areas, n \in PageNos : a = <<m, n>>
      BY DEF Addresses
    <3>2. m = r /\ n \in found /\ space'[a] = Physical(q, n)
      BY <1>5, <3>1
    <3>3. space[a] = Nothing
      BY <2>3, <3>1, <3>2
    <3>4. dmaVirt'[<<b, n>>] = a /\ <<b, n>> \in Pages
      BY <1>5, <3>1, <3>2, PagesArePairs
    <3>5. space'[a] \in Frames
      BY <1>2, <3>2, MappingsDiffer
    <3> QED BY <3>3, <3>4, <3>5
  <2>6. \A c \in Blocks \ {b} :
          /\ dmaPMapBlk'[c] = dmaPMapBlk[c] /\ dmaMboxBlk'[c] = dmaMboxBlk[c]
          /\ \A n \in PageNos : /\ dmaVirt'[<<c, n>>] = dmaVirt[<<c, n>>]
                                /\ dmaBus'[<<c, n>>] = dmaBus[<<c, n>>]
    BY <1>1, <1>5
  <2>7. \A n \in PageNos : dmaVirt[<<b, n>>] = NULL \/ dmaVirt'[<<b, n>>] = dmaVirt[<<b, n>>]
    BY <1>5, <2>3
  <2>8. \A m \in Areas :
          (\/ dmaPMapBlk'[b] = m \/ dmaMboxBlk'[b].virtual_addr = m
           \/ \E n \in PageNos : dmaVirt'[<<b, n>>][1] = m) => Owned(m) \/ FreeArea(m)
    <3> SUFFICES ASSUME NEW m \in Areas, NEW n \in PageNos, dmaVirt'[<<b, n>>][1] = m PROVE Owned(m)
      BY <1>1 DEF Owned
    <3>1. CASE n \in found
      <4>1. dmaVirt'[<<b, n>>] = <<r, n>>
        BY <1>5, <3>1
      <4>2. m = r
        BY <4>1
      <4> QED BY <2>4, <4>2
    <3>2. CASE n \notin found
      BY <1>5, <3>2, PagesArePairs DEF Owned
    <3> QED BY <3>1, <3>2
  <2>9. /\ \A c \in Blocks \ {b} : /\ Done(c) => Done(c)'
                                   /\ Blank(c) => Blank(c)'
                                   /\ Owner(c)' = Owner(c)
        /\ SpaceKnown' /\ FirmwareKnown' /\ AreasApart'
    BY <1>1, <1>13, <2>5, <2>6, <2>7, <2>8, BlockStep
  <2>10. Started'
    <3>1. \A n \in PageNos : space'[<<q, n>>] = Anonymous
      BY <1>2, <1>5, <2>3
    <3>2. CASE NextBlock(Block) /\ found = PageNos
      <4>1. \A n \in PageNos : /\ dmaVirt'[<<b, n>>] = <<r, n>> /\ dmaBus'[<<b, n>>] = Physical(q, n)
                               /\ space'[<<r, n>>] = Physical(q, n)
        BY <1>2, <1>5, <3>2
      <4>2. dmaPMapBlk'[b] = q /\ memAllocMode' = "pagemap"
        BY <1>1, <1>2, <2>4
      <4>3. Done(b)' /\ Owner(b)' = q
        BY <1>2, <1>11, <3>1, <4>1, <4>2 DEF Done, Owner, Window, Physical, Anonymous, PageNos
      <4>4. \A c \in Before(b) : Owner(c) # q
        BY <2>3
      <4> QED BY <1>b, <1>1, <1>13, <2>9, <3>2, <4>3, <4>4, StartedOn
    <3>3. CASE Step' = "zap" /\ Block' = b
      <4>1. Before(b) \subseteq Blocks \ {b} /\ After(b) \subseteq Blocks \ {b}
            /\ Before(Block)' = Before(b) /\ After(Block)' = After(b)
        BY <3>3, MemoryConstants DEF Before, After, Blocks
      <4>2. \A n \in PageNos :
              /\ dmaVirt'[<<b, n>>] \in {NULL, <<r, n>>}
              /\ \/ space'[<<r, n>>] = Nothing
                 \/ /\ space'[<<r, n>>] = Physical(q, n)
                    /\ dmaVirt'[<<b, n>>] = <<r, n>>
                    /\ dmaBus'[<<b, n>>] = Physical(q, n)
        BY <1>2, <1>5, <2>3
      <4>3. Zapping(Block)' /\ dmaPMapBlk'[Block'] = q
        <5> DEFINE c == Block'
        <5>1. c = b
          BY <3>3
        <5> HIDE DEF c
        <5>2. memAllocMode' = "pagemap" /\ dmaPMapBlk'[c] = q /\ dmaVirt'[<<c, 0>>][1] = r
          BY <1>1, <1>2, <1>11, <2>4, <5>1
        <5>3. \A n \in PageNos :
                /\ space'[<<q, n>>] = Anonymous
                /\ dmaVirt'[<<c, n>>] \in {NULL, <<r, n>>}
                /\ \/ space'[<<r, n>>] = Nothing
                   \/ /\ space'[<<r, n>>] = Physical(q, n)
                      /\ dmaVirt'[<<c, n>>] = <<r, n>>
                      /\ dmaBus'[<<c, n>>] = Physical(q, n)
          BY <3>1, <4>2, <5>1
        <5> QED BY <1>2, <2>3, <5>2, <5>3 DEF Zapping, Window, NULL, Nothing, Anonymous, PageNos, Physical, c
      <4> QED BY <2>3, <2>9, <3>3, <4>1, <4>3 DEF Started, OwnersApart
    <3>4. CASE GiveUpStart
      BY <3>4, GivesUp
    <3> QED BY <1>6, <3>2, <3>3, <3>4
  <2> QED BY <2>2, <2>9, <2>10 DEF MemoryQuiet
<1> QED BY <1>1, <1>8, <1>10, <1>12, <1>13 DEF MemoryInv, MemoryQuiet

\* The firmware's memory of a block, which no block before it has.
LEMMA MboxBlockKeeps ==
  ASSUME MemoryInv, initMboxBlock
  PROVE  MemoryInv'
<1>b. PICK b \in Blocks : b = Block
  BY DEF MemoryInv, MemoryTypeOK, Block
<1>1. /\ Step = "block" /\ memAllocMode = "mailbox" /\ memAllocMode # "pagemap"
      /\ UNCHANGED <<memAllocMode, registers, arrays, dmaPMapBlk, fdPmap, fdMbox,
                     active, restarting, stalled, theirs, theirFds, quiet, reused, lost>>
  BY DEF initMboxBlock, engine, others
<1>2. MemoryTypeOK
  BY DEF MemoryInv
<1>3. \/ /\ GiveUpStart /\ EndOfBlocks(FALSE, fdMbox)
         /\ UNCHANGED <<space, dmaVirt, dmaBus, dmaMboxBlk, firmware>>
      \/ \E m \in Memories, q \in Areas :
           /\ firmware[m] = "free" /\ FreeArea(q)
           /\ firmware' = [firmware EXCEPT ![m] = "locked"]
           /\ dmaMboxBlk' = [dmaMboxBlk EXCEPT ![b] = [handle |-> m, virtual_addr |-> q]]
           /\ space' = [a \in Addresses |-> IF a[1] = q THEN Physical(m, a[2]) ELSE space[a]]
           /\ dmaVirt' = [p \in Pages |-> IF p[1] = b THEN <<q, p[2]>> ELSE dmaVirt[p]]
           /\ dmaBus' = [p \in Pages |-> IF p[1] = b THEN Physical(m, p[2]) ELSE dmaBus[p]]
           /\ NextBlock(Block) /\ EndOfBlocks(TRUE, fdMbox)
  <2>2. \/ /\ GiveUpStart /\ EndOfBlocks(FALSE, fdMbox)
           /\ UNCHANGED <<space, dmaVirt, dmaBus, dmaMboxBlk, firmware>>
        \/ \E m \in Memories, q \in Areas :
             /\ mbDMAAlloc(m, q)
             /\ dmaVirt' = [p \in Pages |-> IF p[1] = b THEN <<q, p[2]>> ELSE dmaVirt[p]]
             /\ dmaBus' = [p \in Pages |-> IF p[1] = b THEN Physical(m, p[2]) ELSE dmaBus[p]]
             /\ NextBlock(Block) /\ EndOfBlocks(TRUE, fdMbox)
    BY <1>b, Zenon DEF initMboxBlock
  <2>3. ASSUME NEW m \in Memories, NEW q \in Areas, mbDMAAlloc(m, q)
        PROVE  /\ firmware[m] = "free" /\ FreeArea(q)
               /\ firmware' = [firmware EXCEPT ![m] = "locked"]
               /\ dmaMboxBlk' = [dmaMboxBlk EXCEPT ![b] = [handle |-> m, virtual_addr |-> q]]
               /\ space' = [a \in Addresses |-> IF a[1] = q THEN Physical(m, a[2]) ELSE space[a]]
    <3>1. /\ firmware[m] = "free" /\ FreeArea(q)
          /\ firmware' = [firmware EXCEPT ![m] = "locked"]
          /\ dmaMboxBlk' = [dmaMboxBlk EXCEPT ![b] = [handle |-> m, virtual_addr |-> q]]
      BY <1>b, <2>3 DEF mbDMAAlloc
    <3>2. space' = Mapped(space, q, [n \in PageNos |-> Physical(m, n)])
      BY <2>3, Zenon DEF mbDMAAlloc
    <3>3. space' = [a \in Addresses |-> IF a[1] = q THEN Physical(m, a[2]) ELSE space[a]]
      BY <3>2 DEF Mapped, Addresses
    <3> QED BY <3>1, <3>3
  <2> QED BY <2>2, <2>3, Zenon
<1>4. \/ /\ NextBlock(Block) /\ Step' \in {"block", "threads"}
         /\ descriptors' = IF Step' = "block" THEN descriptors ELSE Closed(descriptors, fdMbox)
      \/ GiveUpStart /\ Step' = "pages" /\ descriptors' = Closed(descriptors, fdMbox)
  <2>1. EndOfBlocks(FALSE, fdMbox) => descriptors' = Closed(descriptors, fdMbox)
    BY DEF EndOfBlocks
  <2>2. NextBlock(Block) /\ EndOfBlocks(TRUE, fdMbox) =>
          /\ Step' \in {"block", "threads"}
          /\ descriptors' = IF Step' = "block" THEN descriptors ELSE Closed(descriptors, fdMbox)
    BY <1>1, GoesOn DEF EndOfBlocks
  <2>3. GiveUpStart => Step' = "pages"
    BY GivesUp
  <2> QED BY <1>3, <2>1, <2>2, <2>3
<1>5. /\ memAllocMode' = "mailbox" /\ Step' \in {"block", "threads", "pages"}
      /\ memoryAt' \in [step : {"block", "threads", "pages"}, block : Blocks, try : 0 .. MaxTrys - 1]
  BY <1>1, <1>4, GoesOn, GivesUp
<1>6. /\ firmware \in [Memories -> {"free", "allocated", "locked"}]
      /\ dmaMboxBlk \in [Blocks -> [handle : Memories \cup {0}, virtual_addr : Areas \cup {0}]]
      /\ space \in [Addresses -> {Nothing, Anonymous, Foreign} \cup Frames]
      /\ dmaVirt \in [Pages -> Addresses \cup {NULL}] /\ dmaBus \in [Pages -> Frames \cup {NoFrame}]
      /\ descriptors \in [MemoryFds -> {"nobody", "library", "others"}]
  BY <1>2 DEF MemoryTypeOK
<1>7. /\ firmware' \in [Memories -> {"free", "allocated", "locked"}]
      /\ dmaMboxBlk' \in [Blocks -> [handle : Memories \cup {0}, virtual_addr : Areas \cup {0}]]
      /\ space' \in [Addresses -> {Nothing, Anonymous, Foreign} \cup Frames]
      /\ dmaVirt' \in [Pages -> Addresses \cup {NULL}] /\ dmaBus' \in [Pages -> Frames \cup {NoFrame}]
  <2>1. CASE UNCHANGED <<space, dmaVirt, dmaBus, dmaMboxBlk, firmware>>
    BY <1>6, <2>1
  <2>2. ASSUME NEW m \in Memories, NEW q \in Areas,
               firmware' = [firmware EXCEPT ![m] = "locked"],
               dmaMboxBlk' = [dmaMboxBlk EXCEPT ![b] = [handle |-> m, virtual_addr |-> q]],
               space' = [a \in Addresses |-> IF a[1] = q THEN Physical(m, a[2]) ELSE space[a]],
               dmaVirt' = [p \in Pages |-> IF p[1] = b THEN <<q, p[2]>> ELSE dmaVirt[p]],
               dmaBus' = [p \in Pages |-> IF p[1] = b THEN Physical(m, p[2]) ELSE dmaBus[p]]
        PROVE  /\ firmware' \in [Memories -> {"free", "allocated", "locked"}]
               /\ dmaMboxBlk' \in [Blocks -> [handle : Memories \cup {0}, virtual_addr : Areas \cup {0}]]
               /\ space' \in [Addresses -> {Nothing, Anonymous, Foreign} \cup Frames]
               /\ dmaVirt' \in [Pages -> Addresses \cup {NULL}] /\ dmaBus' \in [Pages -> Frames \cup {NoFrame}]
    <3>1. /\ \A a \in Addresses : a[2] \in PageNos
          /\ \A p \in Pages : p[2] \in PageNos
      BY DEF Addresses, Pages
    <3>2. \A n \in PageNos : Physical(m, n) \in Frames /\ <<q, n>> \in Addresses
      BY MappingsDiffer
    <3>3. firmware' \in [Memories -> {"free", "allocated", "locked"}]
      BY <1>6, <2>2
    <3>4. dmaMboxBlk' \in [Blocks -> [handle : Memories \cup {0}, virtual_addr : Areas \cup {0}]]
      BY <1>6, <2>2
    <3>5. space' \in [Addresses -> {Nothing, Anonymous, Foreign} \cup Frames]
      BY <1>6, <2>2, <3>1, <3>2
    <3>6. dmaVirt' \in [Pages -> Addresses \cup {NULL}]
      BY <1>6, <2>2, <3>1, <3>2
    <3>7. dmaBus' \in [Pages -> Frames \cup {NoFrame}]
      BY <1>6, <2>2, <3>1, <3>2
    <3> QED BY <3>3, <3>4, <3>5, <3>6, <3>7
  <2> QED BY <1>3, <2>1, <2>2
<1>8. MemoryTypeOK'
  <2>1. descriptors' \in [MemoryFds -> {"nobody", "library", "others"}]
    BY <1>4, <1>6 DEF Closed
  <2> QED BY <1>1, <1>2, <1>5, <1>7, <2>1 DEF MemoryTypeOK
<1>9. ModesApart' /\ ArraysKnown' /\ EngineKnown' /\ Stopped' /\ Reserved'
  <2>1. ModesApart'
    BY <1>1 DEF MemoryInv, ModesApart
  <2>2. "dmaMboxBlk" \in arrays
    BY <1>1 DEF MemoryInv, ArraysKnown
  <2>3. ArraysKnown' /\ EngineKnown' /\ Stopped' /\ Reserved'
    BY <1>1, <1>5, <2>2 DEF MemoryInv, ArraysKnown, EngineKnown, Stopped, Reserved
  <2> QED BY <2>1, <2>3
<1>10. ASSUME quiet PROVE MemoryQuiet'
  <2>1. MemoryQuiet
    BY <1>10 DEF MemoryInv, MemoryQuiet
  <2>2. FilesKnown' /\ FilesApart'
    <3>1. \/ descriptors' = descriptors /\ Step' \in {"block", "zap"}
          \/ descriptors' = Closed(descriptors, fdMbox) /\ Step' \in {"threads", "pages"}
      BY <1>4
    <3> QED BY <1>1, <1>10, <3>1, FilesOfBlocks
  <2>3. /\ \A c \in Before(b) : Done(c)
        /\ \A c \in After(b) : Blank(c)
        /\ OwnersApart(Before(b))
        /\ Blank(b)
    BY <1>1, <1>b, <2>1 DEF MemoryQuiet, Started
  <2>4. dmaPMapBlk[b] = 0 /\ dmaMboxBlk[b].handle = 0 /\ dmaMboxBlk[b].virtual_addr = 0
        /\ \A n \in PageNos : dmaVirt[<<b, n>>] = NULL
    BY <2>3 DEF Blank, NoMbox
  <2>5. CASE GiveUpStart /\ UNCHANGED <<space, dmaVirt, dmaBus, dmaMboxBlk, firmware>>
    <3>1. SpaceKnown' /\ FirmwareKnown' /\ AreasApart'
      BY <1>1, <2>1, <2>5 DEF MemoryQuiet, SpaceKnown, FirmwareKnown, AreasApart, Owned
    <3> QED BY <2>2, <2>5, <3>1, GivesUp DEF MemoryQuiet
  <2>6. ASSUME NEW m \in Memories, NEW q \in Areas,
               firmware[m] = "free", FreeArea(q),
               firmware' = [firmware EXCEPT ![m] = "locked"],
               dmaMboxBlk' = [dmaMboxBlk EXCEPT ![b] = [handle |-> m, virtual_addr |-> q]],
               space' = [a \in Addresses |-> IF a[1] = q THEN Physical(m, a[2]) ELSE space[a]],
               dmaVirt' = [p \in Pages |-> IF p[1] = b THEN <<q, p[2]>> ELSE dmaVirt[p]],
               dmaBus' = [p \in Pages |-> IF p[1] = b THEN Physical(m, p[2]) ELSE dmaBus[p]],
               NextBlock(Block)
        PROVE  Started' /\ SpaceKnown' /\ FirmwareKnown' /\ AreasApart'
    <3>1. \A c \in Blocks, n \in PageNos :
            /\ dmaVirt'[<<c, n>>] = IF c = b THEN <<q, n>> ELSE dmaVirt[<<c, n>>]
            /\ dmaBus'[<<c, n>>] = IF c = b THEN Physical(m, n) ELSE dmaBus[<<c, n>>]
      BY <2>6, PagesArePairs
    <3>2. \A n \in PageNos : space'[<<q, n>>] = Physical(m, n)
      BY <2>6, MappingsDiffer
    <3>3. /\ dmaMboxBlk'[b].handle = m /\ dmaMboxBlk'[b].virtual_addr = q
          /\ \A c \in Blocks \ {b} : dmaMboxBlk'[c] = dmaMboxBlk[c]
          /\ firmware'[m] = "locked" /\ \A l \in Memories \ {m} : firmware'[l] = firmware[l]
      BY <1>6, <2>6
    <3>4. \A a \in Addresses : \/ space'[a] = space[a]
                               \/ /\ space[a] = Nothing
                                  /\ space'[a] \in Frames /\ \E p \in Pages : dmaVirt'[p] = a
      <4> SUFFICES ASSUME NEW a \in Addresses, space'[a] # space[a]
                   PROVE  space[a] = Nothing /\ space'[a] \in Frames /\ \E p \in Pages : dmaVirt'[p] = a
        OBVIOUS
      <4>1. PICK l \in Areas, n \in PageNos : a = <<l, n>>
        BY DEF Addresses
      <4>2. l = q /\ space'[a] = Physical(m, n)
        BY <2>6, <4>1
      <4>3. space[a] = Nothing
        BY <2>6, <4>1, <4>2 DEF FreeArea
      <4>4. dmaVirt'[<<b, n>>] = a /\ <<b, n>> \in Pages
        BY <3>1, <4>1, <4>2, PagesArePairs
      <4>5. space'[a] \in Frames
        BY <4>2, MappingsDiffer
      <4> QED BY <4>3, <4>4, <4>5
    <3>5. \A c \in Blocks \ {b} :
            /\ dmaPMapBlk'[c] = dmaPMapBlk[c] /\ dmaMboxBlk'[c] = dmaMboxBlk[c]
            /\ \A n \in PageNos : /\ dmaVirt'[<<c, n>>] = dmaVirt[<<c, n>>]
                                  /\ dmaBus'[<<c, n>>] = dmaBus[<<c, n>>]
      BY <1>1, <3>1, <3>3
    <3>6. \A l \in Areas :
            (\/ dmaPMapBlk'[b] = l \/ dmaMboxBlk'[b].virtual_addr = l
             \/ \E n \in PageNos : dmaVirt'[<<b, n>>][1] = l) => Owned(l) \/ FreeArea(l)
      <4> SUFFICES ASSUME NEW l \in Areas,
                          \/ dmaPMapBlk'[b] = l \/ dmaMboxBlk'[b].virtual_addr = l
                          \/ \E n \in PageNos : dmaVirt'[<<b, n>>][1] = l
                   PROVE  Owned(l) \/ FreeArea(l)
        OBVIOUS
      <4>1. l # 0
        BY MemoryConstants
      <4>2. \A n \in PageNos : dmaVirt'[<<b, n>>] = <<q, n>>
        BY <3>1
      <4>3. l = q
        <5>1. dmaPMapBlk'[b] = 0 /\ dmaMboxBlk'[b].virtual_addr = q
          BY <1>1, <2>4, <3>3
        <5>2. \A n \in PageNos : dmaVirt'[<<b, n>>][1] = q
          BY <4>2
        <5> QED BY <4>1, <5>1, <5>2
      <4> QED BY <2>6, <4>3
    <3>7. \A l \in Memories : \/ firmware'[l] = firmware[l]
                              \/ firmware[l] = "free" /\ dmaMboxBlk'[b].handle = l
      BY <2>6, <3>3
    <3>8. /\ \A c \in Blocks \ {b} : /\ Done(c) => Done(c)'
                                     /\ Blank(c) => Blank(c)'
                                     /\ Owner(c)' = Owner(c)
          /\ SpaceKnown' /\ FirmwareKnown' /\ AreasApart'
      BY <1>1, <1>10, <2>4, <3>4, <3>5, <3>6, <3>7, BlockStep
    <3>9. Started'
      <4>1. dmaVirt'[<<b, 0>>][1] = q
        <5>1. dmaVirt'[<<b, 0>>] = <<q, 0>>
          BY <3>1, MemoryConstants
        <5> QED BY <5>1
      <4>2. \A n \in PageNos : /\ dmaVirt'[<<b, n>>] = <<q, n>> /\ dmaBus'[<<b, n>>] = Physical(m, n)
        BY <3>1
      <4>3. Done(b)' /\ Owner(b)' = m
        BY <1>1, <3>2, <3>3, <4>1, <4>2 DEF Done, Owner, Window, Physical, PageNos
      <4>4. \A c \in Before(b) : Owner(c) # m
        <5> SUFFICES ASSUME NEW c \in Before(b), Owner(c) = m PROVE FALSE
          OBVIOUS
        <5>1. firmware[m] = "locked"
          BY <1>1, <2>3 DEF Done
        <5> QED BY <2>6, <5>1
      <4> QED BY <1>b, <1>1, <1>10, <2>6, <3>8, <4>3, <4>4, StartedOn
    <3> QED BY <3>8, <3>9
  <2> QED BY <1>3, <2>2, <2>5, <2>6 DEF MemoryQuiet
<1> QED BY <1>1, <1>8, <1>9, <1>10 DEF MemoryInv, MemoryQuiet

-----------------------------------------------------------------------------
\* Unmapping what is not theirs leaves the other threads what they have.
LEMMA TheyKeepAreas ==
  ASSUME MemoryInv, quiet, theirs' = theirs, NEW as,
         space' = [a \in Addresses |-> IF a \in as THEN Nothing ELSE space[a]],
         \A q \in Areas : Owned(q)' => Owned(q),
         \A q \in Areas, n \in PageNos : <<q, n>> \in as => Owned(q)
  PROVE  AreasApart'
<1> SUFFICES ASSUME NEW q \in theirs
             PROVE  ~Owned(q)' /\ \A n \in PageNos : space'[<<q, n>>] = Foreign
  BY DEF AreasApart, PageNos, Foreign
<1>1. q \in Areas /\ ~Owned(q) /\ \A n \in PageNos : space[<<q, n>>] = Foreign
  BY DEF MemoryInv, AreasApart, MemoryTypeOK
<1>2. \A n \in PageNos : space'[<<q, n>>] = Foreign
  BY <1>1, MappingsDiffer
<1> QED BY <1>1, <1>2

\* The release unmaps the pages, which are of no other thread,
LEMMA PagesReleased ==
  ASSUME MemoryInv, ReleasePages
  PROVE  MemoryInv'
<1>1. /\ Step = "pages" /\ registers' = registers \cap {"pads"}
      /\ space' = [a \in Addresses |-> IF a \in {dmaVirt[p] : p \in Pages} THEN Nothing ELSE space[a]]
      /\ arrays' = arrays \ {"dmaVirt", "dmaBus"}
      /\ dmaVirt' = [p \in Pages |-> NULL] /\ dmaBus' = [p \in Pages |-> NoFrame]
      /\ memoryAt' = StepAt("blocks", 0, 0)
  BY DEF ReleasePages, Unmapped
<1>2. UNCHANGED <<memAllocMode, dmaPMapBlk, dmaMboxBlk, firmware, fdPmap, fdMbox, descriptors,
                  active, restarting, stalled, theirs, theirFds, quiet, reused, lost>>
  BY DEF ReleasePages, engine, others
<1>3. Step' = "blocks"
  BY <1>1, StepIsAt
<1>4. MemoryTypeOK'
  <2>1. memoryAt' \in [step : {"blocks"}, block : Blocks, try : 0 .. MaxTrys - 1]
    BY <1>1, MemoryConstants DEF StepAt
  <2>2. MemoryTypeOK
    BY DEF MemoryInv
  <2>3. /\ space' \in [Addresses -> {Nothing, Anonymous, Foreign} \cup Frames]
        /\ dmaVirt' \in [Pages -> Addresses \cup {NULL}] /\ dmaBus' \in [Pages -> Frames \cup {NoFrame}]
    BY <1>1, <2>2 DEF MemoryTypeOK
  <2> QED BY <1>1, <1>2, <2>1, <2>2, <2>3 DEF MemoryTypeOK
<1>5. ModesApart'
  BY <1>2 DEF MemoryInv, ModesApart, NoMbox
<1>6. ArraysKnown' /\ EngineKnown' /\ Reserved'
  BY <1>1, <1>2, <1>3 DEF MemoryInv, MemoryTypeOK, Arrays, ArraysKnown, EngineKnown, Reserved, NoMbox
<1>7. Stopped'
  BY <1>1, <1>3 DEF Stopped, NoPages, NULL, Pages
<1>8. ASSUME quiet PROVE MemoryQuiet'
  <2>1. MemoryQuiet
    BY <1>8 DEF MemoryInv, MemoryQuiet
  <2>2. Started' /\ FirmwareKnown'
    BY <1>2, <1>3, <2>1 DEF MemoryQuiet, Started, FirmwareKnown
  <2>3. SpaceKnown'
    <3> SUFFICES ASSUME NEW a \in Addresses
                 PROVE  \/ space'[a] \in {Nothing, Foreign}
                        \/ space'[a] = Anonymous /\ \E c \in Blocks : dmaPMapBlk'[c] = a[1]
      BY DEF SpaceKnown, Addresses, Pages, Frames, Nothing, Foreign, Anonymous
    <3> QED BY <1>1, <1>2, <2>1 DEF MemoryQuiet, SpaceKnown
  <2>4. AreasApart'
    <3> DEFINE as == {dmaVirt[p] : p \in Pages}
    <3>1. \A q \in Areas : Owned(q)' => Owned(q)
      <4>1. \A q \in Areas, p \in Pages : dmaVirt'[p][1] # q
        BY <1>1, MappingsDiffer
      <4> QED BY <1>2, <4>1 DEF Owned
    <3>2. \A q \in Areas, n \in PageNos : <<q, n>> \in as => Owned(q)
      BY DEF Owned
    <3>3. space' = [a \in Addresses |-> IF a \in as THEN Nothing ELSE space[a]]
      BY <1>1
    <3> HIDE DEF as
    <3> QED BY <1>2, <1>8, <3>1, <3>2, <3>3, TheyKeepAreas
  <2>5. FilesKnown' /\ FilesApart'
    BY <1>1, <1>2, <1>3, <2>1 DEF MemoryQuiet, FilesKnown, FilesApart, NoFile
  <2> QED BY <2>2, <2>3, <2>4, <2>5 DEF MemoryQuiet
<1> QED BY <1>2, <1>4, <1>5, <1>6, <1>7, <1>8 DEF MemoryInv, MemoryQuiet

\* the anonymous memory,
LEMMA BlocksReleased ==
  ASSUME MemoryInv, ReleaseBlocks
  PROVE  MemoryInv'
<1>1. /\ Step = "blocks"
      /\ space' = [a \in Addresses |-> IF a \in UNION {PagesOf(dmaPMapBlk[b]) : b \in Blocks}
                                       THEN Nothing ELSE space[a]]
      /\ dmaPMapBlk' = [b \in Blocks |-> 0]
      /\ arrays' = arrays \ {"dmaPMapBlk"}
      /\ \/ /\ "dmaMboxBlk" \in arrays /\ memoryAt' = StepAt("free", DmaBlocks - 1, 0)
            /\ \/ \E d \in MemoryFds : /\ descriptors[d] = "nobody" /\ fdMbox' = d
                                       /\ descriptors' = [descriptors EXCEPT ![d] = "library"]
               \/ fdMbox' = NoFile /\ descriptors' = descriptors
         \/ /\ "dmaMboxBlk" \notin arrays /\ memoryAt' = StepAt("files", 0, 0)
            /\ fdMbox' = fdMbox /\ descriptors' = descriptors
  BY DEF ReleaseBlocks, Unmapped, Opened
<1>2. UNCHANGED <<memAllocMode, registers, dmaVirt, dmaBus, dmaMboxBlk, firmware, fdPmap, active,
                  restarting, stalled, theirs, theirFds, quiet, reused, lost>>
  BY DEF ReleaseBlocks, engine, others
<1>3. /\ Step' = IF "dmaMboxBlk" \in arrays THEN "free" ELSE "files"
      /\ Step' = "free" => Block' = DmaBlocks - 1
  BY <1>1, StepIsAt
<1>4. MemoryTypeOK /\ ModesApart /\ ArraysKnown /\ Stopped
  BY DEF MemoryInv
<1>5. MemoryTypeOK'
  <2>1. memoryAt' \in [step : {"free", "files"}, block : Blocks, try : 0 .. MaxTrys - 1]
    BY <1>1, MemoryConstants DEF StepAt
  <2>2. /\ space' \in [Addresses -> {Nothing, Anonymous, Foreign} \cup Frames]
        /\ dmaPMapBlk' \in [Blocks -> Areas \cup {0}]
        /\ fdMbox' \in MemoryFds \cup {NoFile}
        /\ descriptors' \in [MemoryFds -> {"nobody", "library", "others"}]
    BY <1>1, <1>4 DEF MemoryTypeOK
  <2> QED BY <1>1, <1>2, <1>4, <2>1, <2>2 DEF MemoryTypeOK
<1>6. ModesApart'
  BY <1>1, <1>2, <1>4 DEF ModesApart, NoMbox
<1>7. ArraysKnown' /\ EngineKnown' /\ Reserved'
  BY <1>1, <1>2, <1>3, <1>4 DEF MemoryInv, ArraysKnown, EngineKnown, Reserved, NoMbox
<1>8. Stopped'
  <2>1. NoPages' /\ \A b \in Blocks : dmaPMapBlk'[b] = 0
    BY <1>1, <1>2, <1>4 DEF Stopped, NoPages, NULL, Pages
  <2>2. Step' = "files" => \A b \in Blocks : dmaMboxBlk'[b] = NoMbox
    BY <1>2, <1>3, <1>4 DEF ArraysKnown
  <2>3. Step' = "free" => After(Block)' = {}
    <3>1. After(DmaBlocks - 1) = {}
      BY MemoryConstants DEF After, Blocks
    <3> QED BY <1>3, <3>1 DEF After, Blocks
  <2> QED BY <1>1, <1>2, <1>3, <1>4, <2>1, <2>2, <2>3 DEF Stopped, NoMbox
<1>9. ASSUME quiet PROVE MemoryQuiet'
  <2>1. MemoryQuiet
    BY <1>9 DEF MemoryInv, MemoryQuiet
  <2>2. Started' /\ FirmwareKnown'
    BY <1>2, <1>3, <2>1 DEF MemoryQuiet, Started, FirmwareKnown
  <2>3. \A p \in Pages : dmaVirt[p] = NULL
    BY <1>1, <1>4 DEF Stopped, NoPages
  <2>4. SpaceKnown'
    <3> SUFFICES ASSUME NEW a \in Addresses PROVE space'[a] \in {Nothing, Foreign}
      BY DEF SpaceKnown, Addresses, Pages, Frames, Nothing, Foreign, Anonymous
    <3>1. CASE space[a] = Anonymous
      <4>1. PICK c \in Blocks : dmaPMapBlk[c] = a[1]
        BY <2>1, <3>1, MappingsDiffer DEF MemoryQuiet, SpaceKnown
      <4>2. a \in PagesOf(dmaPMapBlk[c])
        BY <4>1 DEF PagesOf, Addresses
      <4> QED BY <1>1, <4>2
    <3>2. space[a] \notin Frames
      BY <2>1, <2>3, MappingsDiffer DEF MemoryQuiet, SpaceKnown
    <3> QED BY <1>1, <2>1, <3>1, <3>2 DEF MemoryQuiet, SpaceKnown
  <2>5. AreasApart'
    <3> DEFINE as == UNION {PagesOf(dmaPMapBlk[b]) : b \in Blocks}
    <3>1. \A q \in Areas : Owned(q)' => Owned(q)
      BY <1>1, <1>2, MemoryConstants DEF Owned
    <3>2. \A q \in Areas, n \in PageNos : <<q, n>> \in as => Owned(q)
      BY DEF Owned, PagesOf
    <3>3. space' = [a \in Addresses |-> IF a \in as THEN Nothing ELSE space[a]]
      BY <1>1
    <3> HIDE DEF as
    <3> QED BY <1>2, <1>9, <3>1, <3>2, <3>3, TheyKeepAreas
  <2>6. FilesKnown /\ FilesApart /\ descriptors \in [MemoryFds -> {"nobody", "library", "others"}]
        /\ theirFds \subseteq MemoryFds
    BY <1>4, <2>1 DEF MemoryQuiet, MemoryTypeOK
  <2>7. \A d \in MemoryFds : descriptors[d] # "library"
    BY <1>1, <2>6 DEF FilesKnown
  <2>8. FilesKnown'
    BY <1>1, <1>2, <1>3, <2>6, <2>7 DEF FilesKnown, NoFile
  <2>9. FilesApart'
    <3> SUFFICES ASSUME ~reused
                 PROVE  /\ \A d \in theirFds : descriptors'[d] = "others"
                        /\ fdPmap \notin theirFds /\ fdMbox' \notin theirFds
      BY <1>2 DEF FilesApart
    <3>1. fdPmap \notin theirFds /\ \A d \in theirFds : descriptors[d] = "others"
      BY <2>6 DEF FilesApart
    <3>2. CASE descriptors' = descriptors /\ fdMbox' = NoFile
      BY <2>6, <3>1, <3>2, MemoryConstants
    <3>3. CASE \E d \in MemoryFds : /\ descriptors[d] = "nobody" /\ fdMbox' = d
                                    /\ descriptors' = [descriptors EXCEPT ![d] = "library"]
      BY <2>6, <3>1, <3>3
    <3>4. CASE "dmaMboxBlk" \notin arrays /\ fdMbox' = fdMbox /\ descriptors' = descriptors
      <4>1. fdMbox = NoFile
        BY <1>1, <2>6, <3>4 DEF FilesKnown
      <4> QED BY <3>2, <3>4, <4>1
    <3> QED BY <1>1, <3>2, <3>3, <3>4
  <2> QED BY <2>2, <2>4, <2>5, <2>8, <2>9 DEF MemoryQuiet
<1> QED BY <1>2, <1>5, <1>6, <1>7, <1>8, <1>9 DEF MemoryInv, MemoryQuiet

\* the memory of the firmware, from the last block to the first,
LEMMA MboxReleased ==
  ASSUME MemoryInv, ReleaseMbox
  PROVE  MemoryInv'
<1>b. PICK b \in Blocks : b = Block
  BY DEF MemoryInv, MemoryTypeOK, Block
<1> DEFINE area == dmaMboxBlk[b].virtual_addr
           handle == dmaMboxBlk[b].handle
<1>1. /\ Step = "free"
      /\ space' = [a \in Addresses |-> IF a \in PagesOf(area) THEN Nothing ELSE space[a]]
      /\ firmware' = [m \in Memories |-> IF m = handle /\ fdMbox # NoFile THEN "free" ELSE firmware[m]]
      /\ lost' = (lost \/ (handle # 0 /\ fdMbox = NoFile))
      /\ dmaMboxBlk' = [dmaMboxBlk EXCEPT ![b] = NoMbox]
  BY <1>b DEF ReleaseMbox, mbDMAFree, Unmapped
<1>2. \/ b > 0 /\ memoryAt' = StepAt("free", b - 1, 0) /\ UNCHANGED <<arrays, descriptors>>
      \/ /\ b = 0 /\ memoryAt' = StepAt("files", 0, 0)
         /\ arrays' = arrays \ {"dmaMboxBlk"} /\ descriptors' = Closed(descriptors, fdMbox)
  BY <1>b DEF ReleaseMbox, Blocks
<1>3. UNCHANGED <<memAllocMode, registers, dmaVirt, dmaBus, dmaPMapBlk, fdPmap, fdMbox, active,
                  restarting, stalled, theirs, theirFds, quiet, reused>>
  BY DEF ReleaseMbox, engine, others
<1> HIDE DEF area, handle
<1>4. /\ Step' \in {"free", "files"}
      /\ Step' = "free" => b > 0 /\ Block' = b - 1
      /\ Step' = "files" => b = 0
  BY <1>2, StepIsAt
<1>5. MemoryTypeOK /\ ModesApart /\ ArraysKnown /\ Stopped
  BY DEF MemoryInv
<1>6. \A c \in Blocks : dmaMboxBlk'[c] = IF c = b THEN NoMbox ELSE dmaMboxBlk[c]
  BY <1>1, <1>5 DEF MemoryTypeOK
<1>7. MemoryTypeOK'
  <2>1. memoryAt' \in [step : {"free", "files"}, block : Blocks, try : 0 .. MaxTrys - 1]
    BY <1>2, MemoryConstants DEF StepAt, Blocks
  <2>2. /\ space' \in [Addresses -> {Nothing, Anonymous, Foreign} \cup Frames]
        /\ firmware' \in [Memories -> {"free", "allocated", "locked"}]
        /\ descriptors' \in [MemoryFds -> {"nobody", "library", "others"}]
    BY <1>1, <1>2, <1>5 DEF MemoryTypeOK, Closed
  <2>3. dmaMboxBlk' \in [Blocks -> [handle : Memories \cup {0}, virtual_addr : Areas \cup {0}]]
    <3>1. NoMbox \in [handle : Memories \cup {0}, virtual_addr : Areas \cup {0}]
      BY DEF NoMbox
    <3> QED BY <1>1, <1>5, <3>1 DEF MemoryTypeOK
  <2>4. lost' \in BOOLEAN
    BY <1>1, <1>5 DEF MemoryTypeOK
  <2>5. arrays' \subseteq Arrays
    BY <1>2, <1>5 DEF MemoryTypeOK
  <2> QED BY <1>3, <1>5, <2>1, <2>2, <2>3, <2>4, <2>5 DEF MemoryTypeOK
<1>8. ModesApart'
  BY <1>3, <1>5, <1>6 DEF ModesApart, NoMbox
<1>9. Stopped'
  <2>1. NoPages' /\ (\A c \in Blocks : dmaPMapBlk'[c] = 0) /\ registers' \subseteq {"pads"}
    BY <1>1, <1>3, <1>5 DEF Stopped, NoPages, NULL, Pages
  <2>2. \A c \in Blocks : c > b => dmaMboxBlk[c] = NoMbox
    BY <1>b, <1>1, <1>5 DEF Stopped, After
  <2>3. \A c \in Blocks : c > b - 1 => dmaMboxBlk'[c] = NoMbox
    BY <1>6, <2>2, MemoryConstants
  <2>4. CASE Step' = "free"
    <3>1. \A c \in After(Block)' : c \in Blocks /\ c > b - 1
      BY <1>4, <2>4 DEF After, Blocks
    <3>2. \A c \in After(Block)' : dmaMboxBlk'[c] = NoMbox
      BY <2>3, <3>1
    <3> QED BY <2>1, <2>4, <3>2 DEF Stopped, NoMbox
  <2>5. CASE Step' = "files"
    <3>1. \A c \in Blocks : dmaMboxBlk'[c] = NoMbox
      BY <1>4, <2>3, <2>5, MemoryConstants DEF Blocks
    <3> QED BY <2>1, <2>5, <3>1 DEF Stopped, NoMbox
  <2> QED BY <1>4, <2>4, <2>5
<1>10. ArraysKnown' /\ EngineKnown' /\ Reserved'
  <2>1. Step' = "files" => \A c \in Blocks : dmaMboxBlk'[c] = NoMbox
    BY <1>9 DEF Stopped, NoMbox
  <2>2. ArraysKnown'
    <3>1. /\ arrays \subseteq {"dmaMboxBlk"}
          /\ (\E c \in Blocks : dmaMboxBlk[c] # NoMbox) => "dmaMboxBlk" \in arrays
      BY <1>1, <1>5 DEF ArraysKnown
    <3>2. CASE Step' = "free" /\ arrays' = arrays
      BY <1>6, <3>1, <3>2 DEF ArraysKnown, NoMbox
    <3>3. CASE Step' = "files" /\ arrays' = arrays \ {"dmaMboxBlk"}
      BY <2>1, <3>1, <3>3 DEF ArraysKnown, NoMbox
    <3> QED BY <1>2, <1>4, <3>2, <3>3, StepIsAt
  <2>3. EngineKnown' /\ Reserved'
    BY <1>1, <1>3, <1>4 DEF MemoryInv, EngineKnown, Reserved
  <2> QED BY <2>2, <2>3
<1>11. ASSUME quiet PROVE MemoryQuiet'
  <2>1. MemoryQuiet
    BY <1>11 DEF MemoryInv, MemoryQuiet
  <2>2. Started'
    BY <1>4 DEF Started
  <2>3. SpaceKnown'
    <3> SUFFICES ASSUME NEW a \in Addresses
                 PROVE  \/ space'[a] \in {Nothing, Foreign}
                        \/ space'[a] = Anonymous /\ \E c \in Blocks : dmaPMapBlk'[c] = a[1]
                        \/ space'[a] \in Frames /\ \E p \in Pages : dmaVirt'[p] = a
      BY DEF SpaceKnown, Addresses, Pages, Frames, Nothing, Foreign, Anonymous
    <3> QED BY <1>1, <1>3, <2>1 DEF MemoryQuiet, SpaceKnown
  <2>4. FirmwareKnown'
    <3> SUFFICES ASSUME ~lost', NEW m \in Memories, firmware'[m] # "free"
                 PROVE  \E c \in Blocks : dmaMboxBlk'[c].handle = m
      BY DEF FirmwareKnown
    <3>1. ~lost /\ (handle = 0 \/ fdMbox # NoFile)
      BY <1>1
    <3>2. m # handle /\ firmware[m] # "free"
      BY <1>1, <3>1, MemoryConstants
    <3>3. PICK c \in Blocks : dmaMboxBlk[c].handle = m
      BY <2>1, <3>1, <3>2 DEF MemoryQuiet, FirmwareKnown
    <3>4. c # b
      BY <3>2, <3>3 DEF handle
    <3> QED BY <1>6, <3>3, <3>4
  <2>5. AreasApart'
    <3>1. \A q \in Areas : Owned(q)' => Owned(q)
      <4> SUFFICES ASSUME NEW q \in Areas, Owned(q)' PROVE Owned(q)
        OBVIOUS
      <4>1. NoMbox.virtual_addr # q
        BY MemoryConstants DEF NoMbox
      <4> QED BY <1>3, <1>6, <4>1 DEF Owned
    <3>2. \A q \in Areas, n \in PageNos : <<q, n>> \in PagesOf(area) => Owned(q)
      BY DEF Owned, PagesOf, area
    <3> QED BY <1>1, <1>3, <1>11, <3>1, <3>2, TheyKeepAreas
  <2>6. FilesKnown /\ FilesApart /\ descriptors \in [MemoryFds -> {"nobody", "library", "others"}]
        /\ theirFds \subseteq MemoryFds
    BY <1>5, <2>1 DEF MemoryQuiet, MemoryTypeOK
  <2>7. CASE Step' = "free" /\ UNCHANGED <<arrays, descriptors>>
    <3>1. FilesKnown' /\ FilesApart'
      BY <1>1, <1>3, <2>6, <2>7 DEF FilesKnown, FilesApart, NoFile
    <3> QED BY <2>2, <2>3, <2>4, <2>5, <3>1 DEF MemoryQuiet
  <2>8. CASE /\ Step' = "files" /\ arrays' = arrays \ {"dmaMboxBlk"}
             /\ descriptors' = Closed(descriptors, fdMbox)
    <3>1. \A d \in MemoryFds : descriptors'[d] = IF d = fdMbox THEN "nobody" ELSE descriptors[d]
      BY <2>8 DEF Closed
    <3>2. \A d \in MemoryFds : descriptors'[d] # "library"
      BY <1>1, <2>6, <3>1 DEF FilesKnown
    <3>3. FilesKnown'
      BY <1>3, <2>6, <2>8, <3>2 DEF FilesKnown, NoFile
    <3>4. FilesApart'
      BY <1>1, <1>3, <2>6, <2>8, <3>1 DEF FilesApart
    <3> QED BY <2>2, <2>3, <2>4, <2>5, <3>3, <3>4 DEF MemoryQuiet
  <2> QED BY <1>2, <2>7, <2>8, StepIsAt
<1> QED BY <1>3, <1>7, <1>8, <1>9, <1>10, <1>11 DEF MemoryInv, MemoryQuiet

\* and closes descriptors, of which some are closed already.
LEMMA FilesReleased ==
  ASSUME MemoryInv, ReleaseFiles
  PROVE  MemoryInv'
<1>1. /\ Step = "files" /\ fdPmap' = NoFile /\ fdMbox' = NoFile /\ memoryAt' = StepAt("down", 0, 0)
      /\ descriptors' = Closed(Closed(descriptors, fdPmap), fdMbox)
  BY DEF ReleaseFiles
<1>2. UNCHANGED <<memAllocMode, registers, arrays, space, dmaVirt, dmaBus, dmaPMapBlk, dmaMboxBlk, firmware,
                  active, restarting, stalled, theirs, theirFds, quiet, reused, lost>>
  BY DEF ReleaseFiles, tables, engine, others
<1>3. Step' = "down"
  BY <1>1, StepIsAt
<1>4. MemoryTypeOK /\ ModesApart /\ ArraysKnown /\ Stopped
  BY DEF MemoryInv
<1>5. \A d \in MemoryFds : descriptors'[d] = IF d = fdPmap \/ d = fdMbox THEN "nobody" ELSE descriptors[d]
  BY <1>1 DEF Closed
<1>6. MemoryTypeOK'
  <2>1. memoryAt' \in [step : {"down"}, block : Blocks, try : 0 .. MaxTrys - 1]
    BY <1>1, MemoryConstants DEF StepAt
  <2>2. descriptors' \in [MemoryFds -> {"nobody", "library", "others"}]
    BY <1>1, <1>4 DEF MemoryTypeOK, Closed
  <2> QED BY <1>1, <1>2, <1>4, <2>1, <2>2 DEF MemoryTypeOK
<1>7. ModesApart' /\ ArraysKnown' /\ EngineKnown' /\ Reserved'
  BY <1>1, <1>2, <1>3, <1>4 DEF MemoryInv, ModesApart, ArraysKnown, EngineKnown, Reserved, NoMbox
<1>8. Stopped'
  <2>1. \A b \in Blocks : /\ dmaPMapBlk[b] = 0 /\ dmaMboxBlk[b] = NoMbox
                          /\ \A n \in PageNos : dmaVirt[<<b, n>>] = NULL
    BY <1>1, <1>4, PagesArePairs DEF Stopped, NoPages
  <2>2. \A b \in Blocks : Blank(b)'
    BY <1>2, <2>1 DEF Blank, NULL, NoMbox, PageNos
  <2> QED BY <1>1, <1>2, <1>3, <1>4, <2>2 DEF Stopped
<1>9. ASSUME quiet PROVE MemoryQuiet'
  <2>1. MemoryQuiet
    BY <1>9 DEF MemoryInv, MemoryQuiet
  <2>2. Started' /\ SpaceKnown' /\ FirmwareKnown' /\ AreasApart'
    BY <1>2, <1>3, <2>1 DEF MemoryQuiet, Started, SpaceKnown, FirmwareKnown, AreasApart, Owned
  <2>3. FilesKnown'
    BY <1>1, <1>2, <1>3, <1>5, <2>1 DEF MemoryQuiet, FilesKnown, NoFile
  <2>4. FilesApart'
    <3>1. theirFds \subseteq MemoryFds
      BY <1>4 DEF MemoryTypeOK
    <3> QED BY <1>1, <1>2, <1>3, <1>5, <2>1, <3>1, MemoryConstants DEF MemoryQuiet, FilesApart
  <2> QED BY <2>2, <2>3, <2>4 DEF MemoryQuiet
<1> QED BY <1>2, <1>6, <1>7, <1>8, <1>9 DEF MemoryInv, MemoryQuiet

-----------------------------------------------------------------------------
\* Before the first start the library has nothing.
LEMMA MemoryInvInit ==
  ASSUME MemoryInit
  PROVE  MemoryInv
<1>1. Step = "down" /\ \A b \in Blocks : Blank(b)
  <2>1. Step = "down"
    BY DEF MemoryInit, StepAt, Step
  <2>2. ASSUME NEW b \in Blocks PROVE Blank(b)
    BY PagesArePairs DEF MemoryInit, Blank
  <2> QED BY <2>1, <2>2
<1>2. MemoryTypeOK
  <2>1. memoryAt \in [step : {"down"}, block : Blocks, try : 0 .. MaxTrys - 1]
    BY MemoryConstants DEF MemoryInit, StepAt
  <2>2. dmaMboxBlk \in [Blocks -> [handle : Memories \cup {0}, virtual_addr : Areas \cup {0}]]
    BY DEF MemoryInit, NoMbox
  <2>3. {active, restarting, quiet, reused, stalled, lost} \subseteq BOOLEAN
    BY DEF MemoryInit
  <2> QED BY <2>1, <2>2, <2>3 DEF MemoryInit, MemoryTypeOK
<1>3. ModesApart /\ ArraysKnown /\ EngineKnown /\ Stopped /\ Reserved
  BY <1>1 DEF MemoryInit, ModesApart, ArraysKnown, EngineKnown, Stopped, Reserved
<1>4. Started /\ SpaceKnown /\ FirmwareKnown /\ AreasApart /\ FilesKnown /\ FilesApart
  BY <1>1 DEF MemoryInit, Started, SpaceKnown, FirmwareKnown, AreasApart, FilesKnown, FilesApart
<1> QED BY <1>2, <1>3, <1>4 DEF MemoryInv

\* Every step keeps the invariant,
LEMMA MemoryInvNext ==
  ASSUME MemoryInv, [MemoryNext]_memoryVars
  PROVE  MemoryInv'
<1>1. CASE UNCHANGED memoryVars
  <2>1. Untouched /\ UNCHANGED others /\ memoryAt' = memoryAt /\ UNCHANGED engine
    BY <1>1 DEF memoryVars, Untouched, others, engine, tables
  <2>2. active' \in BOOLEAN /\ restarting' \in BOOLEAN /\ stalled' \in BOOLEAN
    BY <2>1 DEF MemoryInv, MemoryTypeOK, engine
  <2>3. MemoryPlain' /\ (quiet' => MemoryQuiet')
    BY <2>1, <2>2, UntouchedKeeps DEF Onward
  <2>4. EngineKnown'
    BY <2>1 DEF MemoryInv, EngineKnown, engine, Step
  <2> QED BY <2>3, <2>4 DEF MemoryInv, MemoryPlain, MemoryQuiet
<1>2. CASE MemoryNext
  BY <1>2, PeripheralsKeep, ArraysKeep, PagemapBlockKeeps, ZapsKeep, MboxBlockKeeps, EngineLeavesMemory,
     PagesReleased, BlocksReleased, MboxReleased, FilesReleased, OthersKeepInv DEF MemoryNext
<1> QED BY <1>1, <1>2

\* which holds what the properties say.
LEMMA MemoryInvKeeps ==
  ASSUME MemoryInv
  PROVE  MemoryKept
<1>1. MemoryTypeOK
  BY DEF MemoryInv
<1>2. EngineHasItsMemory
  <2> SUFFICES ASSUME quiet, Step \in {"threads", "up"} \/ (active /\ ~stalled), NEW p \in Pages
               PROVE  /\ dmaVirt[p] \in Addresses /\ dmaBus[p] \in Frames
                      /\ space[dmaVirt[p]] = dmaBus[p] /\ Held(dmaBus[p])
                      /\ \A o \in Pages \ {p} : dmaVirt[o] # dmaVirt[p] /\ dmaBus[o] # dmaBus[p]
    BY DEF EngineHasItsMemory
  <2>1. (\A b \in Blocks : Done(b)) /\ OwnersApart(Blocks)
    BY DEF MemoryInv, Started, EngineKnown
  <2>2. \A b \in Blocks, n \in PageNos :
          /\ Window(b) \in Areas /\ Owner(b) \in Areas \cup Memories
          /\ dmaVirt[<<b, n>>] = <<Window(b), n>>
          /\ dmaBus[<<b, n>>] = Physical(Owner(b), n)
          /\ space[<<Window(b), n>>] = Physical(Owner(b), n)
          /\ IF Owner(b) \in Areas THEN space[<<Owner(b), n>>] = Anonymous
                                   ELSE firmware[Owner(b)] = "locked"
    <3> SUFFICES ASSUME NEW b \in Blocks, NEW n \in PageNos
                 PROVE  /\ Window(b) \in Areas /\ Owner(b) \in Areas \cup Memories
                        /\ dmaVirt[<<b, n>>] = <<Window(b), n>>
                        /\ dmaBus[<<b, n>>] = Physical(Owner(b), n)
                        /\ space[<<Window(b), n>>] = Physical(Owner(b), n)
                        /\ IF Owner(b) \in Areas THEN space[<<Owner(b), n>>] = Anonymous
                                                 ELSE firmware[Owner(b)] = "locked"
      OBVIOUS
    <3>1. Done(b)
      BY <2>1
    <3> QED BY <3>1, MemoryConstants DEF Done
  <2>3. PICK b \in Blocks, n \in PageNos : p = <<b, n>>
    BY PagesArePairs
  <2>4. dmaVirt[p] = <<Window(b), n>> /\ dmaBus[p] = Physical(Owner(b), n)
    BY <2>2, <2>3
  <2>5. dmaVirt[p] \in Addresses /\ dmaBus[p] \in Frames /\ space[dmaVirt[p]] = dmaBus[p]
    <3>1. Window(b) \in Areas /\ Owner(b) \in Areas \cup Memories
      BY <2>2
    <3>2. <<Window(b), n>> \in Addresses /\ Physical(Owner(b), n) \in Frames
      BY <3>1, MappingsDiffer
    <3>3. space[<<Window(b), n>>] = Physical(Owner(b), n)
      BY <2>2
    <3> QED BY <2>4, <3>2, <3>3
  <2>6. Held(dmaBus[p])
    <3>1. dmaBus[p][2] = Owner(b) /\ dmaBus[p][3] = n
      BY <2>4 DEF Physical
    <3>2. IF Owner(b) \in Areas THEN space[<<Owner(b), n>>] = Anonymous
                               ELSE firmware[Owner(b)] = "locked"
      BY <2>2
    <3> QED BY <3>1, <3>2 DEF Held
  <2>7. ASSUME NEW o \in Pages \ {p} PROVE dmaVirt[o] # dmaVirt[p] /\ dmaBus[o] # dmaBus[p]
    <3>1. PICK c \in Blocks, m \in PageNos : o = <<c, m>>
      BY PagesArePairs
    <3>2. dmaVirt[o] = <<Window(c), m>> /\ dmaBus[o] = Physical(Owner(c), m)
      BY <2>2, <3>1
    <3>3. dmaBus[o] # dmaBus[p]
      <4> SUFFICES ASSUME dmaBus[o] = dmaBus[p] PROVE FALSE
        OBVIOUS
      <4>1. Owner(c) = Owner(b) /\ m = n
        BY <2>4, <3>2, MappingsDiffer
      <4>2. c = b
        BY <2>1, <4>1 DEF OwnersApart
      <4> QED BY <2>3, <3>1, <4>1, <4>2
    <3>4. space[dmaVirt[o]] = dmaBus[o]
      BY <2>2, <3>1, <3>2
    <3> QED BY <2>5, <3>3, <3>4
  <2> QED BY <2>5, <2>6, <2>7
<1>3. EverythingGivenBack
  <2> SUFFICES ASSUME quiet, Step = "down"
               PROVE  /\ registers \subseteq {"pads"} /\ arrays = {}
                      /\ \A a \in Addresses : space[a] \in {Nothing, Foreign}
                      /\ \A d \in MemoryFds : descriptors[d] # "library"
                      /\ ~lost => \A m \in Memories : firmware[m] = "free"
    BY DEF EverythingGivenBack
  <2>1. \A b \in Blocks : /\ dmaPMapBlk[b] = 0 /\ dmaMboxBlk[b].handle = 0
                          /\ \A n \in PageNos : dmaVirt[<<b, n>>] = NULL
    BY DEF MemoryInv, Stopped, Blank, NoMbox
  <2>2. registers \subseteq {"pads"} /\ arrays = {}
    BY DEF MemoryInv, Stopped, ArraysKnown
  <2>3. \A a \in Addresses : space[a] \in {Nothing, Foreign}
    <3> SUFFICES ASSUME NEW a \in Addresses PROVE space[a] \in {Nothing, Foreign}
      OBVIOUS
    <3>1. a[1] # 0 /\ a # NULL
      BY MemoryConstants, MappingsDiffer DEF Addresses
    <3>2. \A p \in Pages : dmaVirt[p] # a
      BY <2>1, <3>1, PagesArePairs
    <3>3. \A b \in Blocks : dmaPMapBlk[b] # a[1]
      BY <2>1, <3>1
    <3> QED BY <3>2, <3>3 DEF MemoryInv, SpaceKnown
  <2>4. \A d \in MemoryFds : descriptors[d] # "library"
    BY DEF MemoryInv, FilesKnown
  <2>5. ~lost => \A m \in Memories : firmware[m] = "free"
    BY <2>1, MemoryConstants DEF MemoryInv, FirmwareKnown
  <2> QED BY <2>2, <2>3, <2>4, <2>5
<1>4. OthersKeepTheirs
  BY DEF MemoryInv, AreasApart, FilesApart, OthersKeepTheirs
<1> QED BY <1>1, <1>2, <1>3, <1>4 DEF MemoryKept

\* From the last block on and wherever the engine runs, each of its pages has an address and
\* a bus address of its own, of the same physical page, and that is held; a library that is
\* down, whichever step of its start failed, has given everything back; and it takes nothing
\* from the other threads, as long as they were quiet.
THEOREM MemoryKeptAlways == MemorySpec => []MemoryKept
<1>1. MemoryInit => MemoryInv
  BY MemoryInvInit
<1>2. MemoryInv /\ [MemoryNext]_memoryVars => MemoryInv'
  BY MemoryInvNext
<1>3. MemoryInv => MemoryKept
  BY MemoryInvKeeps
<1> QED BY <1>1, <1>2, <1>3, PTL DEF MemorySpec

=============================================================================
