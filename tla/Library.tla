------------------------------ MODULE Library ------------------------------
(***************************************************************************)
(* gpioInitialise and gpioTerminate of pigpio.c inside one process: the    *)
(* stages of initInitialise, each of which may fail, the threads that it   *)
(* and the calls after it start, and initReleaseResources, which stops the *)
(* threads and unmaps what they use.                                       *)
(*                                                                         *)
(* The alert, fifo and socket threads wait in spinWhileStarting until      *)
(* runState leaves PI_STARTING; that loop has no point at which a thread   *)
(* can be cancelled.  The caller joins the threads it cancels.             *)
(***************************************************************************)
EXTENDS Integers, Sequences

CONSTANT Configurations   \* sets of interfaces gpioCfgInterfaces disables

Interfaces == {"alert", "fifo", "socket"}
Joined == Interfaces \cup {"timer", "isr"}    \* the threads the library joins
\* Threads of a socket client, of a script and of gpioStartThread.
Strays == {"connection", "script", "user"}

ASSUME LibraryAssumption == Configurations \subseteq SUBSET Interfaces

InitStages == <<"mem", "lock", "registers", "dma", "alert", "fifo", "socket">>
\* (mutant: the memory is unmapped before the alert thread is stopped)
ReleaseMemoryEarly == <<"isr", "timer", "memory", "alert", "fifo", "socket", "files">>
ReleaseStages == <<"isr", "timer", "alert", "fifo", "socket", "memory", "files">>
Resources == {"mem", "lock", "registers", "pads", "dma", "port"}

VARIABLES
    libInitialised, runState,
    pc,          \* what the caller executes, and the stage
    held,        \* the resources the process holds
    thread,      \* every thread: "none", "spinning", "working" or "ended"
    cancelled,   \* the threads with a cancellation pending
    running,     \* pthAlertRunning, pthFifoRunning, pthSocketRunning, the
                 \* timer's running flag and whether the ISR has its pth
    exported,    \* gpioISR[].inited
    disabled     \* gpioCfg.ifFlags

libVars == <<libInitialised, runState, pc, held, thread, cancelled, running,
             exported, disabled>>

LibraryTypeOK ==
    /\ libInitialised \in BOOLEAN
    /\ runState \in {"STARTING", "RUNNING", "ENDING"}
    /\ pc \in {<<"idle", 0>>, <<"waiting", 0>>}
              \cup ({"init", "release", "join"} \X (1 .. Len(InitStages)))
    /\ held \subseteq Resources
    /\ thread \in [Joined \cup Strays -> {"none", "spinning", "working", "ended"}]
    /\ cancelled \subseteq Joined
    /\ running \in [Joined -> {"NONE", "STARTED", "RUNNING"}]
    /\ exported \in BOOLEAN
    /\ disabled \in Configurations

LibraryInit ==
    /\ libInitialised = FALSE
    /\ runState = "STARTING"
    /\ pc = <<"idle", 0>>
    /\ held = {}
    /\ thread = [t \in Joined \cup Strays |-> "none"]
    /\ cancelled = {}
    /\ running = [t \in Joined |-> "NONE"]
    /\ exported = FALSE
    /\ disabled \in Configurations

(***************************************************************************)
(* gpioInitialise                                                          *)
(***************************************************************************)
\* The entry, with initClearGlobals, which forgets threads and timers.
gpioInitialise ==
    /\ pc[1] = "idle" /\ ~ libInitialised
    /\ runState' = "STARTING"
    /\ running' = [t \in Joined |-> IF t = "isr" THEN running[t] ELSE "NONE"]
    /\ pc' = <<"init", 1>>
    /\ UNCHANGED <<libInitialised, held, thread, cancelled, exported, disabled>>

\* libInitialised and runState are set, and the caller waits for the alert
\* thread's first samples, unless there is no alert thread.
Succeed ==
    /\ libInitialised' = TRUE
    /\ runState' = "RUNNING"
    /\ pc' = IF "alert" \in disabled THEN <<"idle", 0>> ELSE <<"waiting", 0>>

Proceed ==
    IF pc[2] = Len(InitStages) THEN Succeed
    ELSE pc' = <<"init", pc[2] + 1>> /\ UNCHANGED <<libInitialised, runState>>

\* The descriptor of /dev/mem is closed once the memory is mapped.
Acquire(stage) ==
    /\ stage \in {"mem", "lock", "registers", "dma"}
    /\ held' = CASE stage = "registers" -> held \cup {"registers", "pads"}
                 [] stage = "dma" -> (held \cup {"dma"}) \ {"mem"}
                 [] OTHER -> held \cup {stage}
    /\ Proceed
    /\ UNCHANGED <<thread, cancelled, running, exported, disabled>>

StartInterface(stage) ==
    /\ stage \in Interfaces \ disabled
    /\ thread' = [thread EXCEPT ![stage] = "spinning"]
    /\ running' = [running EXCEPT ![stage] = "STARTED"]
    /\ held' = IF stage = "socket" THEN held \cup {"port"} ELSE held
    /\ Proceed
    /\ UNCHANGED <<cancelled, exported, disabled>>

SkipInterface(stage) ==
    /\ stage \in disabled
    /\ Proceed
    /\ UNCHANGED <<held, thread, cancelled, running, exported, disabled>>

\* A stage fails, perhaps after it mapped or bound a part of its own.
FailStage(stage) ==
    /\ stage \notin disabled
    /\ runState' = "ENDING"
    /\ pc' = <<"release", 1>>
    /\ held' \in {held, held \cup (CASE stage = "registers" -> {"registers", "pads"}
                                     [] stage = "dma" -> {"dma"}
                                     [] stage = "socket" -> {"port"}
                                     [] OTHER -> {})}
    /\ UNCHANGED <<libInitialised, thread, cancelled, running, exported, disabled>>

InitStage ==
    /\ pc[1] = "init"
    /\ LET stage == InitStages[pc[2]]
       IN  Acquire(stage) \/ StartInterface(stage) \/ SkipInterface(stage)
           \/ FailStage(stage)

AlertSeen ==
    /\ pc[1] = "waiting" /\ running["alert"] = "RUNNING"
    /\ pc' = <<"idle", 0>>
    /\ UNCHANGED <<libInitialised, runState, held, thread, cancelled, running,
                   exported, disabled>>

(***************************************************************************)
(* gpioTerminate, and the undoing of a failed initialisation               *)
(***************************************************************************)
gpioTerminate ==
    /\ pc[1] = "idle" /\ libInitialised
    /\ runState' = "ENDING"
    /\ pc' = <<"release", 1>>
    /\ UNCHANGED <<libInitialised, held, thread, cancelled, running, exported,
                   disabled>>

CancelThread(t) ==
    /\ running[t] # "NONE"
    /\ cancelled' = cancelled \cup {t}
    /\ pc' = <<"join", pc[2]>>
    /\ UNCHANGED <<libInitialised, held, thread, running, exported>>

ReleaseStage ==
    /\ pc[1] = "release"
    /\ LET stage == ReleaseStages[pc[2]]
       IN  \/ stage \in Joined /\ CancelThread(stage)
           \/ /\ stage \in Joined /\ running[stage] = "NONE"
              /\ pc' = <<"release", pc[2] + 1>>
              /\ UNCHANGED <<libInitialised, held, thread, cancelled, running, exported>>
           \/ /\ stage = "memory"
              /\ held' = held \ {"registers", "dma"}
              /\ pc' = <<"release", pc[2] + 1>>
              /\ UNCHANGED <<libInitialised, thread, cancelled, running, exported>>
           \/ /\ stage = "files"
              /\ held' = held \ {"mem", "lock", "port"}
              /\ libInitialised' = FALSE
              /\ pc' = <<"idle", 0>>
              /\ UNCHANGED <<thread, cancelled, running, exported>>
    /\ UNCHANGED <<runState, disabled>>

\* pthread_join; gpioSetISRFunc then unexports the GPIO, which may fail.
JoinThread ==
    /\ pc[1] = "join"
    /\ LET t == ReleaseStages[pc[2]]
       IN  /\ thread[t] = "ended"
           /\ thread' = [thread EXCEPT ![t] = "none"]
           /\ running' = [running EXCEPT ![t] = "NONE"]
           /\ cancelled' = cancelled \ {t}
           /\ exported' \in IF t = "isr" THEN {FALSE, exported} ELSE {exported}
    /\ pc' = <<"release", pc[2] + 1>>
    /\ UNCHANGED <<libInitialised, runState, held, disabled>>

(***************************************************************************)
(* The threads                                                             *)
(***************************************************************************)
\* (mutant: the threads wait for the library to run)
LeaveSpinRunning(t) ==
    /\ thread[t] = "spinning" /\ runState = "RUNNING"
    /\ thread' = [thread EXCEPT ![t] = "working"]
    /\ UNCHANGED <<libInitialised, runState, pc, held, cancelled, running,
                   exported, disabled>>
LeaveSpin(t) ==
    /\ thread[t] = "spinning" /\ runState # "STARTING"
    /\ thread' = [thread EXCEPT ![t] = "working"]
    /\ UNCHANGED <<libInitialised, runState, pc, held, cancelled, running,
                   exported, disabled>>

\* The alert thread has read the first samples.
AlertReady ==
    /\ thread["alert"] = "working" /\ running["alert"] = "STARTED"
    /\ running' = [running EXCEPT !["alert"] = "RUNNING"]
    /\ UNCHANGED <<libInitialised, runState, pc, held, thread, cancelled,
                   exported, disabled>>

\* A cancelled thread ends; the fifo and socket threads also end by
\* themselves when their descriptor fails.
EndThread(t) ==
    /\ thread[t] = "working"
    /\ t \in cancelled \/ t \in {"fifo", "socket"}
    /\ thread' = [thread EXCEPT ![t] = "ended"]
    /\ UNCHANGED <<libInitialised, runState, pc, held, cancelled, running,
                   exported, disabled>>

(***************************************************************************)
(* The calls that start and stop threads                                   *)
(***************************************************************************)
Ready == pc[1] = "idle" /\ libInitialised

\* gpioSetTimerFunc: the answer is 0 even if the thread cannot be created.
gpioSetTimerFunc(on) ==
    /\ Ready
    /\ IF on THEN running["timer"] = "NONE" /\ thread["timer"] = "none"
             ELSE running["timer"] # "NONE"
    /\ running' = [running EXCEPT !["timer"] = IF on THEN "STARTED" ELSE "NONE"]
    /\ thread' = [thread EXCEPT !["timer"] = IF on THEN "working" ELSE "none"]
    /\ UNCHANGED <<libInitialised, runState, pc, held, cancelled, exported, disabled>>

\* gpioSetISRFunc: exporting may fail before or after the GPIO is exported,
\* and the thread may not start.
SetISR ==
    /\ Ready /\ running["isr"] = "NONE"
    /\ exported' \in {exported, TRUE}
    /\ \/ UNCHANGED <<thread, running>>
       \/ /\ exported'
          /\ thread' = [thread EXCEPT !["isr"] = "working"]
          /\ running' = [running EXCEPT !["isr"] = "STARTED"]
    /\ UNCHANGED <<libInitialised, runState, pc, held, cancelled, disabled>>

ClearISR ==
    /\ Ready
    /\ thread' = [thread EXCEPT !["isr"] = "none"]
    /\ running' = [running EXCEPT !["isr"] = "NONE"]
    /\ exported' \in {FALSE, exported}
    /\ UNCHANGED <<libInitialised, runState, pc, held, cancelled, disabled>>

\* A client connects, a script is stored, gpioStartThread is called.
StartStray(t) ==
    /\ thread[t] = "none"
    /\ IF t = "connection" THEN thread["socket"] = "working" ELSE Ready
    /\ thread' = [thread EXCEPT ![t] = "working"]
    /\ UNCHANGED <<libInitialised, runState, pc, held, cancelled, running,
                   exported, disabled>>

\* The client leaves; gpioDeleteScript and gpioStopThread join.
StopStray(t) ==
    /\ thread[t] = "working"
    /\ t = "connection" \/ Ready
    /\ thread' = [thread EXCEPT ![t] = "none"]
    /\ UNCHANGED <<libInitialised, runState, pc, held, cancelled, running,
                   exported, disabled>>

Caller == gpioInitialise \/ InitStage \/ AlertSeen \/ gpioTerminate
          \/ ReleaseStage \/ JoinThread

LibraryNext ==
    \/ Caller
    \/ \E t \in Interfaces : LeaveSpin(t)
    \/ AlertReady
    \/ \E t \in Joined : EndThread(t)
    \/ \E on \in BOOLEAN : gpioSetTimerFunc(on)
    \/ SetISR \/ ClearISR
    \/ \E t \in Strays : StartStray(t) \/ StopStray(t)

\* A call under way goes on, and every thread is scheduled; nobody has to
\* make another call.
LibraryFairness ==
    /\ WF_libVars(InitStage \/ AlertSeen \/ ReleaseStage \/ JoinThread)
    /\ \A t \in Interfaces : WF_libVars(LeaveSpin(t))
    /\ WF_libVars(AlertReady)
    /\ \A t \in Joined : WF_libVars(t \in cancelled /\ EndThread(t))

LibrarySpec == LibraryInit /\ [][LibraryNext]_libVars /\ LibraryFairness

(***************************************************************************)
(* Properties                                                              *)
(***************************************************************************)
\* No thread the library joins runs over memory it has unmapped, whichever
\* stage failed and whenever the library is terminated.
ThreadsHaveTheirMemory ==
    \A t \in Joined : thread[t] = "working" => {"registers", "dma"} \subseteq held

\* A library that is down, be it terminated or never up, holds nothing (the
\* map of the pads registers excepted, which is never unmapped) and has
\* stopped every thread it joins.
DownHoldsNothing ==
    (pc[1] = "idle" /\ ~ libInitialised) =>
        /\ held \subseteq {"pads"}
        /\ \A t \in Joined : thread[t] = "none" /\ running[t] = "NONE"

\* gpioInitialise or gpioTerminate is under way: either is to return.
LibraryBusy == pc[1] # "idle"

\* Whatever stage fails and whenever the library goes down, its threads keep
\* their memory and it lets go of everything else.
LibraryLetsGo == LibraryTypeOK /\ ThreadsHaveTheirMemory /\ DownHoldsNothing

=============================================================================
