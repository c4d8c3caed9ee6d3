------------------------------ MODULE Scripts ------------------------------
(***************************************************************************)
(* The stored scripts of pigpio.c: a thread per script (pthScript), the    *)
(* caller that stores, runs, stops and deletes scripts, and the alert      *)
(* thread that wakes those waiting for a GPIO or an event (alertEmit).     *)
(* They share the script's record; some of its fields are read without its *)
(* mutex.  The condition variable wakes only a thread already waiting.     *)
(*                                                                         *)
(* What a script computes is left out: after each instruction the next is  *)
(* any instruction, so every program is covered.  A set of bits is empty   *)
(* or not: which GPIO or event a script waits for plays no part.           *)
(***************************************************************************)
EXTENDS Integers, FiniteSets

CONSTANTS
    ScriptIds,     \* 0 .. PI_MAX_SCRIPTS - 1
    Waits          \* what scripts wait for: a subset of {"gpio", "event"}

ASSUME ScriptsAssumption ==
    ScriptIds \subseteq Nat /\ Waits \subseteq {"gpio", "event"}

VARIABLES
    script,     \* gpioScript[]: [state, request, run_state, waitBits,
                \* eventBits, par]; par tells whether it is allocated
    at,         \* where each script's thread is
    locked,     \* whether the thread holds, or died holding, the mutex
    computed,   \* the scriptBits a thread computed and has not stored
    monitored,  \* scriptBits and scriptEventBits: the scripts with a bit in them
    alert,      \* the alert thread: what it reports and which scripts are left
    caller,     \* what the caller executes, and for which script
    pending,    \* history: runs accepted and not begun
    collided    \* history: two threads computed scriptBits at once

scriptVars == <<script, at, locked, computed, monitored, alert, caller, pending,
                collided>>

\* The places of pthScript: no thread; about to park; parked in the first
\* pthread_cond_wait; woken there; testing whether to go on; executing; in
\* scrWait or scrEvtWait before, in and after the wait; past the inner loop.
Places == {"none", "top", "parked", "started", "test", "exec", "enter", "store",
           "waiting", "woken", "leave", "after"}
InCondWait == {"parked", "waiting"}

ScriptsTypeOK ==
    /\ script \in [ScriptIds ->
          [state : {"FREE", "IN_USE", "DYING"}, request : {"HALT", "RUN"},
           run_state : {"INITING", "HALTED", "RUNNING", "WAITING", "FAILED"},
           waitBits : BOOLEAN, eventBits : BOOLEAN, par : BOOLEAN]]
    /\ at \in [ScriptIds -> Places \X {"gpio", "event", "-"}]
    /\ locked \in [ScriptIds -> BOOLEAN]
    /\ computed \in [ScriptIds -> SUBSET ScriptIds]
    /\ monitored \in [Waits -> SUBSET ScriptIds]
    /\ alert \in [kind : {"gpio", "event"}, left : SUBSET ScriptIds, waking : SUBSET ScriptIds]
    /\ caller \in {"idle", "halting", "stopping", "joining"} \X ScriptIds
    /\ pending \subseteq ScriptIds
    /\ collided \in BOOLEAN

NoScript == [state |-> "FREE", request |-> "HALT", run_state |-> "INITING",
             waitBits |-> FALSE, eventBits |-> FALSE, par |-> FALSE]

ScriptsInit ==
    /\ script = [s \in ScriptIds |-> NoScript]
    /\ at = [s \in ScriptIds |-> <<"none", "-">>]
    /\ locked = [s \in ScriptIds |-> FALSE]
    /\ computed = [s \in ScriptIds |-> {}]
    /\ monitored = [k \in Waits |-> {}]
    /\ alert = [kind |-> "gpio", left |-> {}, waking |-> {}]
    /\ caller \in {"idle"} \X ScriptIds
    /\ pending = {}
    /\ collided = FALSE

Move(s, place) == at' = [at EXCEPT ![s] = <<place, IF place = "test" THEN "-" ELSE @[2]>>]

\* pthread_cond_signal, for the script's thread and the caller or the alert
\* thread: lost unless the thread waits.
Signal(s) ==
    IF at[s][1] \in InCondWait
    THEN Move(s, IF at[s][1] = "parked" THEN "started" ELSE "woken")
    ELSE UNCHANGED at

(***************************************************************************)
(* The script's thread                                                     *)
(***************************************************************************)
OthersUnchanged == UNCHANGED <<alert, caller>>

Park(s) ==
    /\ at[s][1] = "top" /\ ~ locked[s]
    /\ script' = [script EXCEPT ![s].run_state = "HALTED"]
    /\ Move(s, "parked")
    /\ UNCHANGED <<locked, computed, monitored, pending, collided>>
    /\ OthersUnchanged

Begin(s) ==
    /\ at[s][1] = "started" /\ ~ locked[s]
    /\ script' = [script EXCEPT ![s].run_state = "RUNNING"]
    /\ pending' = pending \ {s}
    /\ Move(s, "test")
    /\ UNCHANGED <<locked, computed, monitored, collided>>
    /\ OthersUnchanged

Test(s) ==
    /\ at[s][1] = "test"
    /\ Move(s, IF script[s].request = "RUN" /\ script[s].run_state = "RUNNING"
               THEN "exec" ELSE "after")
    /\ UNCHANGED <<script, locked, computed, monitored, pending, collided>>
    /\ OthersUnchanged

\* One instruction: a command or a calculation; the end, or HALT; a pop from
\* an empty stack or a push on a full one; WAIT or EVTWT.
Execute(s) ==
    /\ at[s][1] = "exec"
    /\ \/ Move(s, "test") /\ UNCHANGED script
       \/ \E r \in {"HALTED", "FAILED"} :
            script' = [script EXCEPT ![s].run_state = r] /\ Move(s, "test")
       \/ \E k \in Waits : at' = [at EXCEPT ![s] = <<"enter", k>>] /\ UNCHANGED script
    /\ UNCHANGED <<locked, computed, monitored, pending, collided>>
    /\ OthersUnchanged

\* intScriptBits and intScriptEventBits: the bits of the scripts in use.
WithBits(scripts, kind) ==
    {s \in ScriptIds : /\ scripts[s].state = "IN_USE"
                       /\ IF kind = "gpio" THEN scripts[s].waitBits
                          ELSE scripts[s].eventBits}
Collision(s) ==
    collided' = (collided \/ \E r \in ScriptIds \ {s} : at[r][1] \in {"store", "leave"})

\* (mutant: the request is not looked at again)
EnterWaitBlindly(s) ==
    /\ at[s][1] = "enter" /\ ~ locked[s]
    /\ LET kind == at[s][2]
           waits == [script EXCEPT ![s].run_state = "WAITING",
                       ![s].waitBits = IF kind = "gpio" THEN TRUE ELSE @,
                       ![s].eventBits = IF kind = "event" THEN TRUE ELSE @]
       IN  /\ script' = waits
           /\ computed' = [computed EXCEPT ![s] = WithBits(waits, kind)]
    /\ locked' = [locked EXCEPT ![s] = TRUE]
    /\ Move(s, "store")
    /\ Collision(s)
    /\ UNCHANGED <<monitored, pending>>
    /\ OthersUnchanged
\* scrWait and scrEvtWait look at the request again under the mutex.
EnterWait(s) ==
    /\ at[s][1] = "enter" /\ ~ locked[s]
    /\ IF script[s].request # "RUN"
       THEN Move(s, "test") /\ UNCHANGED <<script, locked, computed, collided>>
       ELSE LET kind == at[s][2]
                waits == [script EXCEPT ![s].run_state = "WAITING",
                            ![s].waitBits = IF kind = "gpio" THEN TRUE ELSE @,
                            ![s].eventBits = IF kind = "event" THEN TRUE ELSE @]
            IN  /\ script' = waits
                /\ computed' = [computed EXCEPT ![s] = WithBits(waits, kind)]
                /\ locked' = [locked EXCEPT ![s] = TRUE]
                /\ Move(s, "store")
                /\ Collision(s)
    /\ UNCHANGED <<monitored, pending>>
    /\ OthersUnchanged

StoreAndWait(s) ==
    /\ at[s][1] = "store"
    /\ monitored' = [monitored EXCEPT ![at[s][2]] = computed[s]]
    /\ computed' = [computed EXCEPT ![s] = {}]
    /\ locked' = [locked EXCEPT ![s] = FALSE]
    /\ Move(s, "waiting")
    /\ UNCHANGED <<script, pending, collided>>
    /\ OthersUnchanged

\* Both functions clear waitBits; only scrEvtWait's caller set eventBits.
LeaveWait(s) ==
    /\ at[s][1] = "woken" /\ ~ locked[s]
    /\ LET cleared == [script EXCEPT ![s].waitBits = FALSE]
       IN  /\ script' = cleared
           /\ computed' = [computed EXCEPT ![s] = WithBits(cleared, at[s][2])]
    /\ locked' = [locked EXCEPT ![s] = TRUE]
    /\ Move(s, "leave")
    /\ Collision(s)
    /\ UNCHANGED <<monitored, pending>>
    /\ OthersUnchanged

Resume(s) ==
    /\ at[s][1] = "leave"
    /\ monitored' = [monitored EXCEPT ![at[s][2]] = computed[s]]
    /\ computed' = [computed EXCEPT ![s] = {}]
    /\ script' = [script EXCEPT ![s].run_state = "RUNNING"]
    /\ locked' = [locked EXCEPT ![s] = FALSE]
    /\ Move(s, "test")
    /\ UNCHANGED <<pending, collided>>
    /\ OthersUnchanged

After(s) ==
    /\ at[s][1] = "after"
    /\ script' = [script EXCEPT ![s].run_state =
                    IF script[s].request = "HALT" THEN "HALTED" ELSE @]
    /\ Move(s, "top")
    /\ UNCHANGED <<locked, computed, monitored, pending, collided>>
    /\ OthersUnchanged

ScriptThread(s) ==
    \/ Park(s) \/ Begin(s) \/ Test(s) \/ Execute(s) \/ EnterWait(s)
    \/ StoreAndWait(s) \/ LeaveWait(s) \/ Resume(s) \/ After(s)

(***************************************************************************)
(* The caller                                                              *)
(***************************************************************************)
CallerIdle == caller[1] = "idle"
InUse(s) == CallerIdle /\ script[s].state = "IN_USE"

\* gpioStoreScript takes the first free slot; if the text does not parse the
\* slot is freed again.  A slot's waitBits and eventBits are left as they are.
gpioStoreScript(s) ==
    /\ CallerIdle /\ script[s].state = "FREE"
    /\ \A r \in ScriptIds : script[r].state = "FREE" => s <= r
    /\ script' = [script EXCEPT ![s].state = "IN_USE", ![s].request = "HALT",
                                ![s].run_state = "INITING", ![s].par = TRUE]
    /\ locked' = [locked EXCEPT ![s] = FALSE]
    /\ at' = [at EXCEPT ![s] = <<"top", "-">>]
    /\ UNCHANGED <<computed, monitored, alert, caller, pending, collided>>

gpioRunScript(s) ==
    /\ InUse(s) /\ ~ locked[s]
    /\ script[s].run_state # "INITING"          \* otherwise PI_SCRIPT_NOT_READY
    /\ script' = [script EXCEPT ![s].request = "RUN"]
    /\ pending' = IF script[s].run_state = "HALTED" THEN pending \cup {s} ELSE pending
    /\ Signal(s)
    /\ UNCHANGED <<locked, computed, monitored, alert, caller, collided>>

Halt(s) ==
    /\ ~ locked[s]
    /\ script' = [script EXCEPT ![s].request = "HALT"]
    /\ pending' = pending \ {s}
    /\ IF script[s].run_state = "WAITING" THEN Signal(s)
       ELSE UNCHANGED at

gpioStopScript(s) ==
    /\ InUse(s)
    /\ Halt(s)
    /\ UNCHANGED <<locked, computed, monitored, alert, caller, collided>>

\* gpioDeleteScript: the slot dies, the script is asked to halt, the caller
\* waits while it runs, cancels its thread, joins it and frees the slot.
gpioDeleteScript(s) ==
    /\ InUse(s)
    /\ script' = [script EXCEPT ![s].state = "DYING"]
    /\ caller' = <<"halting", s>>
    /\ UNCHANGED <<at, locked, computed, monitored, alert, pending, collided>>

DeleteHalts ==
    /\ caller[1] = "halting" /\ Halt(caller[2])
    /\ caller' = <<"stopping", caller[2]>>
    /\ UNCHANGED <<locked, computed, monitored, alert, collided>>

DeleteCancels ==
    /\ caller[1] = "stopping" /\ script[caller[2]].run_state # "RUNNING"
    /\ caller' = <<"joining", caller[2]>>
    /\ UNCHANGED <<script, at, locked, computed, monitored, alert, pending, collided>>

\* The cancelled thread ends in pthread_cond_wait, which takes the mutex
\* first and never gives it back.
ThreadEnds(s) ==
    /\ caller = <<"joining", s>> /\ at[s][1] \in InCondWait /\ ~ locked[s]
    /\ at' = [at EXCEPT ![s] = <<"none", "-">>]
    /\ locked' = [locked EXCEPT ![s] = TRUE]
    /\ UNCHANGED <<script, computed, monitored, alert, caller, pending, collided>>

\* (mutant: the slot is freed before the thread is joined)
DeleteFreesEarly ==
    /\ caller[1] = "joining"
    /\ script' = [script EXCEPT ![caller[2]].state = "FREE", ![caller[2]].par = FALSE]
    /\ caller' = <<"idle", caller[2]>>
    /\ UNCHANGED <<at, locked, computed, monitored, alert, pending, collided>>
DeleteFrees ==
    /\ caller[1] = "joining" /\ at[caller[2]][1] = "none"
    /\ script' = [script EXCEPT ![caller[2]].state = "FREE", ![caller[2]].par = FALSE]
    /\ caller' = <<"idle", caller[2]>>
    /\ UNCHANGED <<at, locked, computed, monitored, alert, pending, collided>>

Delete == DeleteHalts \/ DeleteCancels \/ DeleteFrees

(***************************************************************************)
(* The alert thread                                                        *)
(***************************************************************************)
AlertIdle == alert.left = {} /\ alert.waking = {}

Watching(s, kind) == IF kind = "gpio" THEN script[s].waitBits ELSE script[s].eventBits

\* A GPIO or an event some script monitors has changed.
Report(kind) ==
    /\ AlertIdle /\ monitored[kind] # {}
    /\ alert' = [kind |-> kind, left |-> ScriptIds, waking |-> {}]
    /\ UNCHANGED <<script, at, locked, computed, monitored, caller, pending, collided>>

\* The check without the mutex.
Glance(s) ==
    /\ alert.waking = {} /\ s \in alert.left
    /\ \A r \in alert.left : s <= r
    /\ alert' = [alert EXCEPT !.left = @ \ {s},
                   !.waking = IF /\ script[s].state = "IN_USE"
                                 /\ script[s].run_state = "WAITING"
                                 /\ Watching(s, alert.kind)
                              THEN {s} ELSE {}]
    /\ UNCHANGED <<script, at, locked, computed, monitored, caller, pending, collided>>

Wake(s) ==
    /\ s \in alert.waking /\ ~ locked[s]
    /\ alert' = [alert EXCEPT !.waking = {}]
    /\ IF script[s].run_state = "WAITING" THEN Signal(s)
       ELSE UNCHANGED at
    /\ UNCHANGED <<script, locked, computed, monitored, caller, pending, collided>>

ScriptsNext ==
    \/ \E s \in ScriptIds :
          \/ ScriptThread(s) \/ ThreadEnds(s)
          \/ gpioStoreScript(s) \/ gpioRunScript(s) \/ gpioStopScript(s)
          \/ gpioDeleteScript(s)
          \/ Glance(s) \/ Wake(s)
    \/ Delete
    \/ \E k \in Waits : Report(k)

ScriptsFairness ==
    /\ \A s \in ScriptIds : WF_scriptVars(ScriptThread(s)) /\ WF_scriptVars(ThreadEnds(s))
    /\ WF_scriptVars(Delete)
    /\ \A s \in ScriptIds : WF_scriptVars(Glance(s)) /\ WF_scriptVars(Wake(s))

ScriptsSpec == ScriptsInit /\ [][ScriptsNext]_scriptVars /\ ScriptsFairness

(***************************************************************************)
(* Properties                                                              *)
(***************************************************************************)
\* The parameters of a script are freed only when its thread is gone.
ParametersOutliveThread ==
    \A s \in ScriptIds : at[s][1] # "none" => script[s].par

\* A script asked to stop halts, unless it is run again or deleted: the
\* request is not lost between the test and the wait.
StopHaltsScript ==
    \A s \in ScriptIds :
        (script[s].state = "IN_USE" /\ script[s].request = "HALT") ~>
            (script[s].run_state = "HALTED" \/ script[s].request = "RUN"
             \/ script[s].state # "IN_USE")

\* gpioDeleteScript is under way: it is to return.
Deleting == caller[1] # "idle"

\* A script that waits is monitored for what it waits for, as long as no two
\* scripts computed the monitored bits at once.
WaitersAreMonitored ==
    collided \/ \A s \in ScriptIds :
        at[s][1] = "waiting" /\ script[s].state = "IN_USE"
            => s \in monitored[at[s][2]]

\* pigpio.h: gpioRunScript runs a stored script.
AcceptedRunBegins == \A s \in ScriptIds : s \in pending ~> s \notin pending

\* A script's parameters and its wait are there as long as its thread needs them.
ScriptsKept == ScriptsTypeOK /\ ParametersOutliveThread /\ WaitersAreMonitored
=============================================================================
