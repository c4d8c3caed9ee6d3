------------------------------ MODULE LockFile ------------------------------
(***************************************************************************)
(* The lock file by which processes that use pigpio.c keep apart: one that *)
(* starts removes a file whose owner is dead or that names nobody          *)
(* (initCheckLockFile), creates its own and writes its pid into it         *)
(* (initGrabLockFile); gpioTerminate closes and removes the file.  Each    *)
(* access to the file is a step, a process may die at any of them, and its *)
(* file stays behind when it does.  The write of the pid may fail, which   *)
(* nobody looks at, and the pid of a dead process may become that of       *)
(* another, which kill(2) cannot tell apart.                               *)
(***************************************************************************)
EXTENDS Integers, FiniteSets

CONSTANT Processes

\* A file: who created it, and whether its pid is in it.
File == [by : Processes, written : BOOLEAN]
Missing == [by |-> "nobody", written |-> FALSE]

ASSUME LockAssumption == "nobody" \notin Processes

VARIABLES
    lockfile,   \* the file that has the name PI_LOCKFILE, or Missing
    step,       \* what each process is doing
    seen,       \* the file initCheckLockFile read
    pidsReused, \* the dead processes whose pid some other process has by now
    unseen,     \* history: one started beside a process that no file with a pid told of
    met,        \* history: the processes another used the library beside at its start
    deceived    \* history: those that took a reused pid for a live owner

lockVars == <<lockfile, step, seen, pidsReused, unseen, met, deceived>>

Steps == {"off", "dead", "checking", "judging", "removing", "grabbing",
          "writing", "running", "releasing"}
Starting == {"checking", "judging", "removing", "grabbing", "writing"}

LockTypeOK ==
    /\ lockfile \in File \cup {Missing}
    /\ step \in [Processes -> Steps]
    /\ seen \in [Processes -> File \cup {Missing}]
    /\ unseen \in BOOLEAN
    /\ pidsReused \subseteq Processes /\ met \subseteq Processes /\ deceived \subseteq Processes

LockInit ==
    /\ lockfile = Missing
    /\ step = [p \in Processes |-> "off"]
    /\ seen = [p \in Processes |-> Missing]
    /\ unseen = FALSE /\ pidsReused = {} /\ met = {} /\ deceived = {}

Goto(p, at) == step' = [step EXCEPT ![p] = at]
Alive(p) == step[p] # "dead"
\* kill(pid, 0) finds a process, the one that wrote the pid or another.
Kill(p) == Alive(p) \/ p \in pidsReused
UsesLibrary(p) == step[p] \in {"running", "releasing"}
HasItsFile(p) == lockfile.by = p /\ lockfile.written

StartProcess(p) ==
    /\ step[p] = "off"
    /\ Goto(p, "checking")
    /\ unseen' = (unseen \/ \E q \in Processes \ {p} :
                              step[q] \in Starting \/ (UsesLibrary(q) /\ ~HasItsFile(q)))
    /\ met' = IF \E q \in Processes : UsesLibrary(q) THEN met \cup {p} ELSE met \ {p}
    /\ deceived' = deceived \ {p}
    /\ UNCHANGED <<lockfile, seen, pidsReused>>

\* open(2) and read(2) of the file there is, if any; they are one step.
ReadLock(p) ==
    /\ step[p] = "checking"
    /\ IF lockfile = Missing
       THEN Goto(p, "grabbing") /\ UNCHANGED seen
       ELSE Goto(p, "judging") /\ seen' = [seen EXCEPT ![p] = lockfile]
    /\ UNCHANGED <<lockfile, pidsReused, unseen, met, deceived>>

\* (mutant: a pid in the file is taken for a process that lives)
JudgeByPid(p) ==
    /\ step[p] = "judging"
    /\ Goto(p, IF seen[p].written THEN "grabbing" ELSE "removing")
    /\ seen' = [seen EXCEPT ![p] = Missing]
    /\ UNCHANGED <<lockfile, pidsReused, unseen, met, deceived>>
\* An empty file, or one whose pid no process has, is to be deleted.
Judge(p) ==
    /\ step[p] = "judging"
    /\ LET owner == seen[p].by IN
       /\ Goto(p, IF seen[p].written /\ Kill(owner) THEN "grabbing" ELSE "removing")
       /\ deceived' = IF seen[p].written /\ ~Alive(owner) /\ Kill(owner)
                      THEN deceived \cup {p} ELSE deceived
    /\ seen' = [seen EXCEPT ![p] = Missing]
    /\ UNCHANGED <<lockfile, pidsReused, unseen, met>>

\* unlink(2): whatever file has the name by now.
RemoveLock(p) ==
    /\ step[p] = "removing"
    /\ lockfile' = Missing
    /\ Goto(p, "grabbing")
    /\ UNCHANGED <<seen, pidsReused, unseen, met, deceived>>

\* open(2) with O_CREAT and O_EXCL, and flock(2), which cannot fail on a file
\* just created; a process that finds a file there may not initialise.
GrabLock(p) ==
    /\ step[p] = "grabbing"
    /\ IF lockfile = Missing
       THEN /\ lockfile' = [by |-> p, written |-> FALSE]
            /\ Goto(p, "writing")
       ELSE Goto(p, "off") /\ UNCHANGED lockfile
    /\ UNCHANGED <<seen, pidsReused, unseen, met, deceived>>

\* The pid goes into the file the process holds open, which has the name
\* only as long as nobody removed it.  A write that fails leaves the file
\* empty, and the process goes on.
WritePid(p) ==
    /\ step[p] = "writing"
    /\ \E wrote \in BOOLEAN :
         lockfile' = IF lockfile.by = p THEN [lockfile EXCEPT !.written = wrote] ELSE lockfile
    /\ Goto(p, "running")
    /\ UNCHANGED <<seen, pidsReused, unseen, met, deceived>>

StopProcess(p) ==
    /\ step[p] = "running"
    /\ Goto(p, "releasing")
    /\ UNCHANGED <<lockfile, seen, pidsReused, unseen, met, deceived>>

ReleaseLock(p) ==
    /\ step[p] = "releasing"
    /\ lockfile' = Missing
    /\ Goto(p, "off")
    /\ UNCHANGED <<seen, pidsReused, unseen, met, deceived>>

Die(p) ==
    /\ Alive(p)
    /\ Goto(p, "dead")
    /\ seen' = [seen EXCEPT ![p] = Missing]
    /\ UNCHANGED <<lockfile, pidsReused, unseen, met, deceived>>

\* Another process, of any program, gets the pid of one that died, or gives it up.
ReusePid(p) ==
    /\ ~Alive(p)
    /\ pidsReused' = IF p \in pidsReused THEN pidsReused \ {p} ELSE pidsReused \cup {p}
    /\ UNCHANGED <<lockfile, step, seen, unseen, met, deceived>>

LockNext == \E p \in Processes :
    \/ StartProcess(p) \/ ReadLock(p) \/ Judge(p) \/ RemoveLock(p) \/ GrabLock(p) \/ WritePid(p)
    \/ StopProcess(p) \/ ReleaseLock(p) \/ Die(p) \/ ReusePid(p)

LockSpec == LockInit /\ [][LockNext]_lockVars

(***************************************************************************)
(* Properties                                                              *)
(***************************************************************************)
\* Two processes never use the hardware at once, if none started beside one
\* that was starting too, or that runs with a file it could not write its pid
\* into: whatever dies in between, a live owner's file is left alone.
OneProcessRuns ==
    unseen \/ \A p, q \in Processes : UsesLibrary(p) /\ UsesLibrary(q) => p = q

\* A process that finds a lock file and may not initialise
TurnedAway(p) == step[p] = "grabbing" /\ step'[p] = "off"

\* A process is refused only if it met a live owner when it started, or if the
\* pid of a dead one had become that of another process: no other file left by
\* a crash keeps anybody out.
RefusedOnlyByLiveOwner ==
    [][\A p \in Processes : TurnedAway(p) /\ ~unseen => p \in met \cup deceived]_lockVars

\* The lock file admits one process at a time, and one whenever there is none.
LockKept == [](LockTypeOK /\ OneProcessRuns) /\ RefusedOnlyByLiveOwner
=============================================================================
