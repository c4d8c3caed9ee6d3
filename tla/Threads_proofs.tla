--------------------------- MODULE Threads_proofs ---------------------------
(***************************************************************************)
(* Theorems about the threads of pigpio.c that work on a table at the same *)
(* time: the scripts, the notification slots, the serial reads, and the    *)
(* ring of samples.  The four parts share nothing but this module.         *)
(***************************************************************************)
EXTENDS Scripts, Notifications, SerialRead, SamplingRing, Alerts, SequenceTheorems,
        WellFoundedInduction, TLAPS

(***************************************************************************)
(* Scripts                                                                 *)
(***************************************************************************)
(* The places from which a script came to wait, and what it waits for.     *)
WaitPlaces == {"enter", "store", "waiting", "woken", "leave"}
Storing == {"store", "leave"}

KnowsForWhat == \A s \in ScriptIds : at[s][1] \in WaitPlaces => at[s][2] \in Waits

(* Until it has been woken its own bits say that it waits.                 *)
BitsAreSet ==
  \A s \in ScriptIds : at[s][1] \in {"store", "waiting"} => Watching(s, at[s][2])

(* One thread at a time computes the bits of all scripts, and what it      *)
(* computed names all that wait, and itself if it is about to.             *)
OneComputes ==
  collided \/ \A s \in ScriptIds, r \in ScriptIds :
                 at[s][1] \in Storing /\ at[r][1] \in Storing => s = r
Named(s, r) ==
  /\ at[r][1] = "waiting" \/ (r = s /\ at[r][1] = "store")
  /\ at[r][2] = at[s][2] /\ script[r].state = "IN_USE"
ComputedNamesAll ==
  collided \/ \A s \in ScriptIds, r \in ScriptIds :
                 at[s][1] \in Storing /\ Named(s, r) => r \in computed[s]

ScriptsInv ==
  /\ ScriptsTypeOK /\ ParametersOutliveThread
  /\ KnowsForWhat /\ BitsAreSet /\ OneComputes /\ ComputedNamesAll
  /\ WaitersAreMonitored


LEMMA ScriptsStart == ScriptsInit => ScriptsInv
<1> SUFFICES ASSUME ScriptsInit PROVE ScriptsInv
  OBVIOUS
<1>1. ScriptsTypeOK
  BY DEF ScriptsInit, ScriptsTypeOK, NoScript, Places
<1>2. \A s \in ScriptIds : at[s][1] = "none"
  BY DEF ScriptsInit
<1> QED
  BY <1>1, <1>2 DEF ScriptsInv, ParametersOutliveThread, KnowsForWhat, BitsAreSet,
     OneComputes, ComputedNamesAll, WaitersAreMonitored, WaitPlaces, Storing, Named

(* Where the threads are after one of them has moved, or was signalled.    *)
Kinds3 == {"gpio", "event", "-"}
Moved(s, place) ==
  /\ at' \in [ScriptIds -> Places \X Kinds3]
  /\ at'[s][1] = place
  /\ place # "test" => at'[s][2] = at[s][2]
  /\ \A r \in ScriptIds \ {s} : at'[r] = at[r]

Entered(s) ==
  /\ at' \in [ScriptIds -> Places \X Kinds3]
  /\ at'[s][1] = "enter" /\ at'[s][2] \in Waits
  /\ \A r \in ScriptIds \ {s} : at'[r] = at[r]

LEMMA MoveTo ==
  ASSUME ScriptsTypeOK, NEW s \in ScriptIds, NEW place \in Places, Move(s, place)
  PROVE  Moved(s, place)
BY DEF ScriptsTypeOK, Move, Moved, Kinds3

LEMMA SignalTo ==
  ASSUME ScriptsTypeOK, NEW s \in ScriptIds, Signal(s)
  PROVE  \/ at' = at
         \/ at[s][1] = "parked" /\ Moved(s, "started")
         \/ at[s][1] = "waiting" /\ Moved(s, "woken")
BY MoveTo DEF Signal, InCondWait, Places

(* A step in which nothing is computed or stored, and no thread comes to   *)
(* wait.                                                                   *)
Calm ==
  /\ \A r \in ScriptIds :
       /\ at'[r][1] # "none" => script'[r].par
       /\ script'[r].state = "IN_USE" => script[r].state = "IN_USE" \/ at'[r][1] = "top"
       /\ script'[r].waitBits = script[r].waitBits
       /\ script'[r].eventBits = script[r].eventBits
       /\ \/ at'[r] = at[r]
          \/ at'[r][1] \in {"enter", "woken"} /\ at'[r][2] \in Waits
          \/ at'[r][1] \notin WaitPlaces
  /\ UNCHANGED <<monitored, computed, collided>>

LEMMA CalmKeeps ==
  ASSUME ScriptsInv, Calm, ScriptsTypeOK'
  PROVE  ScriptsInv'
<1> USE DEF ScriptsInv, Calm, WaitPlaces
<1>1. ParametersOutliveThread'
  BY DEF ParametersOutliveThread
<1>2. KnowsForWhat'
  BY DEF KnowsForWhat
<1>3. BitsAreSet'
  BY DEF BitsAreSet, Watching
<1>4. OneComputes'
  BY DEF OneComputes, Storing
<1>5. ComputedNamesAll'
  BY DEF ComputedNamesAll, Storing, Named
<1>6. WaitersAreMonitored'
  BY DEF WaitersAreMonitored
<1> QED
  BY <1>1, <1>2, <1>3, <1>4, <1>5, <1>6

(* The record of a script, field by field.                                 *)
RunStates == {"INITING", "HALTED", "RUNNING", "WAITING", "FAILED"}
Records == [state : {"FREE", "IN_USE", "DYING"}, request : {"HALT", "RUN"},
            run_state : RunStates, waitBits : BOOLEAN, eventBits : BOOLEAN, par : BOOLEAN]
SameKept(r) == /\ script'[r].state = script[r].state /\ script'[r].par = script[r].par
               /\ script'[r].waitBits = script[r].waitBits
               /\ script'[r].eventBits = script[r].eventBits

LEMMA ScriptRecords == ScriptsTypeOK => script \in [ScriptIds -> Records]
BY DEF ScriptsTypeOK, Records, RunStates

LEMMA RunStateSet ==
  ASSUME ScriptsTypeOK, NEW s \in ScriptIds, NEW v \in RunStates,
         script' = [script EXCEPT ![s].run_state = v]
  PROVE  script' \in [ScriptIds -> Records] /\ \A r \in ScriptIds : SameKept(r)
BY ScriptRecords DEF Records, SameKept

LEMMA RequestSet ==
  ASSUME ScriptsTypeOK, NEW s \in ScriptIds, NEW v \in {"HALT", "RUN"},
         script' = [script EXCEPT ![s].request = v]
  PROVE  script' \in [ScriptIds -> Records] /\ \A r \in ScriptIds : SameKept(r)
BY ScriptRecords DEF Records, SameKept

LEMMA NothingSet ==
  ASSUME ScriptsTypeOK, script' = script
  PROVE  script' \in [ScriptIds -> Records] /\ \A r \in ScriptIds : SameKept(r)
BY ScriptRecords DEF SameKept

(* What leaves the kept fields alone is calm if the threads move calmly.   *)
LEMMA CalmMoves ==
  ASSUME ScriptsInv, \A r \in ScriptIds : SameKept(r),
         UNCHANGED <<monitored, computed, collided>>,
         NEW s \in ScriptIds, at[s][1] # "none",
         \/ at' = at
         \/ \E place \in Places \ {"none", "store", "waiting", "leave", "enter", "woken"} :
               Moved(s, place)
         \/ Moved(s, "woken") /\ at[s][2] \in Waits
         \/ Entered(s)
  PROVE  Calm
BY DEF Calm, SameKept, Moved, Entered, ScriptsInv, ParametersOutliveThread, WaitPlaces, Places

(* A signal wakes a thread in one of its two waits or is lost.              *)
LEMMA SignalCalm ==
  ASSUME ScriptsInv, \A r \in ScriptIds : SameKept(r),
         UNCHANGED <<monitored, computed, collided>>,
         NEW s \in ScriptIds,
         \/ at' = at
         \/ at[s][1] = "parked" /\ Moved(s, "started")
         \/ at[s][1] = "waiting" /\ Moved(s, "woken")
  PROVE  Calm
<1>1. CASE at' = at
  BY <1>1 DEF Calm, SameKept, ScriptsInv, ParametersOutliveThread
<1>2. CASE at[s][1] = "parked" /\ Moved(s, "started")
  BY <1>2, CalmMoves DEF Places
<1>3. CASE at[s][1] = "waiting" /\ Moved(s, "woken")
  BY <1>3, CalmMoves DEF ScriptsInv, KnowsForWhat, WaitPlaces
<1> QED
  BY <1>1, <1>2, <1>3

LEMMA ScriptsStep == ScriptsInv /\ [ScriptsNext]_scriptVars => ScriptsInv'
<1> SUFFICES ASSUME ScriptsInv, [ScriptsNext]_scriptVars PROVE ScriptsInv'
  OBVIOUS
<1>t. ScriptsTypeOK
  BY DEF ScriptsInv
<1>k. ParametersOutliveThread /\ KnowsForWhat
  BY DEF ScriptsInv
<1>r. \A s \in ScriptIds : script[s].run_state \in RunStates
  BY <1>t DEF ScriptsTypeOK, RunStates
<1>1. ASSUME NEW s \in ScriptIds, Park(s) PROVE ScriptsInv'
  <2>1. Moved(s, "parked")
    BY <1>1, <1>t, <1>k, MoveTo DEF Park, Places
  <2>2. script' \in [ScriptIds -> Records] /\ \A r \in ScriptIds : SameKept(r)
    BY <1>1, <1>t, RunStateSet DEF Park, RunStates
  <2>3. Calm
    BY <1>1, <2>1, <2>2, CalmMoves DEF Park, Places
  <2>4. ScriptsTypeOK'
    BY <1>1, <1>t, <2>1, <2>2 DEF Park, ScriptsTypeOK, Moved, Kinds3, Records, RunStates, OthersUnchanged
  <2> QED
    BY <2>3, <2>4, CalmKeeps
<1>2. ASSUME NEW s \in ScriptIds, Begin(s) PROVE ScriptsInv'
  <2>1. Moved(s, "test")
    BY <1>2, <1>t, <1>k, MoveTo DEF Begin, Places
  <2>2. script' \in [ScriptIds -> Records] /\ \A r \in ScriptIds : SameKept(r)
    BY <1>2, <1>t, RunStateSet DEF Begin, RunStates
  <2>3. Calm
    BY <1>2, <2>1, <2>2, CalmMoves DEF Begin, Places
  <2>4. ScriptsTypeOK'
    BY <1>2, <1>t, <2>1, <2>2 DEF Begin, ScriptsTypeOK, Moved, Kinds3, Records, RunStates, OthersUnchanged
  <2> QED
    BY <2>3, <2>4, CalmKeeps
<1>3. ASSUME NEW s \in ScriptIds, Test(s) PROVE ScriptsInv'
  <2>1. Moved(s, "exec") \/ Moved(s, "after")
    BY <1>3, <1>t, <1>k, MoveTo DEF Test, Places
  <2>2. script' \in [ScriptIds -> Records] /\ \A r \in ScriptIds : SameKept(r)
    BY <1>3, <1>t, NothingSet DEF Test, RunStates
  <2>3. Calm
    BY <1>3, <2>1, <2>2, CalmMoves DEF Test, Places
  <2>4. ScriptsTypeOK'
    BY <1>3, <1>t, <2>1, <2>2 DEF Test, ScriptsTypeOK, Moved, Kinds3, Records, RunStates, OthersUnchanged
  <2> QED
    BY <2>3, <2>4, CalmKeeps
<1>4. ASSUME NEW s \in ScriptIds, Execute(s) PROVE ScriptsInv'
  <2>1. Moved(s, "test") \/ (Entered(s))
    <3>1. CASE Move(s, "test")
      BY <3>1, <1>t, MoveTo DEF Places
    <3>2. ASSUME NEW k \in Waits, at' = [at EXCEPT ![s] = <<"enter", k>>]
          PROVE  Entered(s)
      <4>1. at \in [ScriptIds -> Places \X Kinds3] /\ <<"enter", k>> \in Places \X Kinds3
        BY <1>t, ScriptsAssumption DEF ScriptsTypeOK, Places, Kinds3
      <4>2. /\ at' \in [ScriptIds -> Places \X Kinds3] /\ at'[s] = <<"enter", k>>
            /\ \A r \in ScriptIds \ {s} : at'[r] = at[r]
        BY <3>2, <4>1
      <4> QED
        BY <4>2 DEF Entered
    <3> QED
      BY <1>4, <3>1, <3>2 DEF Execute
  <2>2. script' \in [ScriptIds -> Records] /\ \A r \in ScriptIds : SameKept(r)
    BY <1>4, <1>t, NothingSet, RunStateSet DEF Execute, RunStates
  <2>3. Calm
    BY <1>4, <2>1, <2>2, CalmMoves DEF Execute, Places
  <2>4. ScriptsTypeOK'
    BY <1>4, <1>t, <2>1, <2>2 DEF Execute, ScriptsTypeOK, Moved, Entered, Kinds3, Records, RunStates, OthersUnchanged
  <2> QED
    BY <2>3, <2>4, CalmKeeps
<1>5. ASSUME NEW s \in ScriptIds, After(s) PROVE ScriptsInv'
  <2>1. Moved(s, "top")
    BY <1>5, <1>t, <1>k, MoveTo DEF After, Places
  <2>2. script' \in [ScriptIds -> Records] /\ \A r \in ScriptIds : SameKept(r)
    BY <1>5, <1>t, RunStateSet, <1>r DEF After, RunStates
  <2>3. Calm
    BY <1>5, <2>1, <2>2, CalmMoves DEF After, Places
  <2>4. ScriptsTypeOK'
    BY <1>5, <1>t, <2>1, <2>2 DEF After, ScriptsTypeOK, Moved, Kinds3, Records, RunStates, OthersUnchanged
  <2> QED
    BY <2>3, <2>4, CalmKeeps
<1>6. ASSUME NEW s \in ScriptIds, gpioRunScript(s) PROVE ScriptsInv'
  <2>1. \/ at' = at
        \/ at[s][1] = "parked" /\ Moved(s, "started")
        \/ at[s][1] = "waiting" /\ Moved(s, "woken")
    BY <1>6, <1>t, SignalTo DEF gpioRunScript
  <2>2. script' \in [ScriptIds -> Records] /\ \A r \in ScriptIds : SameKept(r)
    BY <1>6, <1>t, RequestSet DEF gpioRunScript
  <2>3. Calm
    BY <1>6, <1>k, <2>1, <2>2, SignalCalm DEF gpioRunScript
  <2>4. ScriptsTypeOK'
    BY <1>6, <1>t, <2>1, <2>2 DEF gpioRunScript, ScriptsTypeOK, Moved, Kinds3, Records, RunStates
  <2> QED
    BY <2>3, <2>4, CalmKeeps
<1>7. ASSUME NEW s \in ScriptIds, gpioStopScript(s) PROVE ScriptsInv'
  <2>1. \/ at' = at
        \/ at[s][1] = "parked" /\ Moved(s, "started")
        \/ at[s][1] = "waiting" /\ Moved(s, "woken")
    BY <1>7, <1>t, SignalTo DEF gpioStopScript, Halt
  <2>2. script' \in [ScriptIds -> Records] /\ \A r \in ScriptIds : SameKept(r)
    BY <1>7, <1>t, RequestSet DEF gpioStopScript, Halt
  <2>3. Calm
    BY <1>7, <1>k, <2>1, <2>2, SignalCalm DEF gpioStopScript
  <2>4. ScriptsTypeOK'
    BY <1>7, <1>t, <2>1, <2>2 DEF gpioStopScript, Halt, ScriptsTypeOK, Moved, Kinds3, Records, RunStates
  <2> QED
    BY <2>3, <2>4, CalmKeeps
<1>8. ASSUME DeleteHalts PROVE ScriptsInv'
  <2>s. caller[2] \in ScriptIds
    BY <1>t DEF ScriptsTypeOK
  <2>1. \/ at' = at
        \/ at[caller[2]][1] = "parked" /\ Moved(caller[2], "started")
        \/ at[caller[2]][1] = "waiting" /\ Moved(caller[2], "woken")
    BY <1>8, <2>s, <1>t, SignalTo DEF DeleteHalts, Halt
  <2>2. script' \in [ScriptIds -> Records] /\ \A r \in ScriptIds : SameKept(r)
    BY <1>8, <2>s, <1>t, RequestSet DEF DeleteHalts, Halt
  <2>3. Calm
    BY <1>8, <2>s, <1>k, <2>1, <2>2, SignalCalm DEF DeleteHalts
  <2>4. ScriptsTypeOK'
    BY <1>8, <2>s, <1>t, <2>1, <2>2 DEF DeleteHalts, Halt, ScriptsTypeOK, Moved, Kinds3, Records, RunStates
  <2> QED
    BY <2>3, <2>4, CalmKeeps
<1>9. ASSUME NEW s \in ScriptIds, Wake(s) PROVE ScriptsInv'
  <2>1. \/ at' = at
        \/ at[s][1] = "parked" /\ Moved(s, "started")
        \/ at[s][1] = "waiting" /\ Moved(s, "woken")
    BY <1>9, <1>t, SignalTo DEF Wake
  <2>2. script' \in [ScriptIds -> Records] /\ \A r \in ScriptIds : SameKept(r)
    BY <1>9, <1>t, NothingSet DEF Wake
  <2>3. Calm
    BY <1>9, <1>k, <2>1, <2>2, SignalCalm DEF Wake
  <2>4. ScriptsTypeOK'
    BY <1>9, <1>t, <2>1, <2>2 DEF Wake, ScriptsTypeOK, Moved, Kinds3, Records, RunStates
  <2> QED
    BY <2>3, <2>4, CalmKeeps
<1>10. ASSUME NEW s \in ScriptIds, Glance(s) PROVE ScriptsInv'
  <2>1. script' = script /\ at' = at /\ UNCHANGED <<monitored, computed, collided>>
    BY <1>10 DEF Glance
  <2>2. script' \in [ScriptIds -> Records] /\ \A r \in ScriptIds : SameKept(r)
    BY <2>1, <1>t, NothingSet
  <2>3. Calm
    BY <2>1, <1>k DEF Calm, ParametersOutliveThread
  <2>4. ScriptsTypeOK'
    BY <1>10, <1>t, <2>1, ScriptsAssumption DEF Glance, ScriptsTypeOK
  <2> QED
    BY <2>3, <2>4, CalmKeeps
<1>11. ASSUME NEW k \in Waits, Report(k) PROVE ScriptsInv'
  <2>1. script' = script /\ at' = at /\ UNCHANGED <<monitored, computed, collided>>
    BY <1>11 DEF Report
  <2>2. script' \in [ScriptIds -> Records] /\ \A r \in ScriptIds : SameKept(r)
    BY <2>1, <1>t, NothingSet
  <2>3. Calm
    BY <2>1, <1>k DEF Calm, ParametersOutliveThread
  <2>4. ScriptsTypeOK'
    BY <1>11, <1>t, <2>1, ScriptsAssumption DEF Report, ScriptsTypeOK
  <2> QED
    BY <2>3, <2>4, CalmKeeps
<1>12. ASSUME DeleteCancels PROVE ScriptsInv'
  <2>1. script' = script /\ at' = at /\ UNCHANGED <<monitored, computed, collided>>
    BY <1>12 DEF DeleteCancels
  <2>2. script' \in [ScriptIds -> Records] /\ \A r \in ScriptIds : SameKept(r)
    BY <2>1, <1>t, NothingSet
  <2>3. Calm
    BY <2>1, <1>k DEF Calm, ParametersOutliveThread
  <2>4. ScriptsTypeOK'
    BY <1>12, <1>t, <2>1, ScriptsAssumption DEF DeleteCancels, ScriptsTypeOK
  <2> QED
    BY <2>3, <2>4, CalmKeeps
<1>13. ASSUME NEW s \in ScriptIds, ThreadEnds(s) PROVE ScriptsInv'
  <2>1. /\ at'[s] = <<"none", "-">> /\ \A r \in ScriptIds \ {s} : at'[r] = at[r]
        /\ at' \in [ScriptIds -> Places \X Kinds3]
    BY <1>13, <1>t DEF ThreadEnds, ScriptsTypeOK, Places, Kinds3
  <2>2. script' = script /\ UNCHANGED <<monitored, computed, collided>>
    BY <1>13 DEF ThreadEnds
  <2>3. Calm
    BY <2>1, <2>2, <1>k DEF Calm, ParametersOutliveThread, WaitPlaces
  <2>4. ScriptsTypeOK'
    BY <1>13, <1>t, <2>1 DEF ThreadEnds, ScriptsTypeOK, Kinds3
  <2> QED
    BY <2>3, <2>4, CalmKeeps
<1>14. ASSUME NEW s \in ScriptIds, gpioStoreScript(s) PROVE ScriptsInv'
  <2>1. /\ at'[s] = <<"top", "-">> /\ \A r \in ScriptIds \ {s} : at'[r] = at[r]
        /\ at' \in [ScriptIds -> Places \X Kinds3]
    BY <1>14, <1>t DEF gpioStoreScript, ScriptsTypeOK, Places, Kinds3
  <2> DEFINE e == [script[s] EXCEPT !.state = "IN_USE", !.request = "HALT",
                                    !.run_state = "INITING", !.par = TRUE]
  <2>a. script \in [ScriptIds -> Records] /\ script' = [script EXCEPT ![s] = e]
    BY <1>14, <1>t, ScriptRecords DEF gpioStoreScript
  <2>b. e \in Records /\ e.par
        /\ e.waitBits = script[s].waitBits /\ e.eventBits = script[s].eventBits
    BY <2>a DEF Records, RunStates
  <2>2. /\ script' \in [ScriptIds -> Records]
        /\ script'[s].par
        /\ \A r \in ScriptIds \ {s} : script'[r] = script[r]
        /\ script'[s].waitBits = script[s].waitBits
        /\ script'[s].eventBits = script[s].eventBits
    <3> HIDE DEF e
    <3> QED
      BY <2>a, <2>b
  <2>3. UNCHANGED <<monitored, computed, collided>>
    BY <1>14 DEF gpioStoreScript
  <2>4. Calm
    BY <2>1, <2>2, <2>3, <1>k DEF Calm, ParametersOutliveThread, WaitPlaces
  <2>5. ScriptsTypeOK'
    BY <1>14, <1>t, <2>1, <2>2 DEF gpioStoreScript, ScriptsTypeOK, Kinds3, Records, RunStates
  <2> QED
    BY <2>4, <2>5, CalmKeeps
<1>15. ASSUME NEW s \in ScriptIds, gpioDeleteScript(s) PROVE ScriptsInv'
  <2>1. /\ script' \in [ScriptIds -> Records]
        /\ \A r \in ScriptIds :
             /\ script'[r].state = "IN_USE" => script[r].state = "IN_USE"
             /\ script'[r].par = script[r].par
             /\ script'[r].waitBits = script[r].waitBits
             /\ script'[r].eventBits = script[r].eventBits
    BY <1>15, <1>t, ScriptRecords DEF gpioDeleteScript, Records
  <2>2. at' = at /\ UNCHANGED <<monitored, computed, collided>>
    BY <1>15 DEF gpioDeleteScript
  <2>3. Calm
    BY <2>1, <2>2, <1>k DEF Calm, ParametersOutliveThread
  <2>4. ScriptsTypeOK'
    BY <1>15, <1>t, <2>1 DEF gpioDeleteScript, ScriptsTypeOK, Records, RunStates
  <2> QED
    BY <2>3, <2>4, CalmKeeps
<1>16. ASSUME DeleteFrees PROVE ScriptsInv'
  <2>1. caller[2] \in ScriptIds
    BY <1>t DEF ScriptsTypeOK
  <2> DEFINE s == caller[2]
             e == [script[s] EXCEPT !.state = "FREE", !.par = FALSE]
  <2>a. script \in [ScriptIds -> Records] /\ script' = [script EXCEPT ![s] = e]
    BY <1>16, <1>t, <2>1, ScriptRecords DEF DeleteFrees
  <2>b. e \in Records /\ e.state = "FREE"
        /\ e.waitBits = script[s].waitBits /\ e.eventBits = script[s].eventBits
    <3>1. script[s] \in Records
      BY <2>1, <2>a
    <3> HIDE DEF s
    <3> QED
      BY <3>1 DEF Records
  <2>2. /\ script' \in [ScriptIds -> Records]
        /\ \A r \in ScriptIds :
             /\ script'[r].state = "IN_USE" => script[r].state = "IN_USE"
             /\ r # caller[2] => script'[r].par = script[r].par
             /\ script'[r].waitBits = script[r].waitBits
             /\ script'[r].eventBits = script[r].eventBits
    <3> HIDE DEF e
    <3> QED
      BY <2>a, <2>b, <2>1
  <2>3. at' = at /\ at[caller[2]][1] = "none" /\ UNCHANGED <<monitored, computed, collided>>
    BY <1>16 DEF DeleteFrees
  <2>4. Calm
    BY <2>2, <2>3, <1>k DEF Calm, ParametersOutliveThread
  <2>5. ScriptsTypeOK'
    BY <1>16, <1>t, <2>1, <2>2 DEF DeleteFrees, ScriptsTypeOK, Records, RunStates
  <2> QED
    BY <2>4, <2>5, CalmKeeps
<1>17. ASSUME NEW s \in ScriptIds, EnterWait(s) PROVE ScriptsInv'
  <2>1. CASE script[s].request # "RUN"
    <3>1. Moved(s, "test")
      BY <1>17, <2>1, <1>t, MoveTo DEF EnterWait, Places
    <3>2. script' \in [ScriptIds -> Records] /\ \A r \in ScriptIds : SameKept(r)
      BY <1>17, <2>1, <1>t, NothingSet DEF EnterWait
    <3>3. Calm
      BY <1>17, <2>1, <3>1, <3>2, CalmMoves DEF EnterWait, Places
    <3>4. ScriptsTypeOK'
      BY <1>17, <2>1, <1>t, <3>1, <3>2 DEF EnterWait, ScriptsTypeOK, Moved, Kinds3, Records, RunStates, OthersUnchanged
    <3> QED
      BY <3>3, <3>4, CalmKeeps
  <2>2. CASE script[s].request = "RUN"
    <3> DEFINE kind == at[s][2]
    <3>1. Moved(s, "store") /\ kind \in Waits /\ at'[s][2] = kind
      BY <1>17, <2>2, <1>t, <1>k, MoveTo DEF EnterWait, Places, Moved, KnowsForWhat, WaitPlaces
    <3> DEFINE e == [script[s] EXCEPT !.run_state = "WAITING",
                       !.waitBits = IF kind = "gpio" THEN TRUE ELSE @,
                       !.eventBits = IF kind = "event" THEN TRUE ELSE @]
    <3>a. script \in [ScriptIds -> Records] /\ script' = [script EXCEPT ![s] = e]
      BY <1>17, <2>2, <1>t, ScriptRecords DEF EnterWait
    <3>b. /\ e \in Records /\ e.state = script[s].state /\ e.par = script[s].par
          /\ kind = "gpio" => e.waitBits
          /\ kind = "event" => e.eventBits
      BY <3>a DEF Records, RunStates
    <3>2. /\ script' \in [ScriptIds -> Records]
          /\ \A r \in ScriptIds : /\ script'[r].state = script[r].state
                                  /\ script'[r].par = script[r].par
          /\ \A r \in ScriptIds \ {s} : script'[r] = script[r]
          /\ kind = "gpio" => script'[s].waitBits
          /\ kind = "event" => script'[s].eventBits
      <4> HIDE DEF e
      <4> QED
        BY <3>a, <3>b
    <3>3. /\ computed'[s] = WithBits(script', kind)
          /\ computed' \in [ScriptIds -> SUBSET ScriptIds]
          /\ UNCHANGED <<monitored, pending, alert, caller>> /\ locked' = [locked EXCEPT ![s] = TRUE]
      <4>1. computed' = [computed EXCEPT ![s] = WithBits(script', kind)]
            /\ UNCHANGED <<monitored, pending, alert, caller>> /\ locked' = [locked EXCEPT ![s] = TRUE]
        BY <1>17, <2>2 DEF EnterWait, OthersUnchanged
      <4>2. WithBits(script', kind) \subseteq ScriptIds /\ computed \in [ScriptIds -> SUBSET ScriptIds]
        BY <1>t DEF WithBits, ScriptsTypeOK
      <4> QED
        BY <4>1, <4>2
    <3>4. collided' \in BOOLEAN /\ (collided => collided') /\
          (~ collided' => \A r \in ScriptIds \ {s} : at[r][1] \notin Storing)
      BY <1>17, <2>2, <1>t DEF EnterWait, Collision, Storing, ScriptsTypeOK
    <3>5. ScriptsTypeOK'
      BY <1>t, <3>1, <3>2, <3>3, <3>4 DEF ScriptsTypeOK, Moved, Kinds3, Records, RunStates
    <3>6. ParametersOutliveThread' /\ KnowsForWhat'
      <4>1. at[s][1] = "enter" /\ at'[s][1] = "store" /\ \A r \in ScriptIds \ {s} : at'[r] = at[r]
        BY <1>17, <3>1 DEF EnterWait, Moved
      <4> QED
        BY <1>k, <3>1, <3>2, <4>1 DEF ParametersOutliveThread, KnowsForWhat
    <3>7. BitsAreSet'
      BY <3>1, <3>2, ScriptsAssumption DEF ScriptsInv, BitsAreSet, Moved, Watching
    <3>8. OneComputes'
      BY <3>1, <3>4 DEF OneComputes, Moved, Storing
    <3>9. ComputedNamesAll'
      <4> SUFFICES ASSUME ~ collided', NEW q \in ScriptIds, NEW r \in ScriptIds,
                          at'[q][1] \in Storing, Named(q, r)'
                   PROVE  r \in computed'[q]
        BY DEF ComputedNamesAll
      <4>1. q = s
        BY <3>1, <3>4 DEF Moved
      <4>2. at'[r][2] = kind /\ script'[r].state = "IN_USE" /\ at'[r][1] \in {"store", "waiting"}
        BY <4>1, <3>1 DEF Named
      <4>3. IF kind = "gpio" THEN script'[r].waitBits ELSE script'[r].eventBits
        BY <4>2, <3>7 DEF BitsAreSet, Watching
      <4>4. r \in WithBits(script', kind)
        BY <4>2, <4>3 DEF WithBits
      <4> QED
        BY <3>3, <4>1, <4>4
    <3>10. WaitersAreMonitored'
      BY <3>1, <3>2, <3>3, <3>4 DEF ScriptsInv, WaitersAreMonitored, Moved
    <3> QED
      BY <3>5, <3>6, <3>7, <3>8, <3>9, <3>10 DEF ScriptsInv
  <2> QED
    BY <2>1, <2>2
<1>18. ASSUME NEW s \in ScriptIds, StoreAndWait(s) PROVE ScriptsInv'
  <2> DEFINE kind == at[s][2]
  <2>1. at[s][1] = "store" /\ Moved(s, "waiting") /\ kind \in Waits /\ at'[s][2] = kind
    BY <1>18, <1>t, <1>k, MoveTo DEF StoreAndWait, Places, Moved, KnowsForWhat, WaitPlaces
  <2>2. script' = script /\ UNCHANGED <<collided, pending, alert, caller>>
    BY <1>18 DEF StoreAndWait, OthersUnchanged
  <2>3. /\ monitored' \in [Waits -> SUBSET ScriptIds]
        /\ monitored'[kind] = computed[s]
        /\ \A k \in Waits \ {kind} : monitored'[k] = monitored[k]
    BY <1>18, <1>t, <2>1 DEF StoreAndWait, ScriptsTypeOK
  <2>4. /\ computed' \in [ScriptIds -> SUBSET ScriptIds] /\ locked' \in [ScriptIds -> BOOLEAN]
        /\ \A r \in ScriptIds \ {s} : computed'[r] = computed[r]
    BY <1>18, <1>t DEF StoreAndWait, ScriptsTypeOK
  <2>5. ScriptsTypeOK'
    BY <1>t, <2>1, <2>2, <2>3, <2>4 DEF ScriptsTypeOK, Moved, Kinds3, Records, RunStates
  <2>6. ParametersOutliveThread' /\ KnowsForWhat'
    BY <1>k, <2>1, <2>2 DEF ParametersOutliveThread, KnowsForWhat, Moved, WaitPlaces
  <2>7. BitsAreSet'
    BY <2>1, <2>2 DEF ScriptsInv, BitsAreSet, Moved, Watching
  <2>8. OneComputes'
    BY <2>1, <2>2 DEF ScriptsInv, OneComputes, Moved, Storing
  <2>9. ComputedNamesAll'
    BY <2>1, <2>2 DEF ScriptsInv, OneComputes, ComputedNamesAll, Moved, Storing
  <2>10. WaitersAreMonitored'
    <3> SUFFICES ASSUME ~ collided, NEW r \in ScriptIds, at'[r][1] = "waiting",
                        script[r].state = "IN_USE"
                 PROVE  r \in monitored'[at'[r][2]]
      BY <2>2 DEF WaitersAreMonitored
    <3>1. CASE at'[r][2] = kind
      <4>1. at[s][1] \in Storing /\ Named(s, r)
        BY <3>1, <2>1 DEF Moved, Storing, Named
      <4> QED
        BY <4>1, <3>1, <2>3 DEF ScriptsInv, ComputedNamesAll
    <3>2. CASE at'[r][2] # kind
      <4>1. at'[r] = at[r] /\ at'[r][2] \in Waits
        BY <3>2, <2>1, <2>6 DEF Moved, KnowsForWhat, WaitPlaces
      <4> QED
        BY <3>2, <4>1, <2>3 DEF ScriptsInv, WaitersAreMonitored
    <3> QED
      BY <3>1, <3>2
  <2> QED
    BY <2>5, <2>6, <2>7, <2>8, <2>9, <2>10 DEF ScriptsInv
<1>19. ASSUME NEW s \in ScriptIds, LeaveWait(s) PROVE ScriptsInv'
  <2> DEFINE kind == at[s][2]
  <2>1. at[s][1] = "woken" /\ Moved(s, "leave") /\ kind \in Waits /\ at'[s][2] = kind
    BY <1>19, <1>t, <1>k, MoveTo DEF LeaveWait, Places, Moved, KnowsForWhat, WaitPlaces
  <2>2. /\ script' \in [ScriptIds -> Records]
        /\ \A r \in ScriptIds : /\ script'[r].state = script[r].state
                                /\ script'[r].par = script[r].par
        /\ \A r \in ScriptIds \ {s} : script'[r] = script[r]
    BY <1>19, <1>t, ScriptRecords DEF LeaveWait, Records
  <2>3. /\ computed'[s] = WithBits(script', kind)
        /\ computed' \in [ScriptIds -> SUBSET ScriptIds]
        /\ UNCHANGED <<monitored, pending, alert, caller>> /\ locked' = [locked EXCEPT ![s] = TRUE]
    BY <1>19, <1>t DEF LeaveWait, ScriptsTypeOK, WithBits, OthersUnchanged
  <2>4. collided' \in BOOLEAN /\ (collided => collided') /\
        (~ collided' => \A r \in ScriptIds \ {s} : at[r][1] \notin Storing)
    BY <1>19, <1>t DEF LeaveWait, Collision, Storing, ScriptsTypeOK
  <2>5. ScriptsTypeOK'
    BY <1>t, <2>1, <2>2, <2>3, <2>4 DEF ScriptsTypeOK, Moved, Kinds3, Records, RunStates
  <2>6. ParametersOutliveThread' /\ KnowsForWhat'
    BY <1>k, <2>1, <2>2 DEF ParametersOutliveThread, KnowsForWhat, Moved, WaitPlaces
  <2>7. BitsAreSet'
    BY <2>1, <2>2 DEF ScriptsInv, BitsAreSet, Moved, Watching
  <2>8. OneComputes'
    BY <2>1, <2>4 DEF OneComputes, Moved, Storing
  <2>9. ComputedNamesAll'
    <3> SUFFICES ASSUME ~ collided', NEW q \in ScriptIds, NEW r \in ScriptIds,
                        at'[q][1] \in Storing, Named(q, r)'
                 PROVE  r \in computed'[q]
      BY DEF ComputedNamesAll
    <3>1. q = s
      BY <2>1, <2>4 DEF Moved
    <3>2. at'[r][2] = kind /\ script'[r].state = "IN_USE" /\ at'[r][1] \in {"store", "waiting"}
      BY <3>1, <2>1 DEF Named
    <3>3. IF kind = "gpio" THEN script'[r].waitBits ELSE script'[r].eventBits
      BY <3>2, <2>7 DEF BitsAreSet, Watching
    <3>4. r \in WithBits(script', kind)
      BY <3>2, <3>3 DEF WithBits
    <3> QED
      BY <2>3, <3>1, <3>4
  <2>10. WaitersAreMonitored'
    BY <2>1, <2>2, <2>3, <2>4 DEF ScriptsInv, WaitersAreMonitored, Moved
  <2> QED
    BY <2>5, <2>6, <2>7, <2>8, <2>9, <2>10 DEF ScriptsInv
<1>20. ASSUME NEW s \in ScriptIds, Resume(s) PROVE ScriptsInv'
  <2> DEFINE kind == at[s][2]
  <2>1. at[s][1] = "leave" /\ Moved(s, "test") /\ kind \in Waits
    BY <1>20, <1>t, <1>k, MoveTo DEF Resume, Places, KnowsForWhat, WaitPlaces
  <2>2. /\ script' \in [ScriptIds -> Records] /\ \A r \in ScriptIds : SameKept(r)
        /\ UNCHANGED <<collided, pending, alert, caller>>
    BY <1>20, <1>t, RunStateSet DEF Resume, OthersUnchanged, RunStates
  <2>3. /\ monitored' \in [Waits -> SUBSET ScriptIds]
        /\ monitored'[kind] = computed[s]
        /\ \A k \in Waits \ {kind} : monitored'[k] = monitored[k]
    BY <1>20, <1>t, <2>1 DEF Resume, ScriptsTypeOK
  <2>4. /\ computed' \in [ScriptIds -> SUBSET ScriptIds] /\ locked' \in [ScriptIds -> BOOLEAN]
        /\ \A r \in ScriptIds \ {s} : computed'[r] = computed[r]
    BY <1>20, <1>t DEF Resume, ScriptsTypeOK
  <2>5. ScriptsTypeOK'
    BY <1>t, <2>1, <2>2, <2>3, <2>4 DEF ScriptsTypeOK, Moved, Kinds3, Records, RunStates
  <2>6. ParametersOutliveThread' /\ KnowsForWhat'
    BY <1>k, <2>1, <2>2 DEF ParametersOutliveThread, KnowsForWhat, Moved, WaitPlaces, SameKept
  <2>7. BitsAreSet'
    BY <2>1, <2>2 DEF ScriptsInv, BitsAreSet, Moved, Watching, SameKept
  <2>8. OneComputes'
    BY <2>1, <2>2 DEF ScriptsInv, OneComputes, Moved, Storing
  <2>9. ComputedNamesAll'
    BY <2>1, <2>2 DEF ScriptsInv, OneComputes, ComputedNamesAll, Moved, Storing
  <2>10. WaitersAreMonitored'
    <3> SUFFICES ASSUME ~ collided, NEW r \in ScriptIds, at'[r][1] = "waiting",
                        script[r].state = "IN_USE"
                 PROVE  r \in monitored'[at'[r][2]]
      BY <2>2 DEF WaitersAreMonitored, SameKept
    <3>0. at'[r] = at[r] /\ at[r][2] \in Waits
      BY <2>1, <1>k DEF Moved, KnowsForWhat, WaitPlaces
    <3>1. CASE at'[r][2] = kind
      <4>1. at[s][1] \in Storing /\ Named(s, r)
        BY <3>1, <3>0, <2>1 DEF Storing, Named
      <4> QED
        BY <4>1, <3>1, <2>3 DEF ScriptsInv, ComputedNamesAll
    <3>2. CASE at'[r][2] # kind
      BY <3>2, <3>0, <2>3 DEF ScriptsInv, WaitersAreMonitored
    <3> QED
      BY <3>1, <3>2
  <2> QED
    BY <2>5, <2>6, <2>7, <2>8, <2>9, <2>10 DEF ScriptsInv
<1>21. CASE UNCHANGED scriptVars
  <2>1. /\ script' = script /\ at' = at /\ locked' = locked /\ computed' = computed
        /\ monitored' = monitored /\ alert' = alert /\ caller' = caller
        /\ pending' = pending /\ collided' = collided
    BY <1>21 DEF scriptVars
  <2>2. ScriptsTypeOK'
    BY <1>t, <2>1 DEF ScriptsTypeOK
  <2>3. Calm
    BY <2>1, <1>k DEF Calm, ParametersOutliveThread
  <2> QED
    BY <2>2, <2>3, CalmKeeps
<1> QED
  BY <1>1, <1>2, <1>3, <1>4, <1>5, <1>6, <1>7, <1>8, <1>9, <1>10, <1>11, <1>12, <1>13,
     <1>14, <1>15, <1>16, <1>17, <1>18, <1>19, <1>20, <1>21 DEF ScriptsNext, ScriptThread, Delete

(***************************************************************************)
(* The parameters of a script are freed only when its thread is gone, and  *)
(* a script that waits is among the bits that are monitored for its wait,  *)
(* as long as no two scripts computed those bits at once (pigpio.c,        *)
(* pthScript, gpioDeleteScript, intScriptBits, intScriptEventBits).        *)
(***************************************************************************)
THEOREM ScriptsKeptAlways == ScriptsSpec => []ScriptsKept
<1>1. ScriptsInv => ScriptsKept
  BY DEF ScriptsInv, ScriptsKept
<1> QED
  BY <1>1, ScriptsStart, ScriptsStep, PTL DEF ScriptsSpec

-----------------------------------------------------------------------------
(***************************************************************************)
(* Notifications.  The invariant says what each call has in its hands      *)
(* between its steps (CallsHold, BuildsApart, DroppedLetGo), where the     *)
(* descriptor of a slot leads while the slot is open or being closed       *)
(* (SlotsReach, ClosingPipes, OneDescriptorEach), what the alert thread    *)
(* found when it turned to its slot (EmitterHolds), and the two ledgers:   *)
(* the sequence numbers (Gaps) and the bits that are summed (Sums).        *)
(***************************************************************************)
(* What descriptors are, by names that are not expanded.                   *)
PipeOf(h) == <<"pipe", h>>
SocketOf(s) == <<"socket", s>>
StrayOf(h) == <<"stray", h>>
NoPipeOf(h) == \A fd \in NotifyFds : opened[fd] # PipeOf(h)
Building(t) == request[t].at \in {"create", "publish"}
Written == Open \cup {"CLOSING"}

(* What a call that is under way has in its hands.                         *)
CallsHold ==
  \A t \in Threads :
    LET r == request[t] IN
    /\ r.at = "create" => t = Api /\ r.op \in {"open", "sized"}
    /\ r.at = "publish" /\ r.op = "inband" => t # Api /\ r.fd \in NotifyFds /\ opened[r.fd] = SocketOf(t)
    /\ r.at = "publish" /\ r.op # "inband" =>
         t = Api /\ r.op \in {"open", "sized"} /\ r.fd \in NotifyFds
         /\ \A fd \in NotifyFds : opened[fd] = PipeOf(r.slot) <=> fd = r.fd
    /\ r.at = "orphans" /\ r.op \in {"inband", "drop"} =>
         t # Api /\ r.fd \in NotifyFds /\ opened[r.fd] = SocketOf(t)
    /\ r.at = "orphans" /\ r.op \notin {"inband", "drop"} =>
         t = Api /\ r.op \in {"open", "sized"} /\ r.fd \in NotifyFds
         /\ \A h \in NotifySlots \ {r.slot} : opened[r.fd] # PipeOf(h)
    /\ r.at = "apply" => t = Api /\ r.op \in {"begin", "pause", "close", "monitor"}
    /\ r.op = "drop" => t # Api
    /\ r.at = "leave" => r.op = "drop"

BuildsApart ==
  \A t \in Threads : Building(t) =>
    /\ notify[request[t].slot].state = "RESERVED"
    /\ \A u \in Threads \ {t} : Building(u) => request[u].slot # request[t].slot
    /\ request[t].at = "create" \/ request[t].op = "inband" => NoPipeOf(request[t].slot)

SlotsReach ==
  \A h \in NotifySlots : notify[h].state \in Open =>
    /\ notify[h].fd \in NotifyFds
    /\ opened[notify[h].fd] = reader[h].end
    /\ IF notify[h].pipe THEN reader[h].end = PipeOf(h)
       ELSE \E s \in Sockets : reader[h].end = SocketOf(s)

ClosingPipes ==
  \A h \in NotifySlots :
    /\ notify[h].state = "CLOSING" /\ notify[h].pipe /\ ~(emitter.at = "mark" /\ emitter.slot = h) =>
         notify[h].fd \in NotifyFds /\ opened[notify[h].fd] = PipeOf(h)
    /\ notify[h].state = "CLOSING" /\ ~NoPipeOf(h) => notify[h].pipe

OneDescriptorEach ==
  \A s \in Sockets, a \in NotifyFds, b \in NotifyFds : opened[a] = SocketOf(s) /\ opened[b] = SocketOf(s) => a = b

(* A handler that drops its client has closed all slots of its socket.     *)
DroppedLetGo ==
  \A s \in Sockets : request[s].op = "drop" /\ request[s].at \in {"sum", "store", "leave"} =>
    \A h \in NotifySlots : notify[h].state \in Open => reader[h].end # SocketOf(s)

EmitterHolds ==
  LET h == emitter.slot IN
  /\ emitter.at = "mark" => notify[h].state = "CLOSING" /\ NoPipeOf(h)
  /\ Reporting(h) => notify[h].state \in Written
  /\ emitter.at = "write" =>
       /\ notify[h].fd \in NotifyFds
       /\ opened[notify[h].fd] = reader[h].end /\ reader[h].end # FreeFd
       /\ emitter.emit > 0 /\ emitter.seqno + emitter.emit <= MaxReports

Gaps ==
  \A h \in NotifySlots :
    LET next == IF Reporting(h) THEN emitter.seqno ELSE notify[h].seqno
    IN notify[h].state \in Open =>
         IF reader[h].missed THEN next > reader[h].next ELSE next = reader[h].next

AnySums == emitter.at = "sum" \/ \E t \in Threads : request[t].at = "sum"
Sums ==
  /\ AnySums \/ Summing # {} \/ notifyBits = RunningBits
  /\ \A t \in Threads : request[t].at = "store" => AnySums \/ request[t].sum = RunningBits
  /\ emitter.at = "store" => AnySums \/ emitter.sum = RunningBits
  /\ \A t \in Threads, u \in Threads : request[t].at = "store" /\ request[u].at = "store" => t = u
  /\ emitter.at = "store" => \A t \in Threads : request[t].at # "store"

Order == /\ CallsHold /\ BuildsApart /\ SlotsReach /\ ClosingPipes /\ OneDescriptorEach
         /\ DroppedLetGo /\ EmitterHolds /\ Gaps /\ Sums /\ ~strayed

(* The records, and the numbers behind a name of their own.                *)
Numbers == 0 .. MaxReports
SlotStates == {"CLOSED", "RESERVED", "CLOSING"} \cup Open
SlotRecords == [state : SlotStates, bits : BOOLEAN, eventBits : BOOLEAN, seqno : Numbers,
                fd : NotifyFds \cup {NoFd}, pipe : BOOLEAN]
Ops == {"none", "open", "sized", "inband", "begin", "pause", "close", "monitor", "drop", "gone"}
CallPlaces == {"idle", "create", "publish", "orphans", "apply", "sum", "store", "leave"}
CallRecords == [op : Ops, at : CallPlaces, slot : NotifySlots, fd : NotifyFds \cup {NoFd},
                sum : BOOLEAN]
EmitterPlaces == {"idle", "slot", "mark", "write", "sum", "store", "seqno"}
EmitterRecords == [at : EmitterPlaces, slot : NotifySlots, changed : BOOLEAN, event : BOOLEAN,
                   seqno : Numbers, emit : 0 .. 2, sum : BOOLEAN]
ReaderRecords == [next : Numbers, missed : BOOLEAN, end : Ends]
Types == /\ notify \in [NotifySlots -> SlotRecords]
         /\ opened \in [NotifyFds -> Ends]
         /\ request \in [Threads -> CallRecords]
         /\ emitter \in EmitterRecords
         /\ reader \in [NotifySlots -> ReaderRecords]
         /\ notifyBits \in BOOLEAN /\ strayed \in BOOLEAN /\ mingled \in BOOLEAN
         /\ known \subseteq NotifySlots /\ openings \in 0 .. MaxOpenings

PipesHeld ==
  \A fd \in NotifyFds, h \in NotifySlots :
    opened[fd] = PipeOf(h) =>
      /\ notify[h].state # "CLOSED"
      /\ \/ notify[h].fd = fd
         \/ request[Api].at = "publish" /\ request[Api].slot = h /\ request[Api].fd = fd

NotificationsInv == Types /\ PipesHeld /\ (mingled \/ Order)

LEMMA TypesAreOK == Types => NotificationsTypeOK
BY DEF Types, NotificationsTypeOK, Numbers, SlotStates, SlotRecords, Ops, CallPlaces, CallRecords,
   EmitterPlaces, EmitterRecords, ReaderRecords

LEMMA IdleRecords == IdleRequest \in CallRecords /\ IdleEmitter \in EmitterRecords
BY NotificationsAssumption DEF IdleRequest, IdleEmitter, CallRecords, EmitterRecords, Ops, CallPlaces,
   EmitterPlaces, Numbers

LEMMA KindsApart ==
  /\ \A h, i : PipeOf(h) = PipeOf(i) => h = i
  /\ \A h, i : SocketOf(h) = SocketOf(i) => h = i
  /\ \A h, i : PipeOf(h) # SocketOf(i) /\ PipeOf(h) # StrayOf(i) /\ SocketOf(h) # StrayOf(i)
  /\ \A h : PipeOf(h) # FreeFd /\ SocketOf(h) # FreeFd /\ StrayOf(h) # FreeFd
BY DEF FreeFd, PipeOf, SocketOf, StrayOf

LEMMA ThreadsApart == Api \notin Sockets /\ Threads = {Api} \cup Sockets /\ NoFd \notin NotifyFds
BY NotificationsAssumption DEF Api, Threads, NoFd

LEMMA StatesApart ==
  /\ "CLOSED" \notin Open /\ "RESERVED" \notin Open /\ "CLOSING" \notin Open
  /\ "OPENED" \in Open /\ "RUNNING" \in Open /\ "PAUSED" \in Open
BY DEF Open

LEMMA EndsThere ==
  /\ FreeFd \in Ends
  /\ \A h \in NotifySlots : PipeOf(h) \in Ends /\ StrayOf(h) \in Ends
  /\ \A s \in Sockets : SocketOf(s) \in Ends
BY DEF Ends, PipeOf, SocketOf, StrayOf

Ranges ==
  /\ \A t \in Threads : request[t].slot \in NotifySlots
  /\ emitter.slot \in NotifySlots /\ emitter.seqno \in Int /\ emitter.emit \in Int
  /\ \A h \in NotifySlots : notify[h].seqno \in Int /\ reader[h].next \in Int

LEMMA RangesKnown == Types => Ranges
BY DEF Types, Ranges, CallRecords, EmitterRecords, SlotRecords, ReaderRecords, Numbers

LEMMA NotificationsStart == NotificationsInit => NotificationsInv
<1> SUFFICES ASSUME NotificationsInit PROVE NotificationsInv
  OBVIOUS
<1>1. Types
  <2>1. 0 \in Numbers /\ 0 \in 0 .. MaxOpenings /\ FreeFd \in Ends
    BY NotificationsAssumption DEF Numbers, FreeFd, Ends
  <2>2. notify \in [NotifySlots -> SlotRecords]
    BY <2>1 DEF NotificationsInit, SlotRecords, SlotStates
  <2>3. reader \in [NotifySlots -> ReaderRecords]
    BY <2>1 DEF NotificationsInit, NewReader, ReaderRecords
  <2> QED
    BY <2>1, <2>2, <2>3, IdleRecords, NotificationsAssumption DEF NotificationsInit, Types
<1>2. PipesHeld
  BY KindsApart DEF NotificationsInit, PipesHeld
<1>3. /\ \A t \in Threads : request[t].at = "idle" /\ request[t].op = "none"
      /\ \A h \in NotifySlots : notify[h].state = "CLOSED"
      /\ \A fd \in NotifyFds : opened[fd] = FreeFd
      /\ emitter.at = "idle" /\ ~notifyBits /\ ~strayed
  BY DEF NotificationsInit, IdleRequest, IdleEmitter
<1>4. Summing = {} /\ notifyBits = RunningBits
  BY <1>3 DEF NotificationsInit, Summing, RunningBits
<1>5. CallsHold /\ BuildsApart /\ SlotsReach /\ ClosingPipes /\ OneDescriptorEach
  BY <1>3, KindsApart DEF CallsHold, BuildsApart, Building, SlotsReach, ClosingPipes, OneDescriptorEach,
     Open
<1>6. DroppedLetGo /\ EmitterHolds /\ Gaps
  BY <1>3 DEF DroppedLetGo, EmitterHolds, Reporting, Gaps, Open, Threads
<1>7. Sums
  BY <1>3, <1>4, Zenon DEF Sums
<1> QED
  BY <1>1, <1>2, <1>3, <1>5, <1>6, <1>7 DEF NotificationsInv, Order
(* One entry of a table is set.                                            *)
CallSet(t, call) == /\ request' \in [Threads -> CallRecords] /\ request'[t] = call
                    /\ \A u \in Threads \ {t} : request'[u] = request[u]
SlotSet(h, slot) == /\ notify' \in [NotifySlots -> SlotRecords] /\ notify'[h] = slot
                    /\ \A i \in NotifySlots \ {h} : notify'[i] = notify[i]
DescriptorSet(fd, end) == /\ opened' \in [NotifyFds -> Ends] /\ opened'[fd] = end
                          /\ \A f \in NotifyFds \ {fd} : opened'[f] = opened[f]
ReaderSet(h, r) == /\ reader' \in [NotifySlots -> ReaderRecords] /\ reader'[h] = r
                   /\ \A i \in NotifySlots \ {h} : reader'[i] = reader[i]

LEMMA CallAt ==
  ASSUME Types, NEW t \in Threads, NEW call \in CallRecords, request' = [request EXCEPT ![t] = call]
  PROVE  CallSet(t, call)
BY DEF Types, CallSet
LEMMA SlotAt ==
  ASSUME Types, NEW h \in NotifySlots, NEW slot \in SlotRecords, notify' = [notify EXCEPT ![h] = slot]
  PROVE  SlotSet(h, slot)
BY DEF Types, SlotSet
LEMMA DescriptorAt ==
  ASSUME Types, NEW fd \in NotifyFds, NEW end \in Ends, opened' = [opened EXCEPT ![fd] = end]
  PROVE  DescriptorSet(fd, end)
BY DEF Types, DescriptorSet
LEMMA ReaderAt ==
  ASSUME Types, NEW h \in NotifySlots, NEW r \in ReaderRecords, reader' = [reader EXCEPT ![h] = r]
  PROVE  ReaderSet(h, r)
BY DEF Types, ReaderSet

LEMMA NextSlotMoves ==
  ASSUME Types, NextSlot
  PROVE  emitter' \in EmitterRecords /\ emitter'.at \in {"idle", "slot"}
<1> DEFINE move(h) == [emitter EXCEPT !.at = "slot", !.slot = h, !.emit = 0, !.seqno = 0, !.sum = FALSE]
<1>1. \A h \in NotifySlots : move(h) \in EmitterRecords /\ move(h).at = "slot"
  <2>1. emitter \in EmitterRecords
    BY DEF Types
  <2>2. 0 \in Numbers /\ 0 \in 0 .. 2
    BY NotificationsAssumption DEF Numbers
  <2> QED
    BY <2>1, <2>2 DEF EmitterRecords, EmitterPlaces
<1>2. emitter' = IdleEmitter \/ \E h \in NotifySlots : emitter' = move(h)
  BY DEF NextSlot
<1>3. IdleEmitter.at = "idle"
  BY DEF IdleEmitter
<1> HIDE DEF move
<1> QED
  BY <1>1, <1>2, <1>3, IdleRecords

(* Steps that neither sum the bits nor store a sum.                        *)
Totals == {"sum", "store"}
SumsQuiet ==
  /\ notifyBits' = notifyBits /\ RunningBits' = RunningBits
  /\ \A t \in Threads : \/ request'[t] = request[t]
                        \/ request[t].at \notin Totals /\ request'[t].at \notin Totals
  /\ \/ emitter'.at = emitter.at /\ emitter'.sum = emitter.sum
     \/ emitter.at \notin Totals /\ emitter'.at \notin Totals

LEMMA SumsKept ==
  ASSUME Sums, SumsQuiet
  PROVE  Sums'
<1>1. AnySums' = AnySums /\ Summing' = Summing
  <2>1. \A t \in Threads : (request'[t].at = "sum" <=> request[t].at = "sum")
                       /\ (request'[t].at = "store" <=> request[t].at = "store")
    BY DEF SumsQuiet, Totals
  <2>2. (emitter'.at = "sum" <=> emitter.at = "sum") /\ (emitter'.at = "store" <=> emitter.at = "store")
    BY DEF SumsQuiet, Totals
  <2>3. AnySums' = AnySums
    BY <2>1, <2>2, Zenon DEF AnySums
  <2>4. Summing' = Summing
    BY <2>1, <2>2 DEF Summing
  <2> QED
    BY <2>3, <2>4
<1>2. \A t \in Threads : request'[t].at = "store" => request[t].at = "store" /\ request'[t].sum = request[t].sum
  BY DEF SumsQuiet, Totals
<1>3. emitter'.at = "store" => emitter.at = "store" /\ emitter'.sum = emitter.sum
  BY DEF SumsQuiet, Totals
<1>4. notifyBits' = notifyBits /\ RunningBits' = RunningBits
  BY DEF SumsQuiet
<1>5. \A t \in Threads, u \in Threads : request'[t].at = "store" /\ request'[u].at = "store" => t = u
  BY <1>2 DEF Sums
<1>6. emitter'.at = "store" => \A t \in Threads : request'[t].at # "store"
  BY <1>2, <1>3 DEF Sums
<1> QED
  BY <1>1, <1>2, <1>3, <1>4, <1>5, <1>6, Zenon DEF Sums

LEMMA NotificationsStep ==
  NotificationsInv /\ ~mingled /\ NotificationsNext => NotificationsInv'
<1> SUFFICES ASSUME NotificationsInv, ~mingled, NotificationsNext PROVE NotificationsInv'
  OBVIOUS
<1>t. Types
  BY DEF NotificationsInv
<1>p. PipesHeld
  BY DEF NotificationsInv
<1>y. Ranges
  BY <1>t, RangesKnown
<1>o. /\ CallsHold /\ BuildsApart /\ SlotsReach /\ ClosingPipes /\ OneDescriptorEach
      /\ DroppedLetGo /\ EmitterHolds /\ Gaps /\ Sums /\ ~strayed
  BY DEF NotificationsInv, Order
<1>1. ASSUME NEW s \in Sockets, Accept(s) PROVE NotificationsInv'
  <2>f. PICK fd \in NotifyFds : Least(fd, FreeFds) /\ opened' = [opened EXCEPT ![fd] = <<"socket", s>>]
    BY <1>1 DEF Accept
  <2>g. DescriptorSet(fd, SocketOf(s))
    BY <2>f, <1>t, EndsThere, DescriptorAt DEF SocketOf
  <2>1. /\ request[s] = IdleRequest /\ \A a \in NotifyFds : opened[a] # SocketOf(s)
        /\ opened[fd] = FreeFd /\ DescriptorSet(fd, SocketOf(s))
        /\ UNCHANGED <<notify, notifyBits, request, emitter, openings, known, reader, strayed, mingled>>
    BY <1>1, <2>f, <2>g DEF Accept, Least, FreeFds, Carries, SocketOf
  <2>2. Types'
    BY <1>t, <2>1 DEF Types, DescriptorSet
  <2>3. PipesHeld'
    BY <1>p, <2>1, KindsApart DEF PipesHeld, DescriptorSet
  <2>x. ~mingled' => ~strayed'
    BY <1>o, <2>1
  <2>y. Ranges'
    BY <2>2, RangesKnown, PTL
  <2>4. CallsHold'
    BY <1>o, <1>y, <2>1, <2>y, KindsApart, ThreadsApart, StatesApart DEF Ranges, CallSet, SlotSet, DescriptorSet, ReaderSet, CallsHold, NoPipeOf
  <2>5. BuildsApart'
    BY <1>o, <1>y, <2>1, <2>y, KindsApart, ThreadsApart, StatesApart DEF Ranges, CallSet, SlotSet, DescriptorSet, ReaderSet, BuildsApart, Building, NoPipeOf
  <2>6. SlotsReach'
    BY <1>o, <1>y, <2>1, <2>y, KindsApart, ThreadsApart, StatesApart DEF Ranges, CallSet, SlotSet, DescriptorSet, ReaderSet, SlotsReach
  <2>7. ClosingPipes'
    BY <1>o, <1>y, <2>1, <2>y, KindsApart, ThreadsApart, StatesApart DEF Ranges, CallSet, SlotSet, DescriptorSet, ReaderSet, ClosingPipes, NoPipeOf
  <2>8. OneDescriptorEach'
    BY <1>o, <1>y, <2>1, <2>y, KindsApart, ThreadsApart, StatesApart DEF Ranges, CallSet, SlotSet, DescriptorSet, ReaderSet, OneDescriptorEach
  <2>9. DroppedLetGo'
    BY <1>o, <1>y, <2>1, <2>y, KindsApart, ThreadsApart, StatesApart DEF Ranges, CallSet, SlotSet, DescriptorSet, ReaderSet, DroppedLetGo
  <2>10. EmitterHolds'
    BY <1>o, <1>y, <2>1, <2>y, KindsApart, ThreadsApart, StatesApart DEF Ranges, CallSet, SlotSet, DescriptorSet, ReaderSet, EmitterHolds, NoPipeOf, Reporting, Written
  <2>11. Gaps'
    BY <1>o, <1>y, <2>1, <2>y, KindsApart, ThreadsApart, StatesApart DEF Ranges, CallSet, SlotSet, DescriptorSet, ReaderSet, Gaps, Reporting
  <2>12. Sums'
    <3>1. SumsQuiet
      BY <2>1, <1>t, ThreadsApart DEF SumsQuiet, Totals, CallSet, SlotSet, RunningBits, IdleRequest, Types
    <3> QED
      BY <3>1, <1>o, SumsKept
  <2> QED
    BY <2>2, <2>3, <2>x, <2>4, <2>5, <2>6, <2>7, <2>8, <2>9, <2>10, <2>11, <2>12 DEF NotificationsInv, Order
<1>2. ASSUME NEW s \in Sockets, Drop(s) PROVE NotificationsInv'
  <2>f. PICK fd \in NotifyFds :
          /\ Carries(s, fd)
          /\ request' = [request EXCEPT ![s] =
                [IdleRequest EXCEPT !.op = "drop", !.at = "orphans", !.fd = fd]]
          /\ known' = {h \in known : notify[h].fd # fd}
    BY <1>2 DEF Drop
  <2> DEFINE call == [IdleRequest EXCEPT !.op = "drop", !.at = "orphans", !.fd = fd]
  <2>c. call \in CallRecords /\ call.op = "drop" /\ call.at = "orphans" /\ call.fd = fd
    BY NotificationsAssumption DEF IdleRequest, CallRecords, Ops, CallPlaces
  <2>r. CallSet(s, call)
    BY <2>f, <2>c, <1>t, CallAt DEF Threads
  <2> HIDE DEF call
  <2>1. /\ request[s] = IdleRequest /\ opened[fd] = SocketOf(s)
        /\ CallSet(s, call)
        /\ known' \subseteq NotifySlots
        /\ UNCHANGED <<notify, notifyBits, opened, emitter, openings, reader, strayed, mingled>>
    BY <1>2, <2>f, <2>r, <1>t DEF Drop, Types, Carries, SocketOf
  <2>2. Types'
    BY <1>t, <2>1 DEF Types, CallSet
  <2>3. PipesHeld'
    BY <1>p, <2>1, ThreadsApart DEF PipesHeld, CallSet
  <2>x. ~mingled' => ~strayed'
    BY <1>o, <2>1
  <2>y. Ranges'
    BY <2>2, RangesKnown, PTL
  <2>4. CallsHold'
    BY <1>o, <1>y, <2>1, <2>c, <2>y, KindsApart, ThreadsApart, StatesApart DEF Ranges, CallSet, SlotSet, DescriptorSet, ReaderSet, CallsHold, NoPipeOf
  <2>5. BuildsApart'
    BY <1>o, <1>y, <2>1, <2>c, <2>y, KindsApart, ThreadsApart, StatesApart DEF Ranges, CallSet, SlotSet, DescriptorSet, ReaderSet, BuildsApart, Building, NoPipeOf
  <2>6. SlotsReach'
    BY <1>o, <1>y, <2>1, <2>c, <2>y, KindsApart, ThreadsApart, StatesApart DEF Ranges, CallSet, SlotSet, DescriptorSet, ReaderSet, SlotsReach
  <2>7. ClosingPipes'
    BY <1>o, <1>y, <2>1, <2>c, <2>y, KindsApart, ThreadsApart, StatesApart DEF Ranges, CallSet, SlotSet, DescriptorSet, ReaderSet, ClosingPipes, NoPipeOf
  <2>8. OneDescriptorEach'
    BY <1>o, <1>y, <2>1, <2>c, <2>y, KindsApart, ThreadsApart, StatesApart DEF Ranges, CallSet, SlotSet, DescriptorSet, ReaderSet, OneDescriptorEach
  <2>9. DroppedLetGo'
    BY <1>o, <1>y, <2>1, <2>c, <2>y, KindsApart, ThreadsApart, StatesApart DEF Ranges, CallSet, SlotSet, DescriptorSet, ReaderSet, DroppedLetGo
  <2>10. EmitterHolds'
    BY <1>o, <1>y, <2>1, <2>c, <2>y, KindsApart, ThreadsApart, StatesApart DEF Ranges, CallSet, SlotSet, DescriptorSet, ReaderSet, EmitterHolds, NoPipeOf, Reporting, Written
  <2>11. Gaps'
    BY <1>o, <1>y, <2>1, <2>c, <2>y, KindsApart, ThreadsApart, StatesApart DEF Ranges, CallSet, SlotSet, DescriptorSet, ReaderSet, Gaps, Reporting
  <2>12. Sums'
    <3>1. SumsQuiet
      BY <2>1, <2>c, <1>t, ThreadsApart DEF SumsQuiet, Totals, CallSet, SlotSet, RunningBits, IdleRequest, Types
    <3> QED
      BY <3>1, <1>o, SumsKept
  <2> QED
    BY <2>2, <2>3, <2>x, <2>4, <2>5, <2>6, <2>7, <2>8, <2>9, <2>10, <2>11, <2>12 DEF NotificationsInv, Order
<1>3. ASSUME NEW s \in Sockets, Disconnect(s) PROVE NotificationsInv'
  <2> DEFINE call == [IdleRequest EXCEPT !.op = "gone"]
  <2>c. call \in CallRecords /\ call.op = "gone" /\ call.at = "idle"
    BY NotificationsAssumption DEF IdleRequest, CallRecords, Ops, CallPlaces
  <2>r. CallSet(s, call)
    BY <1>3, <2>c, <1>t, CallAt DEF Disconnect, Threads
  <2> HIDE DEF call
  <2>f. /\ opened' \in [NotifyFds -> Ends]
        /\ \A fd \in NotifyFds : opened'[fd] = IF opened[fd] = SocketOf(s) THEN FreeFd ELSE opened[fd]
    BY <1>3, <1>t DEF Disconnect, Types, Ends, Carries, SocketOf
  <2>1. /\ request[s].at = "leave" /\ request[s].op = "drop"
        /\ opened' \in [NotifyFds -> Ends]
        /\ \A fd \in NotifyFds : opened'[fd] = IF opened[fd] = SocketOf(s) THEN FreeFd ELSE opened[fd]
        /\ CallSet(s, call)
        /\ ~mingled' => ~(emitter.at = "write" /\ opened[notify[emitter.slot].fd] = SocketOf(s))
        /\ mingled' \in BOOLEAN
        /\ UNCHANGED <<notify, notifyBits, emitter, openings, known, reader, strayed>>
    BY <1>3, <2>r, <2>f, <1>t, <1>o, ThreadsApart DEF Disconnect, Types, CallsHold, SocketOf
  <2>2. Types'
    BY <1>t, <2>1 DEF Types, CallSet
  <2>3. PipesHeld'
    BY <1>p, <2>1, ThreadsApart, KindsApart DEF PipesHeld, CallSet
  <2>x. ~mingled' => ~strayed'
    BY <1>o, <2>1
  <2>y. Ranges'
    BY <2>2, RangesKnown, PTL
  <2>4. ~mingled' => CallsHold'
    BY <1>o, <1>y, <2>1, <2>c, <2>y, KindsApart, ThreadsApart, StatesApart DEF Ranges, CallSet, SlotSet, DescriptorSet, ReaderSet, CallsHold, NoPipeOf
  <2>5. ~mingled' => BuildsApart'
    BY <1>o, <1>y, <2>1, <2>c, <2>y, KindsApart, ThreadsApart, StatesApart DEF Ranges, CallSet, SlotSet, DescriptorSet, ReaderSet, BuildsApart, Building, NoPipeOf
  <2>6. ~mingled' => SlotsReach'
    <3> SUFFICES ASSUME ~mingled', NEW h \in NotifySlots, notify[h].state \in Open
                 PROVE  /\ notify[h].fd \in NotifyFds
                        /\ opened'[notify[h].fd] = reader[h].end
                        /\ IF notify[h].pipe THEN reader[h].end = PipeOf(h)
                           ELSE \E u \in Sockets : reader[h].end = SocketOf(u)
      BY <2>1 DEF SlotsReach
    <3>1. /\ notify[h].fd \in NotifyFds /\ opened[notify[h].fd] = reader[h].end
          /\ IF notify[h].pipe THEN reader[h].end = PipeOf(h)
             ELSE \E u \in Sockets : reader[h].end = SocketOf(u)
      BY <1>o DEF SlotsReach
    <3>2. reader[h].end # SocketOf(s)
      BY <1>o, <2>1 DEF DroppedLetGo
    <3> QED
      BY <3>1, <3>2, <2>1
  <2>7. ~mingled' => ClosingPipes'
    BY <1>o, <1>y, <2>1, <2>c, <2>y, KindsApart, ThreadsApart, StatesApart DEF Ranges, CallSet, SlotSet, DescriptorSet, ReaderSet, ClosingPipes, NoPipeOf
  <2>8. ~mingled' => OneDescriptorEach'
    BY <1>o, <1>y, <2>1, <2>c, <2>y, KindsApart, ThreadsApart, StatesApart DEF Ranges, CallSet, SlotSet, DescriptorSet, ReaderSet, OneDescriptorEach
  <2>9. ~mingled' => DroppedLetGo'
    BY <1>o, <1>y, <2>1, <2>c, <2>y, KindsApart, ThreadsApart, StatesApart DEF Ranges, CallSet, SlotSet, DescriptorSet, ReaderSet, DroppedLetGo
  <2>10. ~mingled' => EmitterHolds'
    BY <1>o, <1>y, <2>1, <2>c, <2>y, KindsApart, ThreadsApart, StatesApart DEF Ranges, CallSet, SlotSet, DescriptorSet, ReaderSet, EmitterHolds, NoPipeOf, Reporting, Written
  <2>11. ~mingled' => Gaps'
    BY <1>o, <1>y, <2>1, <2>c, <2>y, KindsApart, ThreadsApart, StatesApart DEF Ranges, CallSet, SlotSet, DescriptorSet, ReaderSet, Gaps, Reporting
  <2>12. ~mingled' => Sums'
    <3>1. SumsQuiet
      BY <2>1, <2>c, <1>t, ThreadsApart DEF SumsQuiet, Totals, CallSet, SlotSet, RunningBits, IdleRequest, Types
    <3> QED
      BY <3>1, <1>o, SumsKept
  <2> QED
    BY <2>2, <2>3, <2>x, <2>4, <2>5, <2>6, <2>7, <2>8, <2>9, <2>10, <2>11, <2>12 DEF NotificationsInv, Order
<1>4. ASSUME NEW t \in Threads, NEW op \in {"open", "sized", "inband"},
            (op = "inband" => t \in Sockets), ReserveNotify(t, op) PROVE NotificationsInv'
  <2>f. PICK h \in NotifySlots, fd \in NotifyFds \cup {NoFd} :
         /\ Least(h, {i \in NotifySlots : notify[i].state = "CLOSED"})
         /\ IF op = "inband" THEN fd \in NotifyFds /\ Carries(t, fd) ELSE t = Api /\ fd = NoFd
         /\ notify' = [notify EXCEPT ![h].state = "RESERVED"]
         /\ request' = [request EXCEPT ![t] =
               [op |-> op, at |-> IF op = "inband" THEN "publish" ELSE "create",
                slot |-> h, fd |-> fd, sum |-> FALSE]]
    BY <1>4 DEF ReserveNotify
  <2> DEFINE call == [op |-> op, at |-> IF op = "inband" THEN "publish" ELSE "create",
                      slot |-> h, fd |-> fd, sum |-> FALSE]
             slot == [notify[h] EXCEPT !.state = "RESERVED"]
  <2>c. /\ call \in CallRecords /\ call.slot = h /\ call.fd = fd
        /\ call.op = op /\ call.at = (IF op = "inband" THEN "publish" ELSE "create")
    BY <1>4 DEF CallRecords, Ops, CallPlaces
  <2>s. slot \in SlotRecords /\ slot.state = "RESERVED" /\ slot.fd = notify[h].fd
        /\ slot.bits = notify[h].bits
    BY <1>t DEF Types, SlotRecords, SlotStates
  <2>r. CallSet(t, call) /\ SlotSet(h, slot)
    BY <2>c, <2>s, <2>f, <1>t, CallAt, SlotAt
  <2> HIDE DEF call, slot
  <2>1. /\ request[t].at = "idle" /\ request[t].op = "none"
        /\ notify[h].state = "CLOSED"
        /\ op = "inband" => t # Api /\ fd \in NotifyFds /\ opened[fd] = SocketOf(t)
        /\ NoPipeOf(h)
        /\ op # "inband" => t = Api /\ fd = NoFd
        /\ SlotSet(h, slot) /\ CallSet(t, call)
        /\ openings' \in 0 .. MaxOpenings
        /\ UNCHANGED <<notifyBits, opened, emitter, known, reader, strayed, mingled>>
    <3>1. request[t].at = "idle" /\ request[t].op = "none"
      BY <1>4 DEF ReserveNotify, IdleRequest
    <3>2. notify[h].state = "CLOSED"
      BY <2>f DEF Least
    <3>3. op = "inband" => t # Api /\ fd \in NotifyFds /\ opened[fd] = SocketOf(t)
      BY <1>4, <2>f, ThreadsApart DEF Carries, SocketOf
    <3>4. NoPipeOf(h)
      BY <2>f, <1>p DEF Least, PipesHeld, NoPipeOf
    <3>5. op # "inband" => t = Api /\ fd = NoFd
      BY <2>f
    <3>6. SlotSet(h, slot) /\ CallSet(t, call)
      BY <2>r
    <3>7. openings' \in 0 .. MaxOpenings
      BY <1>4, <1>t, NotificationsAssumption DEF ReserveNotify, Types
    <3>8. UNCHANGED <<notifyBits, opened, emitter, known, reader, strayed, mingled>>
      BY <1>4 DEF ReserveNotify
    <3> QED
      BY <3>1, <3>2, <3>3, <3>4, <3>5, <3>6, <3>7, <3>8
  <2>2. Types'
    BY <1>t, <2>1 DEF Types, CallSet, SlotSet
  <2>3. PipesHeld'
    BY <1>p, <2>1, <2>c, <2>s, ThreadsApart, KindsApart DEF PipesHeld, CallSet, SlotSet, IdleRequest
  <2>x. ~mingled' => ~strayed'
    BY <1>o, <2>1
  <2>y. Ranges'
    BY <2>2, RangesKnown, PTL
  <2>4. CallsHold'
    BY <1>o, <1>y, <2>1, <2>c, <2>s, <2>y, KindsApart, ThreadsApart, StatesApart DEF Ranges, CallSet, SlotSet, DescriptorSet, ReaderSet, CallsHold, NoPipeOf
  <2>5. BuildsApart'
    BY <1>o, <1>y, <2>1, <2>c, <2>s, <2>y, KindsApart, ThreadsApart, StatesApart DEF Ranges, CallSet, SlotSet, DescriptorSet, ReaderSet, BuildsApart, Building, NoPipeOf
  <2>6. SlotsReach'
    BY <1>o, <1>y, <2>1, <2>c, <2>s, <2>y, KindsApart, ThreadsApart, StatesApart DEF Ranges, CallSet, SlotSet, DescriptorSet, ReaderSet, SlotsReach
  <2>7. ClosingPipes'
    BY <1>o, <1>y, <2>1, <2>c, <2>s, <2>y, KindsApart, ThreadsApart, StatesApart DEF Ranges, CallSet, SlotSet, DescriptorSet, ReaderSet, ClosingPipes, NoPipeOf
  <2>8. OneDescriptorEach'
    BY <1>o, <1>y, <2>1, <2>c, <2>s, <2>y, KindsApart, ThreadsApart, StatesApart DEF Ranges, CallSet, SlotSet, DescriptorSet, ReaderSet, OneDescriptorEach
  <2>9. DroppedLetGo'
    BY <1>o, <1>y, <2>1, <2>c, <2>s, <2>y, KindsApart, ThreadsApart, StatesApart DEF Ranges, CallSet, SlotSet, DescriptorSet, ReaderSet, DroppedLetGo
  <2>10. EmitterHolds'
    BY <1>o, <1>y, <2>1, <2>c, <2>s, <2>y, KindsApart, ThreadsApart, StatesApart DEF Ranges, CallSet, SlotSet, DescriptorSet, ReaderSet, EmitterHolds, NoPipeOf, Reporting, Written
  <2>11. Gaps'
    BY <1>o, <1>y, <2>1, <2>c, <2>s, <2>y, KindsApart, ThreadsApart, StatesApart DEF Ranges, CallSet, SlotSet, DescriptorSet, ReaderSet, Gaps, Reporting
  <2>12. Sums'
    <3>1. SumsQuiet
      BY <2>1, <2>c, <2>s, <1>t, ThreadsApart DEF SumsQuiet, Totals, CallSet, SlotSet, RunningBits, IdleRequest, Types
    <3> QED
      BY <3>1, <1>o, SumsKept
  <2> QED
    BY <2>2, <2>3, <2>x, <2>4, <2>5, <2>6, <2>7, <2>8, <2>9, <2>10, <2>11, <2>12 DEF NotificationsInv, Order
<1>5. ASSUME NEW t \in Threads, request[t].at = "create", Finished(t),
            notify' = [notify EXCEPT ![request[t].slot].state = "CLOSED"], opened' = opened,
            UNCHANGED <<notifyBits, emitter, openings, known, reader, strayed, mingled>> PROVE NotificationsInv'
  <2>h. PICK h \in NotifySlots : h = request[t].slot
    BY <1>y DEF Ranges
  <2>c. IdleRequest \in CallRecords /\ IdleRequest.at = "idle" /\ IdleRequest.op = "none"
    BY IdleRecords DEF IdleRequest
  <2> DEFINE slot == [notify[h] EXCEPT !.state = "CLOSED"]
  <2>s. slot \in SlotRecords /\ slot.state = "CLOSED" /\ slot.bits = notify[h].bits
    BY <1>t DEF Types, SlotRecords, SlotStates, Open
  <2>S. SlotSet(h, slot)
    BY <1>5, <2>s, <2>h, <1>t, SlotAt
  <2> HIDE DEF slot
  <2>1. /\ t = Api /\ request[t].op \in {"open", "sized"}
        /\ h = request[t].slot /\ request[t].at = "create"
        /\ notify[h].state = "RESERVED" /\ NoPipeOf(h)
        /\ CallSet(t, IdleRequest) /\ SlotSet(h, slot)
        /\ opened' = opened /\ UNCHANGED <<notifyBits, emitter, openings, known, reader, strayed, mingled>>
    <3>1. t = Api /\ request[t].op \in {"open", "sized"}
      BY <1>5, <1>o DEF CallsHold
    <3>2. h = request[t].slot /\ request[t].at = "create"
      BY <1>5, <2>h
    <3>3. notify[h].state = "RESERVED" /\ NoPipeOf(h)
      BY <1>5, <2>h, <1>o DEF BuildsApart, Building
    <3>4. CallSet(t, IdleRequest) /\ SlotSet(h, slot)
      BY <1>5, <2>c, <2>S, <1>t, CallAt DEF Finished
    <3>5. opened' = opened /\ UNCHANGED <<notifyBits, emitter, openings, known, reader, strayed, mingled>>
      BY <1>5
    <3> QED
      BY <3>1, <3>2, <3>3, <3>4, <3>5
  <2>2. Types'
    BY <1>t, <2>1 DEF Types, CallSet, SlotSet, DescriptorSet
  <2>3. PipesHeld'
    BY <1>p, <2>1, <2>c, <2>s, <1>o, ThreadsApart, KindsApart, StatesApart DEF PipesHeld, CallSet, SlotSet, DescriptorSet, NoPipeOf, CallsHold
  <2>x. ~mingled' => ~strayed'
    BY <1>o, <2>1
  <2>y. Ranges'
    BY <2>2, RangesKnown, PTL
  <2>4. CallsHold'
    BY <1>o, <1>y, <2>1, <2>c, <2>s, <2>y, KindsApart, ThreadsApart, StatesApart DEF Ranges, CallSet, SlotSet, DescriptorSet, ReaderSet, CallsHold, NoPipeOf
  <2>5. BuildsApart'
    BY <1>o, <1>y, <2>1, <2>c, <2>s, <2>y, KindsApart, ThreadsApart, StatesApart DEF Ranges, CallSet, SlotSet, DescriptorSet, ReaderSet, BuildsApart, Building, NoPipeOf
  <2>6. SlotsReach'
    BY <1>o, <1>y, <2>1, <2>c, <2>s, <2>y, KindsApart, ThreadsApart, StatesApart DEF Ranges, CallSet, SlotSet, DescriptorSet, ReaderSet, SlotsReach
  <2>7. ClosingPipes'
    BY <1>o, <1>y, <2>1, <2>c, <2>s, <2>y, KindsApart, ThreadsApart, StatesApart DEF Ranges, CallSet, SlotSet, DescriptorSet, ReaderSet, ClosingPipes, NoPipeOf
  <2>8. OneDescriptorEach'
    BY <1>o, <1>y, <2>1, <2>c, <2>s, <2>y, KindsApart, ThreadsApart, StatesApart DEF Ranges, CallSet, SlotSet, DescriptorSet, ReaderSet, OneDescriptorEach
  <2>9. DroppedLetGo'
    BY <1>o, <1>y, <2>1, <2>c, <2>s, <2>y, KindsApart, ThreadsApart, StatesApart DEF Ranges, CallSet, SlotSet, DescriptorSet, ReaderSet, DroppedLetGo
  <2>10. EmitterHolds'
    BY <1>o, <1>y, <2>1, <2>c, <2>s, <2>y, KindsApart, ThreadsApart, StatesApart DEF Ranges, CallSet, SlotSet, DescriptorSet, ReaderSet, EmitterHolds, NoPipeOf, Reporting, Written
  <2>11. Gaps'
    BY <1>o, <1>y, <2>1, <2>c, <2>s, <2>y, KindsApart, ThreadsApart, StatesApart DEF Ranges, CallSet, SlotSet, DescriptorSet, ReaderSet, Gaps, Reporting
  <2>12. Sums'
    <3>1. SumsQuiet
      BY <2>1, <2>c, <2>s, StatesApart, <1>t, ThreadsApart DEF SumsQuiet, Totals, CallSet, SlotSet, RunningBits, IdleRequest, Types
    <3> QED
      BY <3>1, <1>o, SumsKept
  <2> QED
    BY <2>2, <2>3, <2>x, <2>4, <2>5, <2>6, <2>7, <2>8, <2>9, <2>10, <2>11, <2>12 DEF NotificationsInv, Order
<1>6. ASSUME NEW t \in Threads, request[t].at = "create", Finished(t),
            NEW fd \in NotifyFds, opened[fd] = FreeFd,
            notify' = [notify EXCEPT ![request[t].slot].state = "CLOSED"],
            opened' = [opened EXCEPT ![fd] = <<"stray", request[t].slot>>],
            UNCHANGED <<notifyBits, emitter, openings, known, reader, strayed, mingled>> PROVE NotificationsInv'
  <2>h. PICK h \in NotifySlots : h = request[t].slot
    BY <1>y DEF Ranges
  <2>c. IdleRequest \in CallRecords /\ IdleRequest.at = "idle" /\ IdleRequest.op = "none"
    BY IdleRecords DEF IdleRequest
  <2> DEFINE slot == [notify[h] EXCEPT !.state = "CLOSED"]
  <2>s. slot \in SlotRecords /\ slot.state = "CLOSED" /\ slot.bits = notify[h].bits
    BY <1>t DEF Types, SlotRecords, SlotStates, Open
  <2>S. SlotSet(h, slot)
    BY <1>6, <2>s, <2>h, <1>t, SlotAt
  <2> HIDE DEF slot
  <2>1. /\ t = Api /\ request[t].op \in {"open", "sized"}
        /\ h = request[t].slot /\ request[t].at = "create"
        /\ notify[h].state = "RESERVED" /\ NoPipeOf(h)
        /\ CallSet(t, IdleRequest) /\ SlotSet(h, slot)
        /\ opened[fd] = FreeFd /\ DescriptorSet(fd, StrayOf(h))
        /\ UNCHANGED <<notifyBits, emitter, openings, known, reader, strayed, mingled>>
    <3>1. t = Api /\ request[t].op \in {"open", "sized"}
      BY <1>6, <1>o DEF CallsHold
    <3>2. h = request[t].slot /\ request[t].at = "create"
      BY <1>6, <2>h
    <3>3. notify[h].state = "RESERVED" /\ NoPipeOf(h)
      BY <1>6, <2>h, <1>o DEF BuildsApart, Building
    <3>4. CallSet(t, IdleRequest) /\ SlotSet(h, slot)
      BY <1>6, <2>c, <2>S, <1>t, CallAt DEF Finished
    <3>5. opened[fd] = FreeFd /\ DescriptorSet(fd, StrayOf(h))
      BY <1>6, <2>h, <1>t, EndsThere, DescriptorAt DEF StrayOf
    <3>6. UNCHANGED <<notifyBits, emitter, openings, known, reader, strayed, mingled>>
      BY <1>6
    <3> QED
      BY <3>1, <3>2, <3>3, <3>4, <3>5, <3>6
  <2>2. Types'
    BY <1>t, <2>1 DEF Types, CallSet, SlotSet, DescriptorSet
  <2>3. PipesHeld'
    BY <1>p, <2>1, <2>c, <2>s, <1>o, ThreadsApart, KindsApart, StatesApart DEF PipesHeld, CallSet, SlotSet, DescriptorSet, NoPipeOf, CallsHold
  <2>x. ~mingled' => ~strayed'
    BY <1>o, <2>1
  <2>y. Ranges'
    BY <2>2, RangesKnown, PTL
  <2>4. CallsHold'
    BY <1>o, <1>y, <2>1, <2>c, <2>s, <2>y, KindsApart, ThreadsApart, StatesApart DEF Ranges, CallSet, SlotSet, DescriptorSet, ReaderSet, CallsHold, NoPipeOf
  <2>5. BuildsApart'
    BY <1>o, <1>y, <2>1, <2>c, <2>s, <2>y, KindsApart, ThreadsApart, StatesApart DEF Ranges, CallSet, SlotSet, DescriptorSet, ReaderSet, BuildsApart, Building, NoPipeOf
  <2>6. SlotsReach'
    BY <1>o, <1>y, <2>1, <2>c, <2>s, <2>y, KindsApart, ThreadsApart, StatesApart DEF Ranges, CallSet, SlotSet, DescriptorSet, ReaderSet, SlotsReach
  <2>7. ClosingPipes'
    BY <1>o, <1>y, <2>1, <2>c, <2>s, <2>y, KindsApart, ThreadsApart, StatesApart DEF Ranges, CallSet, SlotSet, DescriptorSet, ReaderSet, ClosingPipes, NoPipeOf
  <2>8. OneDescriptorEach'
    BY <1>o, <1>y, <2>1, <2>c, <2>s, <2>y, KindsApart, ThreadsApart, StatesApart DEF Ranges, CallSet, SlotSet, DescriptorSet, ReaderSet, OneDescriptorEach
  <2>9. DroppedLetGo'
    BY <1>o, <1>y, <2>1, <2>c, <2>s, <2>y, KindsApart, ThreadsApart, StatesApart DEF Ranges, CallSet, SlotSet, DescriptorSet, ReaderSet, DroppedLetGo
  <2>10. EmitterHolds'
    BY <1>o, <1>y, <2>1, <2>c, <2>s, <2>y, KindsApart, ThreadsApart, StatesApart DEF Ranges, CallSet, SlotSet, DescriptorSet, ReaderSet, EmitterHolds, NoPipeOf, Reporting, Written
  <2>11. Gaps'
    BY <1>o, <1>y, <2>1, <2>c, <2>s, <2>y, KindsApart, ThreadsApart, StatesApart DEF Ranges, CallSet, SlotSet, DescriptorSet, ReaderSet, Gaps, Reporting
  <2>12. Sums'
    <3>1. SumsQuiet
      BY <2>1, <2>c, <2>s, StatesApart, <1>t, ThreadsApart DEF SumsQuiet, Totals, CallSet, SlotSet, RunningBits, IdleRequest, Types
    <3> QED
      BY <3>1, <1>o, SumsKept
  <2> QED
    BY <2>2, <2>3, <2>x, <2>4, <2>5, <2>6, <2>7, <2>8, <2>9, <2>10, <2>11, <2>12 DEF NotificationsInv, Order
<1>7. ASSUME NEW t \in Threads, request[t].at = "create",
            NEW fd \in NotifyFds, opened[fd] = FreeFd,
            request' = [request EXCEPT ![t].at = "publish", ![t].fd = fd],
            opened' = [opened EXCEPT ![fd] = <<"pipe", request[t].slot>>],
            notify' = notify, UNCHANGED <<notifyBits, emitter, openings, known, reader, strayed, mingled>> PROVE NotificationsInv'
  <2>h. PICK h \in NotifySlots : h = request[t].slot
    BY <1>y DEF Ranges
  <2> DEFINE call == [request[t] EXCEPT !.at = "publish", !.fd = fd]
  <2>c. call \in CallRecords /\ call.at = "publish" /\ call.fd = fd
        /\ call.op = request[t].op /\ call.slot = request[t].slot
    BY <1>t DEF Types, CallRecords, CallPlaces
  <2>C. CallSet(t, call)
    BY <1>7, <2>c, <1>t, CallAt
  <2> HIDE DEF call
  <2>1. /\ t = Api /\ request[t].op \in {"open", "sized"}
        /\ h = request[t].slot /\ request[t].at = "create"
        /\ notify[h].state = "RESERVED" /\ NoPipeOf(h)
        /\ CallSet(t, call)
        /\ opened[fd] = FreeFd /\ DescriptorSet(fd, PipeOf(h))
        /\ notify' = notify /\ UNCHANGED <<notifyBits, emitter, openings, known, reader, strayed, mingled>>
    <3>1. t = Api /\ request[t].op \in {"open", "sized"}
      BY <1>7, <1>o DEF CallsHold
    <3>2. h = request[t].slot /\ request[t].at = "create"
      BY <1>7, <2>h
    <3>3. notify[h].state = "RESERVED" /\ NoPipeOf(h)
      BY <1>7, <2>h, <1>o DEF BuildsApart, Building
    <3>4. CallSet(t, call)
      BY <2>C
    <3>5. opened[fd] = FreeFd /\ DescriptorSet(fd, PipeOf(h))
      BY <1>7, <2>h, <1>t, EndsThere, DescriptorAt DEF PipeOf
    <3>6. notify' = notify /\ UNCHANGED <<notifyBits, emitter, openings, known, reader, strayed, mingled>>
      BY <1>7
    <3> QED
      BY <3>1, <3>2, <3>3, <3>4, <3>5, <3>6
  <2>2. Types'
    BY <1>t, <2>1 DEF Types, CallSet, SlotSet, DescriptorSet
  <2>3. PipesHeld'
    BY <1>p, <2>1, <2>c, <1>o, ThreadsApart, KindsApart, StatesApart DEF PipesHeld, CallSet, SlotSet, DescriptorSet, NoPipeOf, CallsHold
  <2>x. ~mingled' => ~strayed'
    BY <1>o, <2>1
  <2>y. Ranges'
    BY <2>2, RangesKnown, PTL
  <2>4. CallsHold'
    BY <1>o, <1>y, <2>1, <2>c, <2>y, KindsApart, ThreadsApart, StatesApart DEF Ranges, CallSet, SlotSet, DescriptorSet, ReaderSet, CallsHold, NoPipeOf
  <2>5. BuildsApart'
    BY <1>o, <1>y, <2>1, <2>c, <2>y, KindsApart, ThreadsApart, StatesApart DEF Ranges, CallSet, SlotSet, DescriptorSet, ReaderSet, BuildsApart, Building, NoPipeOf
  <2>6. SlotsReach'
    BY <1>o, <1>y, <2>1, <2>c, <2>y, KindsApart, ThreadsApart, StatesApart DEF Ranges, CallSet, SlotSet, DescriptorSet, ReaderSet, SlotsReach
  <2>7. ClosingPipes'
    BY <1>o, <1>y, <2>1, <2>c, <2>y, KindsApart, ThreadsApart, StatesApart DEF Ranges, CallSet, SlotSet, DescriptorSet, ReaderSet, ClosingPipes, NoPipeOf
  <2>8. OneDescriptorEach'
    BY <1>o, <1>y, <2>1, <2>c, <2>y, KindsApart, ThreadsApart, StatesApart DEF Ranges, CallSet, SlotSet, DescriptorSet, ReaderSet, OneDescriptorEach
  <2>9. DroppedLetGo'
    BY <1>o, <1>y, <2>1, <2>c, <2>y, KindsApart, ThreadsApart, StatesApart DEF Ranges, CallSet, SlotSet, DescriptorSet, ReaderSet, DroppedLetGo
  <2>10. EmitterHolds'
    BY <1>o, <1>y, <2>1, <2>c, <2>y, KindsApart, ThreadsApart, StatesApart DEF Ranges, CallSet, SlotSet, DescriptorSet, ReaderSet, EmitterHolds, NoPipeOf, Reporting, Written
  <2>11. Gaps'
    BY <1>o, <1>y, <2>1, <2>c, <2>y, KindsApart, ThreadsApart, StatesApart DEF Ranges, CallSet, SlotSet, DescriptorSet, ReaderSet, Gaps, Reporting
  <2>12. Sums'
    <3>1. SumsQuiet
      BY <2>1, <2>c, <1>t, ThreadsApart DEF SumsQuiet, Totals, CallSet, SlotSet, RunningBits, IdleRequest, Types
    <3> QED
      BY <3>1, <1>o, SumsKept
  <2> QED
    BY <2>2, <2>3, <2>x, <2>4, <2>5, <2>6, <2>7, <2>8, <2>9, <2>10, <2>11, <2>12 DEF NotificationsInv, Order
<1>8. ASSUME NEW t \in Threads, PublishNotify(t) PROVE NotificationsInv'
  <2>h. PICK h \in NotifySlots : h = request[t].slot
    BY <1>y DEF Ranges
  <2>a. h = request[t].slot /\ request[t].at = "publish"
    BY <2>h, <1>8 DEF PublishNotify
  <2>b. /\ request[t].fd \in NotifyFds
        /\ request[t].op = "inband" =>
             t # Api /\ opened[request[t].fd] = SocketOf(t) /\ NoPipeOf(h)
        /\ request[t].op # "inband" =>
             /\ t = Api /\ request[t].op \in {"open", "sized"}
             /\ \A f \in NotifyFds : opened[f] = PipeOf(h) <=> f = request[t].fd
        /\ notify[h].state = "RESERVED"
    BY <2>a, <1>o DEF CallsHold, BuildsApart, Building
  <2>m. ~Reporting(h)
    BY <2>b, <1>o, StatesApart DEF EmitterHolds, Written, Reporting
  <2>f. PICK fd \in NotifyFds : fd = request[t].fd
    BY <2>b
  <2> DEFINE slot == [state |-> IF request[t].op = "sized" THEN "RESERVED" ELSE "OPENED",
                      bits |-> FALSE, eventBits |-> notify[h].eventBits, seqno |-> 0,
                      fd |-> fd, pipe |-> request[t].op # "inband"]
  <2>s. /\ slot \in SlotRecords /\ slot.fd = fd /\ slot.seqno = 0 /\ ~slot.bits
        /\ slot.pipe = (request[t].op # "inband")
        /\ slot.state = IF request[t].op = "sized" THEN "RESERVED" ELSE "OPENED"
    BY <1>t, NotificationsAssumption DEF Types, SlotRecords, SlotStates, Open, Numbers
  <2>S. SlotSet(h, slot)
    BY <1>8, <2>s, <2>a, <2>f, <1>t, SlotAt DEF PublishNotify
  <2> HIDE DEF slot
  <2> DEFINE call == [request[t] EXCEPT !.at = "orphans"]
  <2>c. CallSet(t, call) /\ call.at = "orphans" /\ call.op = request[t].op /\ call.slot = h
        /\ call.fd = fd
    <3>1. call \in CallRecords /\ call.at = "orphans" /\ call.fd = request[t].fd
          /\ call.op = request[t].op /\ call.slot = request[t].slot
      BY <1>t DEF Types, CallRecords, CallPlaces
    <3>2. CallSet(t, call)
      BY <1>8, <3>1, <1>t, CallAt DEF PublishNotify, Working
    <3> QED
      BY <3>1, <3>2, <2>a, <2>f
  <2> HIDE DEF call
  <2>g. NewReader(opened[fd]) \in ReaderRecords /\ NewReader(opened[fd]).end = opened[fd]
        /\ NewReader(opened[fd]).next = 0 /\ NewReader(opened[fd]).missed = FALSE
    BY <1>t, NotificationsAssumption DEF NewReader, ReaderRecords, Types, Numbers
  <2>R. ReaderSet(h, NewReader(opened[fd]))
    BY <1>8, <2>g, <2>a, <2>f, <1>t, ReaderAt DEF PublishNotify
  <2>1. /\ h = request[t].slot /\ request[t].at = "publish" /\ notify[h].state = "RESERVED"
        /\ request[t].op = "inband" => t # Api /\ opened[fd] = SocketOf(t) /\ NoPipeOf(h)
        /\ request[t].op # "inband" =>
             /\ t = Api /\ request[t].op \in {"open", "sized"}
             /\ \A f \in NotifyFds : opened[f] = PipeOf(h) <=> f = fd
        /\ CallSet(t, call) /\ SlotSet(h, slot) /\ ReaderSet(h, NewReader(opened[fd]))
        /\ mingled' = mingled
        /\ UNCHANGED <<notifyBits, opened, emitter, openings, known, strayed>>
    <3>1. h = request[t].slot /\ request[t].at = "publish" /\ notify[h].state = "RESERVED"
      BY <2>a, <2>b
    <3>2. request[t].op = "inband" => t # Api /\ opened[fd] = SocketOf(t) /\ NoPipeOf(h)
      BY <2>b, <2>f
    <3>3. request[t].op # "inband" =>
             /\ t = Api /\ request[t].op \in {"open", "sized"}
             /\ \A f \in NotifyFds : opened[f] = PipeOf(h) <=> f = fd
      BY <2>b, <2>f
    <3>4. CallSet(t, call) /\ SlotSet(h, slot) /\ ReaderSet(h, NewReader(opened[fd]))
      BY <2>c, <2>S, <2>R
    <3>5. mingled' = mingled
      BY <1>8, <2>m, <2>a, <1>t DEF PublishNotify, Types
    <3>6. UNCHANGED <<notifyBits, opened, emitter, openings, known, strayed>>
      BY <1>8 DEF PublishNotify
    <3> QED
      BY <3>1, <3>2, <3>3, <3>4, <3>5, <3>6
  <2>2. Types'
    BY <1>t, <2>1 DEF Types, CallSet, SlotSet, ReaderSet
  <2>3. PipesHeld'
    BY <1>p, <2>1, <2>c, <2>s, ThreadsApart, KindsApart, StatesApart DEF PipesHeld, CallSet, SlotSet, NoPipeOf
  <2>x. ~mingled' => ~strayed'
    BY <1>o, <2>1
  <2>y. Ranges'
    BY <2>2, RangesKnown, PTL
  <2>4. CallsHold'
    BY <1>o, <1>y, <2>1, <2>c, <2>s, <2>g, <2>m, <2>y, KindsApart, ThreadsApart, StatesApart DEF Ranges, CallSet, SlotSet, DescriptorSet, ReaderSet, CallsHold, NoPipeOf
  <2>5. BuildsApart'
    BY <1>o, <1>y, <2>1, <2>c, <2>s, <2>g, <2>m, <2>y, KindsApart, ThreadsApart, StatesApart DEF Ranges, CallSet, SlotSet, DescriptorSet, ReaderSet, BuildsApart, Building, NoPipeOf
  <2>6. SlotsReach'
    <3>1. \A i \in NotifySlots \ {h} : notify'[i].state \in Open =>
            /\ notify'[i].fd \in NotifyFds
            /\ opened'[notify'[i].fd] = reader'[i].end
            /\ IF notify'[i].pipe THEN reader'[i].end = PipeOf(i)
               ELSE \E s \in Sockets : reader'[i].end = SocketOf(s)
      BY <1>o, <2>1 DEF SlotsReach, SlotSet, ReaderSet
    <3>2. notify'[h] = slot /\ reader'[h] = NewReader(opened[fd]) /\ opened' = opened
      BY <2>1 DEF SlotSet, ReaderSet
    <3>3. slot.state \in Open => request[t].op # "sized"
      BY <2>s, StatesApart
    <3>4. slot.state \in Open =>
            /\ slot.fd \in NotifyFds
            /\ opened'[slot.fd] = NewReader(opened[fd]).end
            /\ IF slot.pipe THEN NewReader(opened[fd]).end = PipeOf(h)
               ELSE \E s \in Sockets : NewReader(opened[fd]).end = SocketOf(s)
      BY <2>1, <2>s, <2>g, <3>2, <3>3, ThreadsApart
    <3> QED
      BY <3>1, <3>2, <3>4 DEF SlotsReach
  <2>7. ClosingPipes'
    BY <1>o, <1>y, <2>1, <2>c, <2>s, <2>g, <2>m, <2>y, KindsApart, ThreadsApart, StatesApart DEF Ranges, CallSet, SlotSet, DescriptorSet, ReaderSet, ClosingPipes, NoPipeOf
  <2>8. OneDescriptorEach'
    BY <1>o, <1>y, <2>1, <2>c, <2>s, <2>g, <2>m, <2>y, KindsApart, ThreadsApart, StatesApart DEF Ranges, CallSet, SlotSet, DescriptorSet, ReaderSet, OneDescriptorEach
  <2>9. DroppedLetGo'
    BY <1>o, <1>y, <2>1, <2>c, <2>s, <2>g, <2>m, <2>y, KindsApart, ThreadsApart, StatesApart DEF Ranges, CallSet, SlotSet, DescriptorSet, ReaderSet, DroppedLetGo
  <2>10. EmitterHolds'
    BY <1>o, <1>y, <2>1, <2>c, <2>s, <2>g, <2>m, <2>y, KindsApart, ThreadsApart, StatesApart DEF Ranges, CallSet, SlotSet, DescriptorSet, ReaderSet, EmitterHolds, NoPipeOf, Reporting, Written
  <2>11. Gaps'
    BY <1>o, <1>y, <2>1, <2>c, <2>s, <2>g, <2>m, <2>y, KindsApart, ThreadsApart, StatesApart DEF Ranges, CallSet, SlotSet, DescriptorSet, ReaderSet, Gaps, Reporting
  <2>12. Sums'
    <3>1. SumsQuiet
      BY <2>1, <2>c, <2>s, StatesApart, <1>t, ThreadsApart DEF SumsQuiet, Totals, CallSet, SlotSet, RunningBits, IdleRequest, Types
    <3> QED
      BY <3>1, <1>o, SumsKept
  <2> QED
    BY <2>2, <2>3, <2>x, <2>4, <2>5, <2>6, <2>7, <2>8, <2>9, <2>10, <2>11, <2>12 DEF NotificationsInv, Order
<1>9. ASSUME NEW t \in Threads, CloseOrphans(t) PROVE NotificationsInv'
  <2>h. PICK orphans \in SUBSET NotifySlots :
          orphans = {h \in NotifySlots :
            /\ notify[h].state \in Open
            /\ request[t].op # "drop" => h # request[t].slot
            /\ notify[h].fd = request[t].fd}
    OBVIOUS
  <2>a. \A h \in NotifySlots : h \in orphans <=>
          /\ notify[h].state \in Open
          /\ request[t].op # "drop" => h # request[t].slot
          /\ notify[h].fd = request[t].fd
    BY <2>h
  <2>b. /\ request[t].at = "orphans"
        /\ notify' = [h \in NotifySlots |->
             IF h \in orphans THEN [notify[h] EXCEPT !.state = "CLOSED"] ELSE notify[h]]
        /\ mingled' = (mingled \/ \E h \in orphans : Reporting(h))
        /\ IF orphans # {} THEN Working(t, "sum") /\ UNCHANGED known
           ELSE IF request[t].op # "drop" THEN Finished(t) /\ known' = known \cup {request[t].slot}
           ELSE Working(t, "leave") /\ UNCHANGED known
        /\ UNCHANGED <<notifyBits, opened, emitter, openings, reader, strayed>>
    BY <1>9, <2>h, Zenon DEF CloseOrphans
  <2>k. known' \subseteq NotifySlots
    BY <2>b, <1>t, <1>y DEF Types, Ranges
  <2>i. \A h \in NotifySlots :
          LET e == [notify[h] EXCEPT !.state = "CLOSED"] IN
            e \in SlotRecords /\ e.state = "CLOSED"
    BY <1>t DEF Types, SlotRecords, SlotStates
  <2>s. /\ notify' \in [NotifySlots -> SlotRecords]
        /\ \A h \in orphans : notify'[h].state = "CLOSED"
        /\ \A h \in NotifySlots \ orphans : notify'[h] = notify[h]
    BY <2>b, <2>i, <1>t DEF Types
  <2> DEFINE call == IF orphans # {} THEN [request[t] EXCEPT !.at = "sum"]
                     ELSE IF request[t].op # "drop" THEN IdleRequest
                     ELSE [request[t] EXCEPT !.at = "leave"]
  <2>c. /\ call \in CallRecords
        /\ \/ call.at = "sum" /\ orphans # {} /\ call.op = request[t].op
           \/ call.at = "idle" /\ orphans = {} /\ call.op = "none"
           \/ call.at = "leave" /\ orphans = {} /\ call.op = request[t].op /\ call.op = "drop"
    <3>1. request[t] \in CallRecords
      BY <1>t DEF Types
    <3>2. \A place \in {"sum", "leave"} : LET e == [request[t] EXCEPT !.at = place] IN
            e \in CallRecords /\ e.at = place /\ e.op = request[t].op
      BY <3>1 DEF CallRecords, CallPlaces
    <3> QED
      BY <3>2, IdleRecords DEF IdleRequest
  <2>C. CallSet(t, call)
    BY <2>b, <2>c, <1>t, CallAt DEF Working, Finished
  <2> HIDE DEF call
  <2>1. /\ request[t].at = "orphans" /\ request[t].fd \in NotifyFds
        /\ request[t].op = "drop" => opened[request[t].fd] = SocketOf(t)
        /\ \A h \in orphans : notify[h].state \in Open /\ notify'[h].state = "CLOSED"
        /\ \A h \in NotifySlots \ orphans : notify'[h] = notify[h]
        /\ \A h \in NotifySlots : request[t].op = "drop" /\ notify[h].fd = request[t].fd /\ notify[h].state \in Open
             => h \in orphans
        /\ \A h \in orphans : NoPipeOf(h)
        /\ CallSet(t, call)
        /\ mingled' \in BOOLEAN
        /\ ~mingled' => \A h \in orphans : ~Reporting(h)
        /\ UNCHANGED <<notifyBits, opened, emitter, openings, reader, strayed>>
    <3>1. request[t].at = "orphans" /\ request[t].fd \in NotifyFds
      BY <2>b, <1>o DEF CallsHold
    <3>2. request[t].op = "drop" => opened[request[t].fd] = SocketOf(t)
      BY <2>b, <1>o DEF CallsHold
    <3>3. \A h \in orphans : notify[h].state \in Open /\ notify'[h].state = "CLOSED"
      BY <2>a, <2>s
    <3>4. \A h \in NotifySlots \ orphans : notify'[h] = notify[h]
      BY <2>s
    <3>5. \A h \in NotifySlots : request[t].op = "drop" /\ notify[h].fd = request[t].fd /\ notify[h].state \in Open
             => h \in orphans
      BY <2>a
    <3>6. \A h \in orphans : NoPipeOf(h)
      BY <2>b, <2>a, <1>o, <1>p, KindsApart, StatesApart
         DEF CallsHold, PipesHeld, NoPipeOf, BuildsApart, Building, Threads
    <3>7. CallSet(t, call)
      BY <2>C
    <3>8. mingled' \in BOOLEAN
      BY <2>b, <1>t DEF Types
    <3>9. ~mingled' => \A h \in orphans : ~Reporting(h)
      BY <2>b
    <3>10. UNCHANGED <<notifyBits, opened, emitter, openings, reader, strayed>>
      BY <2>b
    <3> QED
      BY <3>1, <3>2, <3>3, <3>4, <3>5, <3>6, <3>7, <3>8, <3>9, <3>10
  <2>2. Types'
    BY <1>t, <2>1, <2>s, <2>k DEF Types, CallSet
  <2>3. PipesHeld'
    BY <1>p, <1>o, <2>1, <2>c, ThreadsApart DEF PipesHeld, CallSet, NoPipeOf
  <2>x. ~mingled' => ~strayed'
    BY <1>o, <2>1
  <2>y. Ranges'
    BY <2>2, RangesKnown, PTL
  <2>4. ~mingled' => CallsHold'
    BY <1>o, <1>y, <2>1, <2>c, <2>y, KindsApart, ThreadsApart, StatesApart DEF Ranges, CallSet, SlotSet, DescriptorSet, ReaderSet, CallsHold, NoPipeOf
  <2>5. ~mingled' => BuildsApart'
    BY <1>o, <1>y, <2>1, <2>c, <2>y, KindsApart, ThreadsApart, StatesApart DEF Ranges, CallSet, SlotSet, DescriptorSet, ReaderSet, BuildsApart, Building, NoPipeOf
  <2>6. ~mingled' => SlotsReach'
    BY <1>o, <1>y, <2>1, <2>c, <2>y, KindsApart, ThreadsApart, StatesApart DEF Ranges, CallSet, SlotSet, DescriptorSet, ReaderSet, SlotsReach
  <2>7. ~mingled' => ClosingPipes'
    BY <1>o, <1>y, <2>1, <2>c, <2>y, KindsApart, ThreadsApart, StatesApart DEF Ranges, CallSet, SlotSet, DescriptorSet, ReaderSet, ClosingPipes, NoPipeOf
  <2>8. ~mingled' => OneDescriptorEach'
    BY <1>o, <1>y, <2>1, <2>c, <2>y, KindsApart, ThreadsApart, StatesApart DEF Ranges, CallSet, SlotSet, DescriptorSet, ReaderSet, OneDescriptorEach
  <2>9. ~mingled' => DroppedLetGo'
    <3> SUFFICES ASSUME NEW s \in Sockets, request'[s].op = "drop",
                        request'[s].at \in {"sum", "store", "leave"},
                        NEW h \in NotifySlots, notify'[h].state \in Open
                 PROVE  reader[h].end # SocketOf(s)
      BY <2>1 DEF DroppedLetGo
    <3>1. h \notin orphans /\ notify[h].state \in Open
      BY <2>1, StatesApart
    <3>2. CASE s = t
      <4>1. request[t].op = "drop" /\ notify[h].fd # request[t].fd
        BY <3>1, <3>2, <2>1, <2>c DEF CallSet
      <4>2. /\ notify[h].fd \in NotifyFds /\ opened[notify[h].fd] = reader[h].end
            /\ request[t].fd \in NotifyFds /\ opened[request[t].fd] = SocketOf(s)
        BY <3>1, <3>2, <4>1, <2>1, <1>o DEF SlotsReach
      <4> QED
        BY <4>1, <4>2, <1>o DEF OneDescriptorEach
    <3>3. CASE s # t
      BY <3>1, <3>3, <2>1, <1>o, ThreadsApart DEF CallSet, DroppedLetGo
    <3> QED
      BY <3>2, <3>3
  <2>10. ~mingled' => EmitterHolds'
    BY <1>o, <1>y, <2>1, <2>c, <2>y, KindsApart, ThreadsApart, StatesApart DEF Ranges, CallSet, SlotSet, DescriptorSet, ReaderSet, EmitterHolds, NoPipeOf, Reporting, Written
  <2>11. ~mingled' => Gaps'
    BY <1>o, <1>y, <2>1, <2>c, <2>y, KindsApart, ThreadsApart, StatesApart DEF Ranges, CallSet, SlotSet, DescriptorSet, ReaderSet, Gaps, Reporting
  <2>12. ~mingled' => Sums'
    <3>1. CASE orphans = {}
      <4>1. notify' = notify
        BY <3>1, <2>b, <1>t DEF Types
      <4>2. RunningBits' = RunningBits
        BY <4>1 DEF RunningBits
      <4>3. SumsQuiet
        BY <3>1, <2>1, <2>c, <4>2, StatesApart DEF SumsQuiet, Totals, CallSet
      <4> QED
        BY <4>3, <1>o, SumsKept
    <3>2. CASE orphans # {}
      <4>1. request'[t].at = "sum" /\ AnySums'
        BY <3>2, <2>1, <2>c DEF CallSet, AnySums
      <4>2. \A u \in Threads : request'[u].at = "store" <=> request[u].at = "store"
        BY <3>2, <2>1, <2>c DEF CallSet
      <4>3. Summing' = Summing
        BY <4>2, <2>1 DEF Summing
      <4> QED
        BY <4>1, <4>2, <4>3, <2>1, <1>o DEF Sums
    <3> QED
      BY <3>1, <3>2
  <2> QED
    BY <2>2, <2>3, <2>x, <2>4, <2>5, <2>6, <2>7, <2>8, <2>9, <2>10, <2>11, <2>12 DEF NotificationsInv, Order
<1>10. ASSUME NEW op \in {"begin", "pause", "close", "monitor"}, NEW h \in NotifySlots, Call(op, h) PROVE NotificationsInv'
  <2> DEFINE call == [op |-> op, at |-> "apply", slot |-> h, fd |-> NoFd, sum |-> FALSE]
  <2>c. call \in CallRecords /\ call.at = "apply" /\ call.op = op /\ call.slot = h
    BY DEF CallRecords, CallPlaces, Ops
  <2>C. request' = request \/ CallSet(Api, call)
    BY <1>10, <2>c, <1>t, ThreadsApart, CallAt DEF Call
  <2> HIDE DEF call
  <2>1. /\ request[Api].at = "idle" /\ request[Api].op = "none"
        /\ request' = request \/ CallSet(Api, call)
        /\ known' \subseteq NotifySlots
        /\ UNCHANGED <<notify, notifyBits, opened, emitter, openings, reader, strayed, mingled>>
    <3>1. request[Api].at = "idle" /\ request[Api].op = "none"
      BY <1>10 DEF Call, IdleRequest
    <3>2. request' = request \/ CallSet(Api, call)
      BY <2>C
    <3>3. known' \subseteq NotifySlots
      BY <1>10, <1>t DEF Call, Types
    <3>4. UNCHANGED <<notify, notifyBits, opened, emitter, openings, reader, strayed, mingled>>
      BY <1>10 DEF Call
    <3> QED
      BY <3>1, <3>2, <3>3, <3>4
  <2>2. Types'
    BY <1>t, <2>1 DEF Types, CallSet
  <2>3. PipesHeld'
    BY <1>p, <2>1, ThreadsApart DEF PipesHeld, CallSet
  <2>x. ~mingled' => ~strayed'
    BY <1>o, <2>1
  <2>y. Ranges'
    BY <2>2, RangesKnown, PTL
  <2>4. CallsHold'
    BY <1>o, <1>y, <2>1, <2>c, <2>y, KindsApart, ThreadsApart, StatesApart DEF Ranges, CallSet, SlotSet, DescriptorSet, ReaderSet, CallsHold, NoPipeOf
  <2>5. BuildsApart'
    BY <1>o, <1>y, <2>1, <2>c, <2>y, KindsApart, ThreadsApart, StatesApart DEF Ranges, CallSet, SlotSet, DescriptorSet, ReaderSet, BuildsApart, Building, NoPipeOf
  <2>6. SlotsReach'
    BY <1>o, <1>y, <2>1, <2>c, <2>y, KindsApart, ThreadsApart, StatesApart DEF Ranges, CallSet, SlotSet, DescriptorSet, ReaderSet, SlotsReach
  <2>7. ClosingPipes'
    BY <1>o, <1>y, <2>1, <2>c, <2>y, KindsApart, ThreadsApart, StatesApart DEF Ranges, CallSet, SlotSet, DescriptorSet, ReaderSet, ClosingPipes, NoPipeOf
  <2>8. OneDescriptorEach'
    BY <1>o, <1>y, <2>1, <2>c, <2>y, KindsApart, ThreadsApart, StatesApart DEF Ranges, CallSet, SlotSet, DescriptorSet, ReaderSet, OneDescriptorEach
  <2>9. DroppedLetGo'
    BY <1>o, <1>y, <2>1, <2>c, <2>y, KindsApart, ThreadsApart, StatesApart DEF Ranges, CallSet, SlotSet, DescriptorSet, ReaderSet, DroppedLetGo
  <2>10. EmitterHolds'
    BY <1>o, <1>y, <2>1, <2>c, <2>y, KindsApart, ThreadsApart, StatesApart DEF Ranges, CallSet, SlotSet, DescriptorSet, ReaderSet, EmitterHolds, NoPipeOf, Reporting, Written
  <2>11. Gaps'
    BY <1>o, <1>y, <2>1, <2>c, <2>y, KindsApart, ThreadsApart, StatesApart DEF Ranges, CallSet, SlotSet, DescriptorSet, ReaderSet, Gaps, Reporting
  <2>12. Sums'
    <3>1. SumsQuiet
      BY <2>1, <2>c, <1>t, ThreadsApart DEF SumsQuiet, Totals, CallSet, SlotSet, RunningBits, IdleRequest, Types
    <3> QED
      BY <3>1, <1>o, SumsKept
  <2> QED
    BY <2>2, <2>3, <2>x, <2>4, <2>5, <2>6, <2>7, <2>8, <2>9, <2>10, <2>11, <2>12 DEF NotificationsInv, Order
<1>11. ASSUME Apply PROVE NotificationsInv'
  <2>h. PICK h \in NotifySlots : h = request[Api].slot
    BY <1>y, ThreadsApart DEF Ranges
  <2>o. request[Api].op \in {"begin", "pause", "close", "monitor"}
    BY <1>11, <1>o, ThreadsApart DEF Apply, CallsHold
  <2> DEFINE slot == CASE request[Api].op = "begin"   -> [notify[h] EXCEPT !.bits = TRUE, !.state = "RUNNING"]
                       [] request[Api].op = "pause"   -> [notify[h] EXCEPT !.bits = FALSE, !.state = "PAUSED"]
                       [] request[Api].op = "close"   -> [notify[h] EXCEPT !.bits = FALSE, !.state = "CLOSING"]
                       [] request[Api].op = "monitor" -> [notify[h] EXCEPT !.eventBits = TRUE]
  <2>s. /\ slot \in SlotRecords /\ slot.fd = notify[h].fd /\ slot.pipe = notify[h].pipe
        /\ slot.seqno = notify[h].seqno /\ slot.state \in {"RUNNING", "PAUSED", "CLOSING", notify[h].state}
        /\ request[Api].op = "monitor" => slot.state = notify[h].state /\ slot.bits = notify[h].bits
    BY <2>o, <1>t DEF Types, SlotRecords, SlotStates, Open
  <2>S. SlotSet(h, slot)
    BY <1>11, <2>s, <2>h, <1>t, SlotAt DEF Apply
  <2> HIDE DEF slot
  <2> DEFINE call == IF request[Api].op = "monitor" THEN IdleRequest ELSE [request[Api] EXCEPT !.at = "sum"]
  <2>c. /\ call \in CallRecords
        /\ \/ call.at = "idle" /\ call.op = "none" /\ request[Api].op = "monitor"
           \/ call.at = "sum" /\ call.op = request[Api].op /\ call.op \in {"begin", "pause", "close"}
    <3>1. request[Api] \in CallRecords
      BY <1>t, ThreadsApart DEF Types
    <3>2. LET e == [request[Api] EXCEPT !.at = "sum"] IN
            e \in CallRecords /\ e.at = "sum" /\ e.op = request[Api].op
      BY <3>1 DEF CallRecords, CallPlaces
    <3> QED
      BY <3>2, <2>o, IdleRecords DEF IdleRequest
  <2>C. CallSet(Api, call)
    BY <1>11, <2>c, <1>t, ThreadsApart, CallAt DEF Apply, Working, Finished
  <2> HIDE DEF call
  <2>1. /\ h = request[Api].slot /\ request[Api].at = "apply"
        /\ SlotSet(h, slot) /\ CallSet(Api, call)
        /\ mingled' \in BOOLEAN
        /\ ~mingled' => notify[h].state \in Open
        /\ UNCHANGED <<notifyBits, opened, emitter, openings, known, reader, strayed>>
    <3>1. h = request[Api].slot /\ request[Api].at = "apply"
      BY <1>11, <2>h DEF Apply
    <3>2. SlotSet(h, slot) /\ CallSet(Api, call)
      BY <2>S, <2>C
    <3>3. mingled' \in BOOLEAN
      BY <1>11, <1>t DEF Apply, Types
    <3>4. ~mingled' => notify[h].state \in Open
      BY <1>11, <2>h DEF Apply
    <3>5. UNCHANGED <<notifyBits, opened, emitter, openings, known, reader, strayed>>
      BY <1>11 DEF Apply
    <3> QED
      BY <3>1, <3>2, <3>3, <3>4, <3>5
  <2>2. Types'
    BY <1>t, <2>1 DEF Types, CallSet, SlotSet
  <2>3. PipesHeld'
    BY <1>p, <2>1, <2>c, <2>s, ThreadsApart DEF PipesHeld, CallSet, SlotSet
  <2>x. ~mingled' => ~strayed'
    BY <1>o, <2>1
  <2>y. Ranges'
    BY <2>2, RangesKnown, PTL
  <2>4. ~mingled' => CallsHold'
    BY <1>o, <1>y, <2>1, <2>c, <2>s, <2>y, KindsApart, ThreadsApart, StatesApart DEF Ranges, CallSet, SlotSet, DescriptorSet, ReaderSet, CallsHold, NoPipeOf
  <2>5. ~mingled' => BuildsApart'
    BY <1>o, <1>y, <2>1, <2>c, <2>s, <2>y, KindsApart, ThreadsApart, StatesApart DEF Ranges, CallSet, SlotSet, DescriptorSet, ReaderSet, BuildsApart, Building, NoPipeOf
  <2>6. ~mingled' => SlotsReach'
    BY <1>o, <1>y, <2>1, <2>c, <2>s, <2>y, KindsApart, ThreadsApart, StatesApart DEF Ranges, CallSet, SlotSet, DescriptorSet, ReaderSet, SlotsReach
  <2>7. ~mingled' => ClosingPipes'
    <3> SUFFICES ASSUME ~mingled' PROVE ClosingPipes'
      OBVIOUS
    <3>1. /\ notify[h].fd \in NotifyFds /\ opened[notify[h].fd] = reader[h].end
          /\ IF notify[h].pipe THEN reader[h].end = PipeOf(h)
             ELSE \E s \in Sockets : reader[h].end = SocketOf(s)
      BY <1>o, <2>1 DEF SlotsReach
    <3>2. NoPipeOf(h) \/ notify[h].pipe
      BY <3>1, <2>1, <1>p, KindsApart DEF PipesHeld, NoPipeOf
    <3> QED
      BY <3>1, <3>2, <2>1, <2>s, <1>o DEF ClosingPipes, SlotSet, NoPipeOf
  <2>8. ~mingled' => OneDescriptorEach'
    BY <1>o, <1>y, <2>1, <2>c, <2>s, <2>y, KindsApart, ThreadsApart, StatesApart DEF Ranges, CallSet, SlotSet, DescriptorSet, ReaderSet, OneDescriptorEach
  <2>9. ~mingled' => DroppedLetGo'
    BY <1>o, <1>y, <2>1, <2>c, <2>s, <2>y, KindsApart, ThreadsApart, StatesApart DEF Ranges, CallSet, SlotSet, DescriptorSet, ReaderSet, DroppedLetGo
  <2>10. ~mingled' => EmitterHolds'
    BY <1>o, <1>y, <2>1, <2>c, <2>s, <2>y, KindsApart, ThreadsApart, StatesApart DEF Ranges, CallSet, SlotSet, DescriptorSet, ReaderSet, EmitterHolds, NoPipeOf, Reporting, Written
  <2>11. ~mingled' => Gaps'
    BY <1>o, <1>y, <2>1, <2>c, <2>s, <2>y, KindsApart, ThreadsApart, StatesApart DEF Ranges, CallSet, SlotSet, DescriptorSet, ReaderSet, Gaps, Reporting
  <2>12. ~mingled' => Sums'
    <3>1. CASE request[Api].op = "monitor"
      <4>1. SumsQuiet
        BY <3>1, <2>1, <2>c, <2>s, <1>t, ThreadsApart DEF SumsQuiet, Totals, CallSet, SlotSet, RunningBits, Types
      <4> QED
        BY <4>1, <1>o, SumsKept
    <3>2. CASE request[Api].op # "monitor"
      <4>1. request'[Api].at = "sum" /\ AnySums'
        BY <3>2, <2>1, <2>c, ThreadsApart DEF CallSet, AnySums
      <4>2. \A u \in Threads : request'[u].at = "store" <=> request[u].at = "store"
        BY <3>2, <2>1, <2>c DEF CallSet
      <4>3. Summing' = Summing
        BY <4>2, <2>1 DEF Summing
      <4> QED
        BY <4>1, <4>2, <4>3, <2>1, <1>o DEF Sums
    <3> QED
      BY <3>1, <3>2
  <2> QED
    BY <2>2, <2>3, <2>x, <2>4, <2>5, <2>6, <2>7, <2>8, <2>9, <2>10, <2>11, <2>12 DEF NotificationsInv, Order
<1>12. ASSUME NEW t \in Threads, SumBits(t) PROVE NotificationsInv'
  <2> DEFINE call == [request[t] EXCEPT !.at = "store", !.sum = RunningBits]
  <2>c. /\ call \in CallRecords /\ call.at = "store" /\ call.op = request[t].op
        /\ call.sum = RunningBits
    <3>1. RunningBits \in BOOLEAN
      BY DEF RunningBits
    <3>2. request[t] \in CallRecords
      BY <1>t DEF Types
    <3> QED
      BY <3>1, <3>2 DEF CallRecords, CallPlaces
  <2>C. CallSet(t, call)
    BY <1>12, <2>c, <1>t, CallAt DEF SumBits
  <2> HIDE DEF call
  <2>1. /\ request[t].at = "sum"
        /\ CallSet(t, call)
        /\ mingled' \in BOOLEAN
        /\ ~mingled' => Summing = {}
        /\ UNCHANGED <<notify, notifyBits, opened, emitter, openings, known, reader, strayed>>
    <3>1. request[t].at = "sum"
      BY <1>12 DEF SumBits
    <3>2. CallSet(t, call)
      BY <2>C
    <3>3. mingled' \in BOOLEAN
      BY <1>12, <1>t DEF SumBits, Types
    <3>4. ~mingled' => Summing = {}
      BY <1>12 DEF SumBits
    <3>5. UNCHANGED <<notify, notifyBits, opened, emitter, openings, known, reader, strayed>>
      BY <1>12 DEF SumBits
    <3> QED
      BY <3>1, <3>2, <3>3, <3>4, <3>5
  <2>2. Types'
    BY <1>t, <2>1 DEF Types, CallSet
  <2>3. PipesHeld'
    BY <1>p, <2>1, ThreadsApart DEF PipesHeld, CallSet
  <2>x. ~mingled' => ~strayed'
    BY <1>o, <2>1
  <2>y. Ranges'
    BY <2>2, RangesKnown, PTL
  <2>4. ~mingled' => CallsHold'
    BY <1>o, <1>y, <2>1, <2>c, <2>y, KindsApart, ThreadsApart, StatesApart DEF Ranges, CallSet, SlotSet, DescriptorSet, ReaderSet, CallsHold, NoPipeOf
  <2>5. ~mingled' => BuildsApart'
    BY <1>o, <1>y, <2>1, <2>c, <2>y, KindsApart, ThreadsApart, StatesApart DEF Ranges, CallSet, SlotSet, DescriptorSet, ReaderSet, BuildsApart, Building, NoPipeOf
  <2>6. ~mingled' => SlotsReach'
    BY <1>o, <1>y, <2>1, <2>c, <2>y, KindsApart, ThreadsApart, StatesApart DEF Ranges, CallSet, SlotSet, DescriptorSet, ReaderSet, SlotsReach
  <2>7. ~mingled' => ClosingPipes'
    BY <1>o, <1>y, <2>1, <2>c, <2>y, KindsApart, ThreadsApart, StatesApart DEF Ranges, CallSet, SlotSet, DescriptorSet, ReaderSet, ClosingPipes, NoPipeOf
  <2>8. ~mingled' => OneDescriptorEach'
    BY <1>o, <1>y, <2>1, <2>c, <2>y, KindsApart, ThreadsApart, StatesApart DEF Ranges, CallSet, SlotSet, DescriptorSet, ReaderSet, OneDescriptorEach
  <2>9. ~mingled' => DroppedLetGo'
    BY <1>o, <1>y, <2>1, <2>c, <2>y, KindsApart, ThreadsApart, StatesApart DEF Ranges, CallSet, SlotSet, DescriptorSet, ReaderSet, DroppedLetGo
  <2>10. ~mingled' => EmitterHolds'
    BY <1>o, <1>y, <2>1, <2>c, <2>y, KindsApart, ThreadsApart, StatesApart DEF Ranges, CallSet, SlotSet, DescriptorSet, ReaderSet, EmitterHolds, NoPipeOf, Reporting, Written
  <2>11. ~mingled' => Gaps'
    BY <1>o, <1>y, <2>1, <2>c, <2>y, KindsApart, ThreadsApart, StatesApart DEF Ranges, CallSet, SlotSet, DescriptorSet, ReaderSet, Gaps, Reporting
  <2>12. ~mingled' => Sums'
    <3> SUFFICES ASSUME ~mingled' PROVE Sums'
      OBVIOUS
    <3>1. RunningBits' = RunningBits
      BY <2>1 DEF RunningBits
    <3>2. /\ \A u \in Threads : u # t => request'[u].at = request[u].at
          /\ request'[t].at = "store" /\ request'[t].sum = RunningBits /\ emitter' = emitter
      BY <2>1, <2>c DEF CallSet
    <3>3. \A u \in Threads : request[u].at # "store"
      BY <2>1, Zenon DEF Summing
    <3>4. emitter.at # "store"
      BY <2>1, Zenon DEF Summing
    <3>5. Summing' = {t}
      BY <3>2, <3>3, <3>4 DEF Summing
    <3>6. \A u \in Threads : request'[u].at = "store" => u = t
      BY <3>2, <3>3
    <3>7. emitter'.at # "store"
      BY <3>2, <3>4
    <3> QED
      BY <3>1, <3>2, <3>5, <3>6, <3>7, Zenon DEF Sums
  <2> QED
    BY <2>2, <2>3, <2>x, <2>4, <2>5, <2>6, <2>7, <2>8, <2>9, <2>10, <2>11, <2>12 DEF NotificationsInv, Order
<1>13. ASSUME NEW t \in Threads, StoreBits(t) PROVE NotificationsInv'
  <2> DEFINE call == IF request[t].op = "drop" THEN [request[t] EXCEPT !.at = "leave"] ELSE IdleRequest
  <2>c. /\ call \in CallRecords
        /\ \/ call.at = "leave" /\ call.op = "drop" /\ request[t].op = "drop"
           \/ call.at = "idle" /\ call.op = "none"
    <3>1. request[t] \in CallRecords
      BY <1>t DEF Types
    <3>2. LET e == [request[t] EXCEPT !.at = "leave"] IN
            e \in CallRecords /\ e.at = "leave" /\ e.op = request[t].op
      BY <3>1 DEF CallRecords, CallPlaces
    <3> QED
      BY <3>2, IdleRecords DEF IdleRequest
  <2>C. CallSet(t, call)
    BY <1>13, <2>c, <1>t, CallAt DEF StoreBits, Working, Finished
  <2> HIDE DEF call
  <2>1. /\ request[t].at = "store"
        /\ CallSet(t, call)
        /\ known' \subseteq NotifySlots
        /\ notifyBits' = request[t].sum /\ notifyBits' \in BOOLEAN
        /\ UNCHANGED <<notify, opened, emitter, openings, reader, strayed, mingled>>
    <3>1. request[t].at = "store"
      BY <1>13 DEF StoreBits
    <3>2. CallSet(t, call)
      BY <2>C
    <3>3. known' \subseteq NotifySlots
      BY <1>13, <1>t, <1>y DEF StoreBits, Types, Ranges
    <3>4. notifyBits' = request[t].sum /\ notifyBits' \in BOOLEAN
      BY <1>13, <1>t DEF StoreBits, Types, CallRecords
    <3>5. UNCHANGED <<notify, opened, emitter, openings, reader, strayed, mingled>>
      BY <1>13 DEF StoreBits
    <3> QED
      BY <3>1, <3>2, <3>3, <3>4, <3>5
  <2>2. Types'
    BY <1>t, <2>1 DEF Types, CallSet
  <2>3. PipesHeld'
    BY <1>p, <2>1, <2>c, ThreadsApart DEF PipesHeld, CallSet
  <2>x. ~mingled' => ~strayed'
    BY <1>o, <2>1
  <2>y. Ranges'
    BY <2>2, RangesKnown, PTL
  <2>4. CallsHold'
    BY <1>o, <1>y, <2>1, <2>c, <2>y, KindsApart, ThreadsApart, StatesApart DEF Ranges, CallSet, SlotSet, DescriptorSet, ReaderSet, CallsHold, NoPipeOf
  <2>5. BuildsApart'
    BY <1>o, <1>y, <2>1, <2>c, <2>y, KindsApart, ThreadsApart, StatesApart DEF Ranges, CallSet, SlotSet, DescriptorSet, ReaderSet, BuildsApart, Building, NoPipeOf
  <2>6. SlotsReach'
    BY <1>o, <1>y, <2>1, <2>c, <2>y, KindsApart, ThreadsApart, StatesApart DEF Ranges, CallSet, SlotSet, DescriptorSet, ReaderSet, SlotsReach
  <2>7. ClosingPipes'
    BY <1>o, <1>y, <2>1, <2>c, <2>y, KindsApart, ThreadsApart, StatesApart DEF Ranges, CallSet, SlotSet, DescriptorSet, ReaderSet, ClosingPipes, NoPipeOf
  <2>8. OneDescriptorEach'
    BY <1>o, <1>y, <2>1, <2>c, <2>y, KindsApart, ThreadsApart, StatesApart DEF Ranges, CallSet, SlotSet, DescriptorSet, ReaderSet, OneDescriptorEach
  <2>9. DroppedLetGo'
    BY <1>o, <1>y, <2>1, <2>c, <2>y, KindsApart, ThreadsApart, StatesApart DEF Ranges, CallSet, SlotSet, DescriptorSet, ReaderSet, DroppedLetGo
  <2>10. EmitterHolds'
    BY <1>o, <1>y, <2>1, <2>c, <2>y, KindsApart, ThreadsApart, StatesApart DEF Ranges, CallSet, SlotSet, DescriptorSet, ReaderSet, EmitterHolds, NoPipeOf, Reporting, Written
  <2>11. Gaps'
    BY <1>o, <1>y, <2>1, <2>c, <2>y, KindsApart, ThreadsApart, StatesApart DEF Ranges, CallSet, SlotSet, DescriptorSet, ReaderSet, Gaps, Reporting
  <2>12. Sums'
    <3>1. RunningBits' = RunningBits
      BY <2>1 DEF RunningBits
    <3>2. /\ \A u \in Threads : u # t => request'[u] = request[u]
          /\ request'[t].at \notin Totals /\ emitter' = emitter
      BY <2>1, <2>c DEF CallSet, Totals
    <3>3. t \in Summing
      BY <2>1 DEF Summing
    <3>5. \A u \in Threads : u # t => request[u].at # "store"
      BY <2>1, <1>o DEF Sums
    <3>6. emitter.at # "store"
      BY <2>1, <1>o DEF Sums
    <3>7. AnySums' = AnySums
      <4>1. \A u \in Threads : request'[u].at = "sum" <=> request[u].at = "sum"
        BY <3>2, <2>1 DEF Totals
      <4> QED
        BY <4>1, <3>2, Zenon DEF AnySums
    <3>8. AnySums \/ request[t].sum = RunningBits
      BY <2>1, <1>o, Zenon DEF Sums
    <3>9. Summing' = {} /\ \A u \in Threads : request'[u].at # "store"
      BY <3>2, <3>5, <3>6 DEF Summing, Totals
    <3> QED
      BY <3>1, <3>2, <3>6, <3>7, <3>8, <3>9, <2>1 DEF Sums
  <2> QED
    BY <2>2, <2>3, <2>x, <2>4, <2>5, <2>6, <2>7, <2>8, <2>9, <2>10, <2>11, <2>12 DEF NotificationsInv, Order
<1>14. ASSUME Pass PROVE NotificationsInv'
  <2>f. PICK changed \in {FALSE, notifyBits}, event \in BOOLEAN, first \in NotifySlots :
          emitter' = [IdleEmitter EXCEPT !.at = "slot", !.slot = first, !.changed = changed, !.event = event]
    BY <1>14 DEF Pass
  <2>c. emitter' \in EmitterRecords /\ emitter'.at = "slot"
    <3> DEFINE e == [IdleEmitter EXCEPT !.at = "slot", !.slot = first, !.changed = changed, !.event = event]
    <3>1. changed \in BOOLEAN
      BY <1>t DEF Types
    <3>2. e \in EmitterRecords /\ e.at = "slot"
      BY <3>1, IdleRecords DEF EmitterRecords, EmitterPlaces
    <3> QED
      BY <3>2, <2>f
  <2>1. /\ emitter.at = "idle"
        /\ UNCHANGED <<notify, notifyBits, opened, request, openings, known, reader, strayed, mingled>>
    <3>1. emitter.at = "idle"
      BY <1>14 DEF Pass
    <3>2. UNCHANGED <<notify, notifyBits, opened, request, openings, known, reader, strayed, mingled>>
      BY <1>14 DEF Pass
    <3> QED
      BY <3>1, <3>2
  <2>2. Types'
    BY <1>t, <2>1, <2>c DEF Types
  <2>3. PipesHeld'
    BY <1>p, <2>1 DEF PipesHeld
  <2>x. ~mingled' => ~strayed'
    BY <1>o, <2>1
  <2>y. Ranges'
    BY <2>2, RangesKnown, PTL
  <2>4. CallsHold'
    BY <1>o, <1>y, <2>1, <2>c, <2>y, KindsApart, ThreadsApart, StatesApart DEF Ranges, CallSet, SlotSet, DescriptorSet, ReaderSet, CallsHold, NoPipeOf
  <2>5. BuildsApart'
    BY <1>o, <1>y, <2>1, <2>c, <2>y, KindsApart, ThreadsApart, StatesApart DEF Ranges, CallSet, SlotSet, DescriptorSet, ReaderSet, BuildsApart, Building, NoPipeOf
  <2>6. SlotsReach'
    BY <1>o, <1>y, <2>1, <2>c, <2>y, KindsApart, ThreadsApart, StatesApart DEF Ranges, CallSet, SlotSet, DescriptorSet, ReaderSet, SlotsReach
  <2>7. ClosingPipes'
    BY <1>o, <1>y, <2>1, <2>c, <2>y, KindsApart, ThreadsApart, StatesApart DEF Ranges, CallSet, SlotSet, DescriptorSet, ReaderSet, ClosingPipes, NoPipeOf
  <2>8. OneDescriptorEach'
    BY <1>o, <1>y, <2>1, <2>c, <2>y, KindsApart, ThreadsApart, StatesApart DEF Ranges, CallSet, SlotSet, DescriptorSet, ReaderSet, OneDescriptorEach
  <2>9. DroppedLetGo'
    BY <1>o, <1>y, <2>1, <2>c, <2>y, KindsApart, ThreadsApart, StatesApart DEF Ranges, CallSet, SlotSet, DescriptorSet, ReaderSet, DroppedLetGo
  <2>10. EmitterHolds'
    BY <1>o, <1>y, <2>1, <2>c, <2>y, KindsApart, ThreadsApart, StatesApart DEF Ranges, CallSet, SlotSet, DescriptorSet, ReaderSet, EmitterHolds, NoPipeOf, Reporting, Written
  <2>11. Gaps'
    BY <1>o, <1>y, <2>1, <2>c, <2>y, KindsApart, ThreadsApart, StatesApart DEF Ranges, CallSet, SlotSet, DescriptorSet, ReaderSet, Gaps, Reporting
  <2>12. Sums'
    <3>1. SumsQuiet
      BY <2>1, <2>c, <1>t, ThreadsApart DEF SumsQuiet, Totals, CallSet, SlotSet, RunningBits, IdleRequest, Types
    <3> QED
      BY <3>1, <1>o, SumsKept
  <2> QED
    BY <2>2, <2>3, <2>x, <2>4, <2>5, <2>6, <2>7, <2>8, <2>9, <2>10, <2>11, <2>12 DEF NotificationsInv, Order
<1>15. ASSUME EndSlot PROVE NotificationsInv'
  <2>h. PICK h \in NotifySlots : h = emitter.slot
    BY <1>y DEF Ranges
  <2>e. notify[h].state = "CLOSING" /\ emitter.at = "slot" /\ emitter.slot = h
    BY <1>15, <2>h DEF EndSlot
  <2>p. notify[h].pipe => notify[h].fd \in NotifyFds /\ opened[notify[h].fd] = PipeOf(h)
    BY <2>e, <1>o DEF ClosingPipes
  <2>P. ~notify[h].pipe => NoPipeOf(h)
    BY <2>e, <1>o DEF ClosingPipes
  <2>q. \A f \in NotifyFds : opened[f] = PipeOf(h) => notify[h].fd = f
    BY <2>e, <1>p, <1>o, ThreadsApart DEF PipesHeld, BuildsApart, Building
  <2>d. /\ opened' \in [NotifyFds -> Ends]
        /\ \A f \in NotifyFds : opened'[f] = IF opened[f] = PipeOf(h) THEN FreeFd ELSE opened[f]
    <3>1. opened' = IF notify[h].pipe THEN [opened EXCEPT ![notify[h].fd] = FreeFd] ELSE opened
      BY <1>15, <2>h DEF EndSlot
    <3>2. CASE notify[h].pipe
      BY <3>1, <3>2, <2>p, <2>q, <1>t, EndsThere DEF Types
    <3>3. CASE ~notify[h].pipe
      BY <3>1, <3>3, <2>P, <1>t DEF Types, NoPipeOf
    <3> QED
      BY <3>2, <3>3
  <2>c. emitter' \in EmitterRecords /\ emitter'.at = "mark" /\ emitter'.slot = h
    <3>1. emitter \in EmitterRecords
      BY <1>t DEF Types
    <3>2. LET e == [emitter EXCEPT !.at = "mark"] IN
            e \in EmitterRecords /\ e.at = "mark" /\ e.slot = emitter.slot
      BY <3>1 DEF EmitterRecords, EmitterPlaces
    <3> QED
      BY <1>15, <3>2, <2>h DEF EndSlot
  <2>1. /\ h = emitter.slot /\ emitter.at = "slot" /\ notify[h].state = "CLOSING"
        /\ opened' = IF notify[h].pipe THEN [opened EXCEPT ![notify[h].fd] = FreeFd] ELSE opened
        /\ \A t \in Threads : Building(t) => request[t].slot # h
        /\ UNCHANGED <<notify, notifyBits, openings, reader, strayed, mingled>> /\ UNCHANGED <<request, openings, known>>
    <3>1. h = emitter.slot /\ emitter.at = "slot" /\ notify[h].state = "CLOSING"
      BY <1>15, <2>h DEF EndSlot
    <3>2. opened' = IF notify[h].pipe THEN [opened EXCEPT ![notify[h].fd] = FreeFd] ELSE opened
      BY <1>15, <2>h DEF EndSlot
    <3>3. \A t \in Threads : Building(t) => request[t].slot # h
      BY <2>e, <1>o DEF BuildsApart
    <3>4. UNCHANGED <<notify, notifyBits, openings, reader, strayed, mingled>> /\ UNCHANGED <<request, openings, known>>
      BY <1>15 DEF EndSlot, EmitterUnchanged
    <3> QED
      BY <3>1, <3>2, <3>3, <3>4
  <2>2. Types'
    BY <1>t, <2>1, <2>c, <2>d DEF Types
  <2>3. PipesHeld'
    BY <1>p, <2>1, <2>d, KindsApart DEF PipesHeld
  <2>x. ~mingled' => ~strayed'
    BY <1>o, <2>1
  <2>y. Ranges'
    BY <2>2, RangesKnown, PTL
  <2>4. CallsHold'
    <3>1. \A t \in Threads : /\ request[t].at = "publish" => request[t].slot # h
                             /\ request'[t] = request[t]
      BY <2>1 DEF Building
    <3>2. \A f \in NotifyFds, s \in Sockets : opened[f] = SocketOf(s) => opened'[f] = SocketOf(s)
      BY <2>d, KindsApart
    <3>3. \A f \in NotifyFds, i \in NotifySlots : opened'[f] = PipeOf(i) => opened[f] = PipeOf(i)
      BY <2>d, KindsApart
    <3>4. \A f \in NotifyFds, i \in NotifySlots \ {h} : opened[f] = PipeOf(i) => opened'[f] = PipeOf(i)
      BY <2>d, KindsApart
    <3> QED
      BY <3>1, <3>2, <3>3, <3>4, <1>o, <1>y, ThreadsApart DEF CallsHold, Ranges
  <2>5. BuildsApart'
    BY <1>o, <1>y, <2>1, <2>c, <2>d, <2>y, KindsApart, ThreadsApart, StatesApart DEF Ranges, CallSet, SlotSet, DescriptorSet, ReaderSet, BuildsApart, Building, NoPipeOf
  <2>6. SlotsReach'
    BY <1>o, <1>y, <2>1, <2>c, <2>d, <2>y, KindsApart, ThreadsApart, StatesApart DEF Ranges, CallSet, SlotSet, DescriptorSet, ReaderSet, SlotsReach
  <2>7. ClosingPipes'
    BY <1>o, <1>y, <2>1, <2>c, <2>d, <2>y, KindsApart, ThreadsApart, StatesApart DEF Ranges, CallSet, SlotSet, DescriptorSet, ReaderSet, ClosingPipes, NoPipeOf
  <2>8. OneDescriptorEach'
    BY <1>o, <1>y, <2>1, <2>c, <2>d, <2>y, KindsApart, ThreadsApart, StatesApart DEF Ranges, CallSet, SlotSet, DescriptorSet, ReaderSet, OneDescriptorEach
  <2>9. DroppedLetGo'
    BY <1>o, <1>y, <2>1, <2>c, <2>d, <2>y, KindsApart, ThreadsApart, StatesApart DEF Ranges, CallSet, SlotSet, DescriptorSet, ReaderSet, DroppedLetGo
  <2>10. EmitterHolds'
    BY <1>o, <1>y, <2>1, <2>c, <2>d, <2>y, KindsApart, ThreadsApart, StatesApart DEF Ranges, CallSet, SlotSet, DescriptorSet, ReaderSet, EmitterHolds, NoPipeOf, Reporting, Written
  <2>11. Gaps'
    BY <1>o, <1>y, <2>1, <2>c, <2>d, <2>y, KindsApart, ThreadsApart, StatesApart DEF Ranges, CallSet, SlotSet, DescriptorSet, ReaderSet, Gaps, Reporting
  <2>12. Sums'
    <3>1. SumsQuiet
      BY <2>1, <2>c, <1>t, ThreadsApart DEF SumsQuiet, Totals, CallSet, SlotSet, RunningBits, IdleRequest, Types
    <3> QED
      BY <3>1, <1>o, SumsKept
  <2> QED
    BY <2>2, <2>3, <2>x, <2>4, <2>5, <2>6, <2>7, <2>8, <2>9, <2>10, <2>11, <2>12 DEF NotificationsInv, Order
<1>16. ASSUME MarkSlot PROVE NotificationsInv'
  <2>h. PICK h \in NotifySlots : h = emitter.slot
    BY <1>y DEF Ranges
  <2>c. emitter' \in EmitterRecords /\ emitter'.at \in {"idle", "slot"}
    BY <1>16, <1>t, NextSlotMoves DEF MarkSlot, KeepSeqno
  <2> DEFINE slot == [notify[h] EXCEPT !.state = "CLOSED"]
  <2>s. slot \in SlotRecords /\ slot.state = "CLOSED" /\ slot.bits = notify[h].bits
    BY <1>t DEF Types, SlotRecords, SlotStates, Open
  <2>S. SlotSet(h, slot)
    BY <1>16, <2>s, <2>h, <1>t, SlotAt DEF MarkSlot
  <2> HIDE DEF slot
  <2>1. /\ h = emitter.slot /\ emitter.at = "mark"
        /\ notify[h].state = "CLOSING" /\ NoPipeOf(h)
        /\ SlotSet(h, slot)
        /\ UNCHANGED <<notifyBits, opened, openings, reader, strayed, mingled>> /\ UNCHANGED <<request, openings, known>>
    <3>1. h = emitter.slot /\ emitter.at = "mark"
      BY <1>16, <2>h DEF MarkSlot
    <3>2. notify[h].state = "CLOSING" /\ NoPipeOf(h)
      BY <1>16, <2>h, <1>o DEF MarkSlot, EmitterHolds
    <3>3. SlotSet(h, slot)
      BY <2>S
    <3>4. UNCHANGED <<notifyBits, opened, openings, reader, strayed, mingled>> /\ UNCHANGED <<request, openings, known>>
      BY <1>16 DEF MarkSlot, EmitterUnchanged
    <3> QED
      BY <3>1, <3>2, <3>3, <3>4
  <2>2. Types'
    BY <1>t, <2>1, <2>c DEF Types, SlotSet
  <2>3. PipesHeld'
    BY <1>p, <2>1, <2>s DEF PipesHeld, SlotSet, NoPipeOf
  <2>x. ~mingled' => ~strayed'
    BY <1>o, <2>1
  <2>y. Ranges'
    BY <2>2, RangesKnown, PTL
  <2>4. CallsHold'
    BY <1>o, <1>y, <2>1, <2>c, <2>s, <2>y, KindsApart, ThreadsApart, StatesApart DEF Ranges, CallSet, SlotSet, DescriptorSet, ReaderSet, CallsHold, NoPipeOf
  <2>5. BuildsApart'
    BY <1>o, <1>y, <2>1, <2>c, <2>s, <2>y, KindsApart, ThreadsApart, StatesApart DEF Ranges, CallSet, SlotSet, DescriptorSet, ReaderSet, BuildsApart, Building, NoPipeOf
  <2>6. SlotsReach'
    BY <1>o, <1>y, <2>1, <2>c, <2>s, <2>y, KindsApart, ThreadsApart, StatesApart DEF Ranges, CallSet, SlotSet, DescriptorSet, ReaderSet, SlotsReach
  <2>7. ClosingPipes'
    BY <1>o, <1>y, <2>1, <2>c, <2>s, <2>y, KindsApart, ThreadsApart, StatesApart DEF Ranges, CallSet, SlotSet, DescriptorSet, ReaderSet, ClosingPipes, NoPipeOf
  <2>8. OneDescriptorEach'
    BY <1>o, <1>y, <2>1, <2>c, <2>s, <2>y, KindsApart, ThreadsApart, StatesApart DEF Ranges, CallSet, SlotSet, DescriptorSet, ReaderSet, OneDescriptorEach
  <2>9. DroppedLetGo'
    BY <1>o, <1>y, <2>1, <2>c, <2>s, <2>y, KindsApart, ThreadsApart, StatesApart DEF Ranges, CallSet, SlotSet, DescriptorSet, ReaderSet, DroppedLetGo
  <2>10. EmitterHolds'
    BY <1>o, <1>y, <2>1, <2>c, <2>s, <2>y, KindsApart, ThreadsApart, StatesApart DEF Ranges, CallSet, SlotSet, DescriptorSet, ReaderSet, EmitterHolds, NoPipeOf, Reporting, Written
  <2>11. Gaps'
    BY <1>o, <1>y, <2>1, <2>c, <2>s, <2>y, KindsApart, ThreadsApart, StatesApart DEF Ranges, CallSet, SlotSet, DescriptorSet, ReaderSet, Gaps, Reporting
  <2>12. Sums'
    <3>1. SumsQuiet
      BY <2>1, <2>c, <2>s, <1>t, ThreadsApart DEF SumsQuiet, Totals, CallSet, SlotSet, RunningBits, IdleRequest, Types
    <3> QED
      BY <3>1, <1>o, SumsKept
  <2> QED
    BY <2>2, <2>3, <2>x, <2>4, <2>5, <2>6, <2>7, <2>8, <2>9, <2>10, <2>11, <2>12 DEF NotificationsInv, Order
<1>17. ASSUME KeepSeqno PROVE NotificationsInv'
  <2>h. PICK h \in NotifySlots : h = emitter.slot
    BY <1>y DEF Ranges
  <2>c. emitter' \in EmitterRecords /\ emitter'.at \in {"idle", "slot"}
    BY <1>17, <1>t, NextSlotMoves DEF MarkSlot, KeepSeqno
  <2> DEFINE slot == [notify[h] EXCEPT !.seqno = emitter.seqno]
  <2>s. /\ slot \in SlotRecords /\ slot.state = notify[h].state /\ slot.bits = notify[h].bits
        /\ slot.fd = notify[h].fd /\ slot.pipe = notify[h].pipe /\ slot.seqno = emitter.seqno
    BY <1>t DEF Types, SlotRecords, EmitterRecords
  <2>S. SlotSet(h, slot)
    BY <1>17, <2>s, <2>h, <1>t, SlotAt DEF KeepSeqno
  <2> HIDE DEF slot
  <2>1. /\ h = emitter.slot /\ emitter.at = "seqno"
        /\ SlotSet(h, slot)
        /\ UNCHANGED <<notifyBits, opened, openings, reader, strayed, mingled>> /\ UNCHANGED <<request, openings, known>>
    <3>1. h = emitter.slot /\ emitter.at = "seqno"
      BY <1>17, <2>h DEF KeepSeqno
    <3>2. SlotSet(h, slot)
      BY <2>S
    <3>3. UNCHANGED <<notifyBits, opened, openings, reader, strayed, mingled>> /\ UNCHANGED <<request, openings, known>>
      BY <1>17 DEF KeepSeqno, EmitterUnchanged
    <3> QED
      BY <3>1, <3>2, <3>3
  <2>2. Types'
    BY <1>t, <2>1, <2>c DEF Types, SlotSet
  <2>3. PipesHeld'
    BY <1>p, <2>1, <2>s DEF PipesHeld, SlotSet
  <2>x. ~mingled' => ~strayed'
    BY <1>o, <2>1
  <2>y. Ranges'
    BY <2>2, RangesKnown, PTL
  <2>4. CallsHold'
    BY <1>o, <1>y, <2>1, <2>c, <2>s, <2>y, KindsApart, ThreadsApart, StatesApart DEF Ranges, CallSet, SlotSet, DescriptorSet, ReaderSet, CallsHold, NoPipeOf
  <2>5. BuildsApart'
    BY <1>o, <1>y, <2>1, <2>c, <2>s, <2>y, KindsApart, ThreadsApart, StatesApart DEF Ranges, CallSet, SlotSet, DescriptorSet, ReaderSet, BuildsApart, Building, NoPipeOf
  <2>6. SlotsReach'
    BY <1>o, <1>y, <2>1, <2>c, <2>s, <2>y, KindsApart, ThreadsApart, StatesApart DEF Ranges, CallSet, SlotSet, DescriptorSet, ReaderSet, SlotsReach
  <2>7. ClosingPipes'
    BY <1>o, <1>y, <2>1, <2>c, <2>s, <2>y, KindsApart, ThreadsApart, StatesApart DEF Ranges, CallSet, SlotSet, DescriptorSet, ReaderSet, ClosingPipes, NoPipeOf
  <2>8. OneDescriptorEach'
    BY <1>o, <1>y, <2>1, <2>c, <2>s, <2>y, KindsApart, ThreadsApart, StatesApart DEF Ranges, CallSet, SlotSet, DescriptorSet, ReaderSet, OneDescriptorEach
  <2>9. DroppedLetGo'
    BY <1>o, <1>y, <2>1, <2>c, <2>s, <2>y, KindsApart, ThreadsApart, StatesApart DEF Ranges, CallSet, SlotSet, DescriptorSet, ReaderSet, DroppedLetGo
  <2>10. EmitterHolds'
    BY <1>o, <1>y, <2>1, <2>c, <2>s, <2>y, KindsApart, ThreadsApart, StatesApart DEF Ranges, CallSet, SlotSet, DescriptorSet, ReaderSet, EmitterHolds, NoPipeOf, Reporting, Written
  <2>11. Gaps'
    BY <1>o, <1>y, <2>1, <2>c, <2>s, <2>y, KindsApart, ThreadsApart, StatesApart DEF Ranges, CallSet, SlotSet, DescriptorSet, ReaderSet, Gaps, Reporting
  <2>12. Sums'
    <3>1. SumsQuiet
      BY <2>1, <2>c, <2>s, <1>t, ThreadsApart DEF SumsQuiet, Totals, CallSet, SlotSet, RunningBits, IdleRequest, Types
    <3> QED
      BY <3>1, <1>o, SumsKept
  <2> QED
    BY <2>2, <2>3, <2>x, <2>4, <2>5, <2>6, <2>7, <2>8, <2>9, <2>10, <2>11, <2>12 DEF NotificationsInv, Order
<1>18. ASSUME ReportSlot PROVE NotificationsInv'
  <2>h. PICK h \in NotifySlots : h = emitter.slot
    BY <1>y DEF Ranges
  <2>f. \/ NextSlot
        \/ /\ notify[h].state \in Open
           /\ \E alive \in BOOLEAN :
                /\ Due(h, alive) # 0 /\ notify[h].seqno + Due(h, alive) <= MaxReports
                /\ emitter' = [emitter EXCEPT !.at = "write", !.emit = Due(h, alive), !.seqno = notify[h].seqno]
    <3>1. \A alive \in BOOLEAN : Due(h, alive) \in 0 .. 2
      BY DEF Due
    <3>2. notify[h].seqno \in Int /\ MaxReports \in Nat
      BY <1>y, NotificationsAssumption DEF Ranges
    <3>3. \/ notify[h].state \notin Open /\ NextSlot
          \/ /\ notify[h].state \in Open
             /\ \E alive \in BOOLEAN :
                  IF Due(h, alive) = 0 \/ notify[h].seqno + Due(h, alive) > MaxReports THEN NextSlot
                  ELSE emitter' = [emitter EXCEPT !.at = "write", !.emit = Due(h, alive),
                                                  !.seqno = notify[h].seqno]
      BY <1>18, <2>h DEF ReportSlot
    <3>4. \A alive \in BOOLEAN :
            ~(Due(h, alive) = 0 \/ notify[h].seqno + Due(h, alive) > MaxReports)
              => Due(h, alive) # 0 /\ notify[h].seqno + Due(h, alive) <= MaxReports
      BY <3>1, <3>2
    <3> QED
      BY <3>3, <3>4
  <2>c. /\ emitter' \in EmitterRecords
        /\ \/ emitter'.at \in {"idle", "slot"}
           \/ /\ notify[h].state \in Open /\ emitter'.at = "write" /\ emitter'.slot = h
              /\ emitter'.emit > 0 /\ emitter'.seqno = notify[h].seqno
              /\ emitter'.seqno + emitter'.emit <= MaxReports
    <3>1. CASE NextSlot
      BY <3>1, <1>t, NextSlotMoves
    <3>2. ASSUME NEW alive \in BOOLEAN, notify[h].state \in Open,
                 Due(h, alive) # 0, notify[h].seqno + Due(h, alive) <= MaxReports,
                 emitter' = [emitter EXCEPT !.at = "write", !.emit = Due(h, alive), !.seqno = notify[h].seqno]
          PROVE  /\ emitter' \in EmitterRecords /\ emitter'.at = "write" /\ emitter'.slot = h
                 /\ emitter'.emit > 0 /\ emitter'.seqno = notify[h].seqno
                 /\ emitter'.seqno + emitter'.emit <= MaxReports
      <4>1. PICK n : n = Due(h, alive)
        OBVIOUS
      <4>2. n \in 0 .. 2
        BY <4>1 DEF Due
      <4>3. emitter \in EmitterRecords /\ notify[h].seqno \in Numbers
        BY <1>t DEF Types, SlotRecords
      <4> DEFINE e == [emitter EXCEPT !.at = "write", !.emit = n, !.seqno = notify[h].seqno]
      <4>4. e \in EmitterRecords /\ e.at = "write" /\ e.slot = emitter.slot /\ e.emit = n
            /\ e.seqno = notify[h].seqno
        BY <4>2, <4>3 DEF EmitterRecords, EmitterPlaces
      <4>5. emitter' = e
        BY <3>2, <4>1
      <4> HIDE DEF e
      <4> QED
        BY <4>1, <4>2, <4>4, <4>5, <3>2, <2>h
    <3> QED
      BY <3>1, <3>2, <2>f
  <2>1. /\ h = emitter.slot /\ emitter.at = "slot"
        /\ UNCHANGED <<notify, notifyBits, opened, openings, reader, strayed, mingled>> /\ UNCHANGED <<request, openings, known>>
    <3>1. h = emitter.slot /\ emitter.at = "slot"
      BY <1>18, <2>h DEF ReportSlot
    <3>2. UNCHANGED <<notify, notifyBits, opened, openings, reader, strayed, mingled>> /\ UNCHANGED <<request, openings, known>>
      BY <1>18 DEF ReportSlot, EmitterUnchanged
    <3> QED
      BY <3>1, <3>2
  <2>2. Types'
    BY <1>t, <2>1, <2>c DEF Types
  <2>3. PipesHeld'
    BY <1>p, <2>1 DEF PipesHeld
  <2>x. ~mingled' => ~strayed'
    BY <1>o, <2>1
  <2>y. Ranges'
    BY <2>2, RangesKnown, PTL
  <2>4. CallsHold'
    BY <1>o, <1>y, <2>1, <2>c, <2>y, KindsApart, ThreadsApart, StatesApart DEF Ranges, CallSet, SlotSet, DescriptorSet, ReaderSet, CallsHold, NoPipeOf
  <2>5. BuildsApart'
    BY <1>o, <1>y, <2>1, <2>c, <2>y, KindsApart, ThreadsApart, StatesApart DEF Ranges, CallSet, SlotSet, DescriptorSet, ReaderSet, BuildsApart, Building, NoPipeOf
  <2>6. SlotsReach'
    BY <1>o, <1>y, <2>1, <2>c, <2>y, KindsApart, ThreadsApart, StatesApart DEF Ranges, CallSet, SlotSet, DescriptorSet, ReaderSet, SlotsReach
  <2>7. ClosingPipes'
    BY <1>o, <1>y, <2>1, <2>c, <2>y, KindsApart, ThreadsApart, StatesApart DEF Ranges, CallSet, SlotSet, DescriptorSet, ReaderSet, ClosingPipes, NoPipeOf
  <2>8. OneDescriptorEach'
    BY <1>o, <1>y, <2>1, <2>c, <2>y, KindsApart, ThreadsApart, StatesApart DEF Ranges, CallSet, SlotSet, DescriptorSet, ReaderSet, OneDescriptorEach
  <2>9. DroppedLetGo'
    BY <1>o, <1>y, <2>1, <2>c, <2>y, KindsApart, ThreadsApart, StatesApart DEF Ranges, CallSet, SlotSet, DescriptorSet, ReaderSet, DroppedLetGo
  <2>10. EmitterHolds'
    <3>1. CASE emitter'.at \in {"idle", "slot"}
      BY <3>1 DEF EmitterHolds, Reporting
    <3>2. CASE emitter'.at = "write"
      <4>1. /\ notify[h].fd \in NotifyFds /\ opened[notify[h].fd] = reader[h].end
            /\ reader[h].end # FreeFd
        BY <3>2, <2>c, <1>o, KindsApart DEF SlotsReach
      <4> QED
        BY <4>1, <3>2, <2>1, <2>c DEF EmitterHolds, Reporting, Written
    <3> QED
      BY <3>1, <3>2, <2>c
  <2>11. Gaps'
    BY <1>o, <1>y, <2>1, <2>c, <2>y, KindsApart, ThreadsApart, StatesApart DEF Ranges, CallSet, SlotSet, DescriptorSet, ReaderSet, Gaps, Reporting
  <2>12. Sums'
    <3>1. SumsQuiet
      BY <2>1, <2>c, <1>t, ThreadsApart DEF SumsQuiet, Totals, CallSet, SlotSet, RunningBits, IdleRequest, Types
    <3> QED
      BY <3>1, <1>o, SumsKept
  <2> QED
    BY <2>2, <2>3, <2>x, <2>4, <2>5, <2>6, <2>7, <2>8, <2>9, <2>10, <2>11, <2>12 DEF NotificationsInv, Order
<1>19. ASSUME emitter.at = "write", reader' = [reader EXCEPT ![emitter.slot].next = emitter.seqno + 1, ![emitter.slot].missed = FALSE],
            emitter' = [emitter EXCEPT !.seqno = @ + 1, !.emit = @ - 1,
                           !.at = IF emitter.emit = 1 THEN "seqno" ELSE "write"],
            UNCHANGED <<notify, notifyBits, opened, request, openings, known, strayed, mingled>> PROVE NotificationsInv'
  <2>h. PICK h \in NotifySlots : h = emitter.slot
    BY <1>y DEF Ranges
  <2>a. h = emitter.slot /\ emitter.at = "write" /\ notify[h].state \in Written
        /\ notify[h].fd \in NotifyFds /\ opened[notify[h].fd] = reader[h].end
        /\ reader[h].end # FreeFd
    BY <1>19, <2>h, <1>o DEF EmitterHolds, Reporting
  <2>b. emitter.emit > 0 /\ emitter.seqno + emitter.emit <= MaxReports
    BY <1>19, <2>h, <1>o DEF EmitterHolds
  <2>n. emitter.seqno \in Numbers /\ emitter.emit \in 0 .. 2 /\ MaxReports \in Nat
    BY <1>t, NotificationsAssumption DEF Types, EmitterRecords
  <2>m. emitter.seqno + 1 \in Numbers /\ emitter.emit - 1 \in 0 .. 2
        /\ emitter.seqno + 1 + (emitter.emit - 1) <= MaxReports
        /\ (emitter.emit # 1 => emitter.emit - 1 > 0)
    BY <2>b, <2>n DEF Numbers
  <2>c. /\ emitter' \in EmitterRecords /\ emitter'.slot = h
        /\ emitter'.at = (IF emitter.emit = 1 THEN "seqno" ELSE "write")
        /\ emitter'.seqno = emitter.seqno + 1 /\ emitter'.emit = emitter.emit - 1
    <3> DEFINE e == [emitter EXCEPT !.seqno = emitter.seqno + 1, !.emit = emitter.emit - 1,
                               !.at = IF emitter.emit = 1 THEN "seqno" ELSE "write"]
    <3>1. emitter \in EmitterRecords
      BY <1>t DEF Types
    <3>2. /\ e \in EmitterRecords /\ e.slot = emitter.slot
          /\ e.at = (IF emitter.emit = 1 THEN "seqno" ELSE "write")
          /\ e.seqno = emitter.seqno + 1 /\ e.emit = emitter.emit - 1
      BY <3>1, <2>m DEF EmitterRecords, EmitterPlaces
    <3> HIDE DEF e
    <3> QED
      BY <1>19, <3>2, <2>h DEF e
  <2> DEFINE got == [reader[h] EXCEPT !.next = emitter.seqno + 1, !.missed = FALSE]
  <2>r. got \in ReaderRecords /\ got.end = reader[h].end /\ got.next = emitter.seqno + 1 /\ got.missed = FALSE
    BY <1>t, <2>m DEF Types, ReaderRecords
  <2>q. reader' = [reader EXCEPT ![h] = got]
    BY <1>19, <2>a
  <2> HIDE DEF got
  <2>R. ReaderSet(h, got)
    BY <1>t, <2>r, <2>q, ReaderAt
  <2>1. /\ h = emitter.slot /\ emitter.at = "write" /\ notify[h].state \in Written
        /\ ReaderSet(h, got)
        /\ UNCHANGED <<notify, notifyBits, opened, request, openings, known, strayed, mingled>>
    <3>1. h = emitter.slot /\ emitter.at = "write" /\ notify[h].state \in Written
      BY <2>a
    <3>2. ReaderSet(h, got)
      BY <2>R
    <3>3. UNCHANGED <<notify, notifyBits, opened, request, openings, known, strayed, mingled>>
      BY <1>19
    <3> QED
      BY <3>1, <3>2, <3>3
  <2>2. Types'
    BY <1>t, <2>1, <2>c DEF Types, ReaderSet
  <2>3. PipesHeld'
    BY <1>p, <2>1 DEF PipesHeld
  <2>x. ~mingled' => ~strayed'
    BY <1>o, <2>1
  <2>y. Ranges'
    BY <2>2, RangesKnown, PTL
  <2>4. CallsHold'
    BY <1>o, <1>y, <2>1, <2>a, <2>c, <2>m, <2>r, <2>y, KindsApart, ThreadsApart, StatesApart DEF Ranges, CallSet, SlotSet, DescriptorSet, ReaderSet, CallsHold, NoPipeOf
  <2>5. BuildsApart'
    BY <1>o, <1>y, <2>1, <2>a, <2>c, <2>m, <2>r, <2>y, KindsApart, ThreadsApart, StatesApart DEF Ranges, CallSet, SlotSet, DescriptorSet, ReaderSet, BuildsApart, Building, NoPipeOf
  <2>6. SlotsReach'
    BY <1>o, <1>y, <2>1, <2>a, <2>c, <2>m, <2>r, <2>y, KindsApart, ThreadsApart, StatesApart DEF Ranges, CallSet, SlotSet, DescriptorSet, ReaderSet, SlotsReach
  <2>7. ClosingPipes'
    BY <1>o, <1>y, <2>1, <2>a, <2>c, <2>m, <2>r, <2>y, KindsApart, ThreadsApart, StatesApart DEF Ranges, CallSet, SlotSet, DescriptorSet, ReaderSet, ClosingPipes, NoPipeOf
  <2>8. OneDescriptorEach'
    BY <1>o, <1>y, <2>1, <2>a, <2>c, <2>m, <2>r, <2>y, KindsApart, ThreadsApart, StatesApart DEF Ranges, CallSet, SlotSet, DescriptorSet, ReaderSet, OneDescriptorEach
  <2>9. DroppedLetGo'
    BY <1>o, <1>y, <2>1, <2>a, <2>c, <2>m, <2>r, <2>y, KindsApart, ThreadsApart, StatesApart DEF Ranges, CallSet, SlotSet, DescriptorSet, ReaderSet, DroppedLetGo
  <2>10. EmitterHolds'
    <3>1. emitter'.at \in {"seqno", "write"} /\ emitter'.slot = h /\ Reporting(h)'
      BY <2>c DEF Reporting
    <3>2. notify' = notify /\ opened' = opened /\ reader'[h].end = reader[h].end
      BY <2>1, <2>r DEF ReaderSet
    <3> QED
      BY <3>1, <3>2, <2>a, <2>c, <2>m DEF EmitterHolds, Reporting
  <2>11. Gaps'
    <3>1. Reporting(h)' /\ Reporting(h)
      BY <2>1, <2>c DEF Reporting
    <3>2. \A i \in NotifySlots \ {h} : ~Reporting(i) /\ ~Reporting(i)'
      BY <2>1, <2>c DEF Reporting
    <3>3. \A i \in NotifySlots \ {h} : notify'[i] = notify[i] /\ reader'[i] = reader[i]
      BY <2>1 DEF ReaderSet
    <3>4. notify[h].state \in Open =>
            IF reader[h].missed THEN emitter.seqno > reader[h].next ELSE emitter.seqno = reader[h].next
      BY <3>1, <1>o DEF Gaps
    <3>5. notify[h].state \in Open =>
            IF got.missed THEN emitter.seqno + 1 > got.next ELSE emitter.seqno + 1 = got.next
      BY <3>4, <2>r, <1>y DEF Ranges
    <3>6. reader'[h] = got /\ notify'[h] = notify[h] /\ emitter'.seqno = emitter.seqno + 1
      BY <2>1, <2>c DEF ReaderSet
    <3>7. \A i \in NotifySlots \ {h} : notify[i].state \in Open =>
             IF reader[i].missed THEN notify[i].seqno > reader[i].next ELSE notify[i].seqno = reader[i].next
      BY <3>2, <1>o DEF Gaps
    <3>8. \A i \in NotifySlots : notify'[i].state \in Open =>
            LET next == IF Reporting(i)' THEN emitter'.seqno ELSE notify'[i].seqno
            IN IF reader'[i].missed THEN next > reader'[i].next ELSE next = reader'[i].next
      <4> SUFFICES ASSUME NEW i \in NotifySlots, notify'[i].state \in Open
                   PROVE  LET next == IF Reporting(i)' THEN emitter'.seqno ELSE notify'[i].seqno
                          IN IF reader'[i].missed THEN next > reader'[i].next ELSE next = reader'[i].next
        OBVIOUS
      <4>1. CASE i = h
        BY <4>1, <3>1, <3>5, <3>6
      <4>2. CASE i # h
        BY <4>2, <3>2, <3>3, <3>7
      <4> QED
        BY <4>1, <4>2
    <3> QED
      BY <3>8 DEF Gaps
  <2>12. Sums'
    <3>1. SumsQuiet
      BY <2>1, <2>c, <1>t, ThreadsApart DEF SumsQuiet, Totals, CallSet, SlotSet, RunningBits, IdleRequest, Types
    <3> QED
      BY <3>1, <1>o, SumsKept
  <2> QED
    BY <2>2, <2>3, <2>x, <2>4, <2>5, <2>6, <2>7, <2>8, <2>9, <2>10, <2>11, <2>12 DEF NotificationsInv, Order
<1>20. ASSUME emitter.at = "write", reader' = [reader EXCEPT ![emitter.slot].missed = TRUE],
            emitter' = [emitter EXCEPT !.seqno = @ + 1, !.emit = @ - 1,
                           !.at = IF emitter.emit = 1 THEN "seqno" ELSE "write"],
            UNCHANGED <<notify, notifyBits, opened, request, openings, known, strayed, mingled>> PROVE NotificationsInv'
  <2>h. PICK h \in NotifySlots : h = emitter.slot
    BY <1>y DEF Ranges
  <2>a. h = emitter.slot /\ emitter.at = "write" /\ notify[h].state \in Written
        /\ notify[h].fd \in NotifyFds /\ opened[notify[h].fd] = reader[h].end
        /\ reader[h].end # FreeFd
    BY <1>20, <2>h, <1>o DEF EmitterHolds, Reporting
  <2>b. emitter.emit > 0 /\ emitter.seqno + emitter.emit <= MaxReports
    BY <1>20, <2>h, <1>o DEF EmitterHolds
  <2>n. emitter.seqno \in Numbers /\ emitter.emit \in 0 .. 2 /\ MaxReports \in Nat
    BY <1>t, NotificationsAssumption DEF Types, EmitterRecords
  <2>m. emitter.seqno + 1 \in Numbers /\ emitter.emit - 1 \in 0 .. 2
        /\ emitter.seqno + 1 + (emitter.emit - 1) <= MaxReports
        /\ (emitter.emit # 1 => emitter.emit - 1 > 0)
    BY <2>b, <2>n DEF Numbers
  <2>c. /\ emitter' \in EmitterRecords /\ emitter'.slot = h
        /\ emitter'.at = (IF emitter.emit = 1 THEN "seqno" ELSE "write")
        /\ emitter'.seqno = emitter.seqno + 1 /\ emitter'.emit = emitter.emit - 1
    <3> DEFINE e == [emitter EXCEPT !.seqno = emitter.seqno + 1, !.emit = emitter.emit - 1,
                               !.at = IF emitter.emit = 1 THEN "seqno" ELSE "write"]
    <3>1. emitter \in EmitterRecords
      BY <1>t DEF Types
    <3>2. /\ e \in EmitterRecords /\ e.slot = emitter.slot
          /\ e.at = (IF emitter.emit = 1 THEN "seqno" ELSE "write")
          /\ e.seqno = emitter.seqno + 1 /\ e.emit = emitter.emit - 1
      BY <3>1, <2>m DEF EmitterRecords, EmitterPlaces
    <3> HIDE DEF e
    <3> QED
      BY <1>20, <3>2, <2>h DEF e
  <2> DEFINE got == [reader[h] EXCEPT !.missed = TRUE]
  <2>r. got \in ReaderRecords /\ got.end = reader[h].end /\ got.next = reader[h].next /\ got.missed = TRUE
    BY <1>t, <2>m DEF Types, ReaderRecords
  <2>q. reader' = [reader EXCEPT ![h] = got]
    BY <1>20, <2>a
  <2> HIDE DEF got
  <2>R. ReaderSet(h, got)
    BY <1>t, <2>r, <2>q, ReaderAt
  <2>1. /\ h = emitter.slot /\ emitter.at = "write" /\ notify[h].state \in Written
        /\ ReaderSet(h, got)
        /\ UNCHANGED <<notify, notifyBits, opened, request, openings, known, strayed, mingled>>
    <3>1. h = emitter.slot /\ emitter.at = "write" /\ notify[h].state \in Written
      BY <2>a
    <3>2. ReaderSet(h, got)
      BY <2>R
    <3>3. UNCHANGED <<notify, notifyBits, opened, request, openings, known, strayed, mingled>>
      BY <1>20
    <3> QED
      BY <3>1, <3>2, <3>3
  <2>2. Types'
    BY <1>t, <2>1, <2>c DEF Types, ReaderSet
  <2>3. PipesHeld'
    BY <1>p, <2>1 DEF PipesHeld
  <2>x. ~mingled' => ~strayed'
    BY <1>o, <2>1
  <2>y. Ranges'
    BY <2>2, RangesKnown, PTL
  <2>4. CallsHold'
    BY <1>o, <1>y, <2>1, <2>a, <2>c, <2>m, <2>r, <2>y, KindsApart, ThreadsApart, StatesApart DEF Ranges, CallSet, SlotSet, DescriptorSet, ReaderSet, CallsHold, NoPipeOf
  <2>5. BuildsApart'
    BY <1>o, <1>y, <2>1, <2>a, <2>c, <2>m, <2>r, <2>y, KindsApart, ThreadsApart, StatesApart DEF Ranges, CallSet, SlotSet, DescriptorSet, ReaderSet, BuildsApart, Building, NoPipeOf
  <2>6. SlotsReach'
    BY <1>o, <1>y, <2>1, <2>a, <2>c, <2>m, <2>r, <2>y, KindsApart, ThreadsApart, StatesApart DEF Ranges, CallSet, SlotSet, DescriptorSet, ReaderSet, SlotsReach
  <2>7. ClosingPipes'
    BY <1>o, <1>y, <2>1, <2>a, <2>c, <2>m, <2>r, <2>y, KindsApart, ThreadsApart, StatesApart DEF Ranges, CallSet, SlotSet, DescriptorSet, ReaderSet, ClosingPipes, NoPipeOf
  <2>8. OneDescriptorEach'
    BY <1>o, <1>y, <2>1, <2>a, <2>c, <2>m, <2>r, <2>y, KindsApart, ThreadsApart, StatesApart DEF Ranges, CallSet, SlotSet, DescriptorSet, ReaderSet, OneDescriptorEach
  <2>9. DroppedLetGo'
    BY <1>o, <1>y, <2>1, <2>a, <2>c, <2>m, <2>r, <2>y, KindsApart, ThreadsApart, StatesApart DEF Ranges, CallSet, SlotSet, DescriptorSet, ReaderSet, DroppedLetGo
  <2>10. EmitterHolds'
    <3>1. emitter'.at \in {"seqno", "write"} /\ emitter'.slot = h /\ Reporting(h)'
      BY <2>c DEF Reporting
    <3>2. notify' = notify /\ opened' = opened /\ reader'[h].end = reader[h].end
      BY <2>1, <2>r DEF ReaderSet
    <3> QED
      BY <3>1, <3>2, <2>a, <2>c, <2>m DEF EmitterHolds, Reporting
  <2>11. Gaps'
    <3>1. Reporting(h)' /\ Reporting(h)
      BY <2>1, <2>c DEF Reporting
    <3>2. \A i \in NotifySlots \ {h} : ~Reporting(i) /\ ~Reporting(i)'
      BY <2>1, <2>c DEF Reporting
    <3>3. \A i \in NotifySlots \ {h} : notify'[i] = notify[i] /\ reader'[i] = reader[i]
      BY <2>1 DEF ReaderSet
    <3>4. notify[h].state \in Open =>
            IF reader[h].missed THEN emitter.seqno > reader[h].next ELSE emitter.seqno = reader[h].next
      BY <3>1, <1>o DEF Gaps
    <3>5. notify[h].state \in Open =>
            IF got.missed THEN emitter.seqno + 1 > got.next ELSE emitter.seqno + 1 = got.next
      BY <3>4, <2>r, <1>y DEF Ranges
    <3>6. reader'[h] = got /\ notify'[h] = notify[h] /\ emitter'.seqno = emitter.seqno + 1
      BY <2>1, <2>c DEF ReaderSet
    <3>7. \A i \in NotifySlots \ {h} : notify[i].state \in Open =>
             IF reader[i].missed THEN notify[i].seqno > reader[i].next ELSE notify[i].seqno = reader[i].next
      BY <3>2, <1>o DEF Gaps
    <3>8. \A i \in NotifySlots : notify'[i].state \in Open =>
            LET next == IF Reporting(i)' THEN emitter'.seqno ELSE notify'[i].seqno
            IN IF reader'[i].missed THEN next > reader'[i].next ELSE next = reader'[i].next
      <4> SUFFICES ASSUME NEW i \in NotifySlots, notify'[i].state \in Open
                   PROVE  LET next == IF Reporting(i)' THEN emitter'.seqno ELSE notify'[i].seqno
                          IN IF reader'[i].missed THEN next > reader'[i].next ELSE next = reader'[i].next
        OBVIOUS
      <4>1. CASE i = h
        BY <4>1, <3>1, <3>5, <3>6
      <4>2. CASE i # h
        BY <4>2, <3>2, <3>3, <3>7
      <4> QED
        BY <4>1, <4>2
    <3> QED
      BY <3>8 DEF Gaps
  <2>12. Sums'
    <3>1. SumsQuiet
      BY <2>1, <2>c, <1>t, ThreadsApart DEF SumsQuiet, Totals, CallSet, SlotSet, RunningBits, IdleRequest, Types
    <3> QED
      BY <3>1, <1>o, SumsKept
  <2> QED
    BY <2>2, <2>3, <2>x, <2>4, <2>5, <2>6, <2>7, <2>8, <2>9, <2>10, <2>11, <2>12 DEF NotificationsInv, Order
<1>21. ASSUME emitter.at = "write",
            notify' = [notify EXCEPT ![emitter.slot].bits = FALSE, ![emitter.slot].state = "CLOSING"],
            emitter' = [emitter EXCEPT !.at = "sum"], UNCHANGED <<notifyBits, opened, request, openings, known, reader, strayed, mingled>> PROVE NotificationsInv'
  <2>h. PICK h \in NotifySlots : h = emitter.slot
    BY <1>y DEF Ranges
  <2>a. h = emitter.slot /\ emitter.at = "write" /\ notify[h].state \in Written
        /\ notify[h].fd \in NotifyFds /\ opened[notify[h].fd] = reader[h].end
        /\ reader[h].end # FreeFd
    BY <1>21, <2>h, <1>o DEF EmitterHolds, Reporting
  <2>b. emitter.emit > 0 /\ emitter.seqno + emitter.emit <= MaxReports
    BY <1>21, <2>h, <1>o DEF EmitterHolds
  <2>c. emitter' \in EmitterRecords /\ emitter'.at = "sum" /\ emitter'.slot = h
        /\ emitter'.seqno = emitter.seqno
    <3>1. emitter \in EmitterRecords
      BY <1>t DEF Types
    <3>2. LET e == [emitter EXCEPT !.at = "sum"] IN
            e \in EmitterRecords /\ e.at = "sum" /\ e.slot = emitter.slot /\ e.seqno = emitter.seqno
      BY <3>1 DEF EmitterRecords, EmitterPlaces
    <3> QED
      BY <1>21, <3>2, <2>h
  <2> DEFINE slot == [notify[h] EXCEPT !.bits = FALSE, !.state = "CLOSING"]
  <2>s. slot \in SlotRecords /\ slot.state = "CLOSING" /\ slot.fd = notify[h].fd /\ slot.pipe = notify[h].pipe
    BY <1>t DEF Types, SlotRecords, SlotStates, Open
  <2>S. SlotSet(h, slot)
    BY <1>21, <2>s, <2>h, <1>t, SlotAt
  <2> HIDE DEF slot
  <2>1. /\ h = emitter.slot /\ emitter.at = "write" /\ notify[h].state \in Written
        /\ SlotSet(h, slot)
        /\ notify[h].state # "RESERVED"
        /\ UNCHANGED <<notifyBits, opened, request, openings, known, reader, strayed, mingled>>
    <3>1. h = emitter.slot /\ emitter.at = "write" /\ notify[h].state \in Written
      BY <2>a
    <3>2. SlotSet(h, slot)
      BY <2>S
    <3>3. notify[h].state # "RESERVED"
      BY <2>a, StatesApart DEF Written
    <3>4. UNCHANGED <<notifyBits, opened, request, openings, known, reader, strayed, mingled>>
      BY <1>21
    <3> QED
      BY <3>1, <3>2, <3>3, <3>4
  <2>2. Types'
    BY <1>t, <2>1, <2>c DEF Types, SlotSet
  <2>3. PipesHeld'
    BY <1>p, <2>1, <2>s DEF PipesHeld, SlotSet
  <2>x. ~mingled' => ~strayed'
    BY <1>o, <2>1
  <2>y. Ranges'
    BY <2>2, RangesKnown, PTL
  <2>4. CallsHold'
    BY <1>o, <1>y, <2>1, <2>a, <2>c, <2>s, <2>y, KindsApart, ThreadsApart, StatesApart DEF Ranges, CallSet, SlotSet, DescriptorSet, ReaderSet, CallsHold, NoPipeOf
  <2>5. BuildsApart'
    BY <1>o, <1>y, <2>1, <2>a, <2>c, <2>s, <2>y, KindsApart, ThreadsApart, StatesApart DEF Ranges, CallSet, SlotSet, DescriptorSet, ReaderSet, BuildsApart, Building, NoPipeOf
  <2>6. SlotsReach'
    BY <1>o, <1>y, <2>1, <2>a, <2>c, <2>s, <2>y, KindsApart, ThreadsApart, StatesApart DEF Ranges, CallSet, SlotSet, DescriptorSet, ReaderSet, SlotsReach
  <2>7. ClosingPipes'
    <3>1. notify[h].pipe => opened[notify[h].fd] = PipeOf(h)
      BY <2>a, <1>o, StatesApart DEF SlotsReach, ClosingPipes, Written
    <3>2. NoPipeOf(h) \/ notify[h].pipe
      <4>1. CASE notify[h].state = "CLOSING"
        BY <4>1, <1>o DEF ClosingPipes
      <4>2. CASE notify[h].state \in Open
        <5>1. ~notify[h].pipe => \E s \in Sockets : opened[notify[h].fd] = SocketOf(s)
          BY <4>2, <1>o DEF SlotsReach
        <5>2. \A f \in NotifyFds : opened[f] = PipeOf(h) => notify[h].fd = f
          BY <4>2, <1>p, <1>o, ThreadsApart, StatesApart DEF PipesHeld, BuildsApart, Building
        <5> QED
          BY <5>1, <5>2, KindsApart DEF NoPipeOf
      <4> QED
        BY <4>1, <4>2, <2>a DEF Written
    <3> QED
      BY <3>1, <3>2, <2>1, <2>a, <2>s, <1>o DEF ClosingPipes, SlotSet, NoPipeOf
  <2>8. OneDescriptorEach'
    BY <1>o, <1>y, <2>1, <2>a, <2>c, <2>s, <2>y, KindsApart, ThreadsApart, StatesApart DEF Ranges, CallSet, SlotSet, DescriptorSet, ReaderSet, OneDescriptorEach
  <2>9. DroppedLetGo'
    BY <1>o, <1>y, <2>1, <2>a, <2>c, <2>s, <2>y, KindsApart, ThreadsApart, StatesApart DEF Ranges, CallSet, SlotSet, DescriptorSet, ReaderSet, DroppedLetGo
  <2>10. EmitterHolds'
    BY <1>o, <1>y, <2>1, <2>a, <2>c, <2>s, <2>y, KindsApart, ThreadsApart, StatesApart DEF Ranges, CallSet, SlotSet, DescriptorSet, ReaderSet, EmitterHolds, NoPipeOf, Reporting, Written
  <2>11. Gaps'
    BY <1>o, <1>y, <2>1, <2>a, <2>c, <2>s, <2>y, KindsApart, ThreadsApart, StatesApart DEF Ranges, CallSet, SlotSet, DescriptorSet, ReaderSet, Gaps, Reporting
  <2>12. Sums'
    <3>1. AnySums' /\ emitter'.at # "store"
      BY <2>c DEF AnySums
    <3>2. Summing' = Summing
      BY <2>1, <2>c DEF Summing
    <3> QED
      BY <3>1, <3>2, <2>1, <1>o DEF Sums
  <2> QED
    BY <2>2, <2>3, <2>x, <2>4, <2>5, <2>6, <2>7, <2>8, <2>9, <2>10, <2>11, <2>12 DEF NotificationsInv, Order
<1>22. ASSUME EmitterSums PROVE NotificationsInv'
  <2>c. emitter' \in EmitterRecords /\ emitter'.at = "store" /\ emitter'.sum = RunningBits
        /\ emitter'.slot = emitter.slot /\ emitter'.seqno = emitter.seqno
    <3>1. emitter \in EmitterRecords /\ RunningBits \in BOOLEAN
      BY <1>t DEF Types, RunningBits
    <3>2. LET e == [emitter EXCEPT !.at = "store", !.sum = RunningBits] IN
            e \in EmitterRecords /\ e.at = "store" /\ e.sum = RunningBits
            /\ e.slot = emitter.slot /\ e.seqno = emitter.seqno
      BY <3>1 DEF EmitterRecords, EmitterPlaces
    <3> QED
      BY <1>22, <3>2 DEF EmitterSums
  <2>1. /\ emitter.at = "sum"
        /\ mingled' \in BOOLEAN
        /\ ~mingled' => Summing = {}
        /\ UNCHANGED <<notify, notifyBits, opened, openings, reader, strayed>> /\ UNCHANGED <<request, openings, known>>
    <3>1. emitter.at = "sum"
      BY <1>22 DEF EmitterSums
    <3>2. mingled' \in BOOLEAN
      BY <1>22, <1>t DEF EmitterSums, Types
    <3>3. ~mingled' => Summing = {}
      BY <1>22 DEF EmitterSums
    <3>4. UNCHANGED <<notify, notifyBits, opened, openings, reader, strayed>> /\ UNCHANGED <<request, openings, known>>
      BY <1>22 DEF EmitterSums, EmitterUnchanged
    <3> QED
      BY <3>1, <3>2, <3>3, <3>4
  <2>2. Types'
    BY <1>t, <2>1, <2>c DEF Types
  <2>3. PipesHeld'
    BY <1>p, <2>1 DEF PipesHeld
  <2>x. ~mingled' => ~strayed'
    BY <1>o, <2>1
  <2>y. Ranges'
    BY <2>2, RangesKnown, PTL
  <2>4. ~mingled' => CallsHold'
    BY <1>o, <1>y, <2>1, <2>c, <2>y, KindsApart, ThreadsApart, StatesApart DEF Ranges, CallSet, SlotSet, DescriptorSet, ReaderSet, CallsHold, NoPipeOf
  <2>5. ~mingled' => BuildsApart'
    BY <1>o, <1>y, <2>1, <2>c, <2>y, KindsApart, ThreadsApart, StatesApart DEF Ranges, CallSet, SlotSet, DescriptorSet, ReaderSet, BuildsApart, Building, NoPipeOf
  <2>6. ~mingled' => SlotsReach'
    BY <1>o, <1>y, <2>1, <2>c, <2>y, KindsApart, ThreadsApart, StatesApart DEF Ranges, CallSet, SlotSet, DescriptorSet, ReaderSet, SlotsReach
  <2>7. ~mingled' => ClosingPipes'
    BY <1>o, <1>y, <2>1, <2>c, <2>y, KindsApart, ThreadsApart, StatesApart DEF Ranges, CallSet, SlotSet, DescriptorSet, ReaderSet, ClosingPipes, NoPipeOf
  <2>8. ~mingled' => OneDescriptorEach'
    BY <1>o, <1>y, <2>1, <2>c, <2>y, KindsApart, ThreadsApart, StatesApart DEF Ranges, CallSet, SlotSet, DescriptorSet, ReaderSet, OneDescriptorEach
  <2>9. ~mingled' => DroppedLetGo'
    BY <1>o, <1>y, <2>1, <2>c, <2>y, KindsApart, ThreadsApart, StatesApart DEF Ranges, CallSet, SlotSet, DescriptorSet, ReaderSet, DroppedLetGo
  <2>10. ~mingled' => EmitterHolds'
    BY <1>o, <1>y, <2>1, <2>c, <2>y, KindsApart, ThreadsApart, StatesApart DEF Ranges, CallSet, SlotSet, DescriptorSet, ReaderSet, EmitterHolds, NoPipeOf, Reporting, Written
  <2>11. ~mingled' => Gaps'
    BY <1>o, <1>y, <2>1, <2>c, <2>y, KindsApart, ThreadsApart, StatesApart DEF Ranges, CallSet, SlotSet, DescriptorSet, ReaderSet, Gaps, Reporting
  <2>12. ~mingled' => Sums'
    <3> SUFFICES ASSUME ~mingled' PROVE Sums'
      OBVIOUS
    <3>1. RunningBits' = RunningBits /\ request' = request
      BY <2>1 DEF RunningBits
    <3>2. \A u \in Threads : request'[u].at # "store"
      BY <2>1, Zenon DEF Summing
    <3>3. Summing' # {}
      BY <2>c DEF Summing
    <3> QED
      BY <3>1, <3>2, <3>3, <2>c, Zenon DEF Sums
  <2> QED
    BY <2>2, <2>3, <2>x, <2>4, <2>5, <2>6, <2>7, <2>8, <2>9, <2>10, <2>11, <2>12 DEF NotificationsInv, Order
<1>23. ASSUME EmitterStores PROVE NotificationsInv'
  <2>c. emitter' \in EmitterRecords /\ emitter'.at = "seqno" /\ emitter'.slot = emitter.slot
        /\ emitter'.seqno = emitter.seqno
    <3>1. emitter \in EmitterRecords
      BY <1>t DEF Types
    <3>2. LET e == [emitter EXCEPT !.at = "seqno"] IN
            e \in EmitterRecords /\ e.at = "seqno" /\ e.slot = emitter.slot /\ e.seqno = emitter.seqno
      BY <3>1 DEF EmitterRecords, EmitterPlaces
    <3> QED
      BY <1>23, <3>2 DEF EmitterStores
  <2>1. /\ emitter.at = "store"
        /\ notifyBits' = emitter.sum /\ notifyBits' \in BOOLEAN
        /\ UNCHANGED <<notify, opened, openings, reader, strayed, mingled>> /\ UNCHANGED <<request, openings, known>>
    <3>1. emitter.at = "store"
      BY <1>23 DEF EmitterStores
    <3>2. notifyBits' = emitter.sum /\ notifyBits' \in BOOLEAN
      BY <1>23, <1>t DEF EmitterStores, Types, EmitterRecords
    <3>3. UNCHANGED <<notify, opened, openings, reader, strayed, mingled>> /\ UNCHANGED <<request, openings, known>>
      BY <1>23 DEF EmitterStores, EmitterUnchanged
    <3> QED
      BY <3>1, <3>2, <3>3
  <2>2. Types'
    BY <1>t, <2>1, <2>c DEF Types
  <2>3. PipesHeld'
    BY <1>p, <2>1 DEF PipesHeld
  <2>x. ~mingled' => ~strayed'
    BY <1>o, <2>1
  <2>y. Ranges'
    BY <2>2, RangesKnown, PTL
  <2>4. CallsHold'
    BY <1>o, <1>y, <2>1, <2>c, <2>y, KindsApart, ThreadsApart, StatesApart DEF Ranges, CallSet, SlotSet, DescriptorSet, ReaderSet, CallsHold, NoPipeOf
  <2>5. BuildsApart'
    BY <1>o, <1>y, <2>1, <2>c, <2>y, KindsApart, ThreadsApart, StatesApart DEF Ranges, CallSet, SlotSet, DescriptorSet, ReaderSet, BuildsApart, Building, NoPipeOf
  <2>6. SlotsReach'
    BY <1>o, <1>y, <2>1, <2>c, <2>y, KindsApart, ThreadsApart, StatesApart DEF Ranges, CallSet, SlotSet, DescriptorSet, ReaderSet, SlotsReach
  <2>7. ClosingPipes'
    BY <1>o, <1>y, <2>1, <2>c, <2>y, KindsApart, ThreadsApart, StatesApart DEF Ranges, CallSet, SlotSet, DescriptorSet, ReaderSet, ClosingPipes, NoPipeOf
  <2>8. OneDescriptorEach'
    BY <1>o, <1>y, <2>1, <2>c, <2>y, KindsApart, ThreadsApart, StatesApart DEF Ranges, CallSet, SlotSet, DescriptorSet, ReaderSet, OneDescriptorEach
  <2>9. DroppedLetGo'
    BY <1>o, <1>y, <2>1, <2>c, <2>y, KindsApart, ThreadsApart, StatesApart DEF Ranges, CallSet, SlotSet, DescriptorSet, ReaderSet, DroppedLetGo
  <2>10. EmitterHolds'
    BY <1>o, <1>y, <2>1, <2>c, <2>y, KindsApart, ThreadsApart, StatesApart DEF Ranges, CallSet, SlotSet, DescriptorSet, ReaderSet, EmitterHolds, NoPipeOf, Reporting, Written
  <2>11. Gaps'
    BY <1>o, <1>y, <2>1, <2>c, <2>y, KindsApart, ThreadsApart, StatesApart DEF Ranges, CallSet, SlotSet, DescriptorSet, ReaderSet, Gaps, Reporting
  <2>12. Sums'
    <3>1. RunningBits' = RunningBits /\ request' = request
      BY <2>1 DEF RunningBits
    <3>2. \A u \in Threads : request[u].at # "store"
      BY <2>1, <1>o DEF Sums
    <3>3. AnySums' = AnySums
      BY <2>1, <2>c, <3>1 DEF AnySums
    <3>4. AnySums \/ emitter.sum = RunningBits
      BY <2>1, <1>o, Zenon DEF Sums
    <3> QED
      BY <3>1, <3>2, <3>3, <3>4, <2>1, <2>c DEF Sums
  <2> QED
    BY <2>2, <2>3, <2>x, <2>4, <2>5, <2>6, <2>7, <2>8, <2>9, <2>10, <2>11, <2>12 DEF NotificationsInv, Order
<1>24. ASSUME NEW t \in Threads, CreatePipe(t) PROVE NotificationsInv'
  <2>1. /\ request[t].at = "create"
        /\ UNCHANGED <<notifyBits, emitter, openings, known, reader, strayed, mingled>>
        /\ \/ /\ notify' = [notify EXCEPT ![request[t].slot].state = "CLOSED"]
              /\ Finished(t) /\ UNCHANGED opened
           \/ \E fd \in NotifyFds :
                /\ opened[fd] = FreeFd
                /\ \/ /\ opened' = [opened EXCEPT ![fd] = <<"pipe", request[t].slot>>]
                      /\ request' = [request EXCEPT ![t].at = "publish", ![t].fd = fd]
                      /\ UNCHANGED notify
                   \/ /\ opened' = [opened EXCEPT ![fd] = <<"stray", request[t].slot>>]
                      /\ notify' = [notify EXCEPT ![request[t].slot].state = "CLOSED"]
                      /\ Finished(t)
    BY <1>24 DEF CreatePipe, Least, FreeFds
  <2> QED
    BY <2>1, <1>5, <1>6, <1>7
<1>25. ASSUME Write PROVE NotificationsInv'
  <2>1. emitter.at = "write" /\ emitter.slot \in NotifySlots
    BY <1>25, <1>y DEF Write, Ranges
  <2>2. opened[notify[emitter.slot].fd] = reader[emitter.slot].end
    BY <2>1, <1>o DEF EmitterHolds
  <2>3. (strayed \/ FALSE) = strayed
    BY <1>t DEF Types
  <2>4. \/ /\ reader' = [reader EXCEPT ![emitter.slot].next = emitter.seqno + 1,
                                       ![emitter.slot].missed = FALSE]
           /\ emitter' = [emitter EXCEPT !.seqno = @ + 1, !.emit = @ - 1,
                             !.at = IF emitter.emit = 1 THEN "seqno" ELSE "write"]
           /\ UNCHANGED <<notify, notifyBits, opened, request, openings, known, strayed, mingled>>
        \/ /\ reader' = [reader EXCEPT ![emitter.slot].missed = TRUE]
           /\ emitter' = [emitter EXCEPT !.seqno = @ + 1, !.emit = @ - 1,
                             !.at = IF emitter.emit = 1 THEN "seqno" ELSE "write"]
           /\ UNCHANGED <<notify, notifyBits, opened, request, openings, known, strayed, mingled>>
        \/ /\ notify' = [notify EXCEPT ![emitter.slot].bits = FALSE, ![emitter.slot].state = "CLOSING"]
           /\ emitter' = [emitter EXCEPT !.at = "sum"]
           /\ UNCHANGED <<notifyBits, opened, request, openings, known, reader, strayed, mingled>>
    BY <1>25, <2>2, <2>3 DEF Write, EmitterUnchanged
  <2> QED
    BY <2>1, <2>4, <1>19, <1>20, <1>21
<1>26. ASSUME NEW s \in Sockets, Accept(s) \/ Drop(s) \/ Disconnect(s) \/ ReserveNotify(s, "inband")
      PROVE  NotificationsInv'
  BY <1>26, <1>1, <1>2, <1>3, <1>4, ThreadsApart
<1>27. ASSUME NEW op \in {"open", "sized"}, ReserveNotify(Api, op) PROVE NotificationsInv'
  BY <1>27, <1>4, ThreadsApart
<1>28. ASSUME NEW t \in Threads,
              CreatePipe(t) \/ PublishNotify(t) \/ CloseOrphans(t) \/ SumBits(t) \/ StoreBits(t)
      PROVE  NotificationsInv'
  BY <1>28, <1>24, <1>8, <1>9, <1>12, <1>13
<1>29. ASSUME AlertStep PROVE NotificationsInv'
  BY <1>29, <1>15, <1>16, <1>17, <1>18, <1>25, <1>22, <1>23 DEF AlertStep
<1> QED
  BY <1>26, <1>27, <1>28, <1>10, <1>11, <1>14, <1>29 DEF NotificationsNext

(***************************************************************************)
(* Until two threads meet on the slots: a report is written to no          *)
(* stranger, its reader can tell a loss from its number, the slots that    *)
(* run are sampled for, and each open pipe is that of a slot, which closes *)
(* it (pigpio.c, gpioNotifyOpen, gpioNotifyOpenInBand, alertEmit,          *)
(* closeOrphanedNotifications, intNotifyBits).                             *)
(***************************************************************************)
THEOREM NotificationsKeptUntilMet ==
  NotificationsInit /\ [][~mingled /\ NotificationsNext]_notifyVars => []NotificationsKept
<1>1. NotificationsInv => NotificationsKept
  <2> SUFFICES ASSUME NotificationsInv PROVE NotificationsKept
    OBVIOUS
  <2>1. Types /\ PipesHeld /\ (mingled \/ Order)
    BY DEF NotificationsInv
  <2>2. NotificationsTypeOK
    BY <2>1, TypesAreOK
  <2>3. NoPipeLost
    BY <2>1 DEF PipesHeld, PipeOf, NoPipeLost
  <2>4. ReportsReachTheirReader /\ GapsTellOfLoss
    BY <2>1 DEF Order, ReportsReachTheirReader, GapsTellOfLoss, Gaps
  <2>5. RunningIsSampled
    BY <2>1, Zenon DEF Order, Sums, AnySums, RunningIsSampled
  <2> QED
    BY <2>2, <2>3, <2>4, <2>5 DEF NotificationsKept
<1>2. NotificationsInv /\ [~mingled /\ NotificationsNext]_notifyVars => NotificationsInv'
  <2> SUFFICES ASSUME NotificationsInv, [~mingled /\ NotificationsNext]_notifyVars
               PROVE  NotificationsInv'
    OBVIOUS
  <2>1. CASE ~mingled /\ NotificationsNext
    BY <2>1, NotificationsStep
  <2>2. CASE UNCHANGED notifyVars
    <3>1. /\ notify' = notify /\ notifyBits' = notifyBits /\ opened' = opened
          /\ request' = request /\ emitter' = emitter /\ openings' = openings
          /\ known' = known /\ reader' = reader /\ strayed' = strayed /\ mingled' = mingled
      BY <2>2 DEF notifyVars
    <3>2. Types' /\ PipesHeld'
      BY <3>1 DEF NotificationsInv, Types, PipesHeld
    <3>3. RunningBits' = RunningBits /\ (Order => SumsQuiet)
      BY <3>1 DEF RunningBits, SumsQuiet
    <3>4. Order => Sums'
      BY <3>3, SumsKept DEF Order
    <3>5. Order => (CallsHold /\ BuildsApart /\ SlotsReach /\ ClosingPipes /\ OneDescriptorEach)'
      BY <3>1 DEF Order, CallsHold, BuildsApart, Building, SlotsReach, ClosingPipes, NoPipeOf,
         OneDescriptorEach
    <3>6. Order => (DroppedLetGo /\ EmitterHolds /\ Gaps /\ ~strayed)'
      BY <3>1 DEF Order, DroppedLetGo, EmitterHolds, Reporting, Gaps, NoPipeOf
    <3>7. mingled' \/ Order'
      BY <3>1, <3>4, <3>5, <3>6 DEF NotificationsInv, Order
    <3> QED
      BY <3>2, <3>7 DEF NotificationsInv
  <2> QED
    BY <2>1, <2>2
<1> QED
  BY <1>1, <1>2, NotificationsStart, PTL

(***************************************************************************)
(* Serial reads                                                            *)
(***************************************************************************)
RxRecords == [bit : -1 .. dataBits, data : Characters, level : {0, 1, 3}, invert : {0, 1},
              wdog : BOOLEAN, age : 0 .. rxTimeout, bits : 0 .. Frame, late : {0, 1}]
RingRecords == [buf : [0 .. bufSize - 1 -> Characters], readPos : 0 .. bufSize,
                writePos : 0 .. bufSize - 1]
LineRecords == [level : {0, 1}, rest : Seq({0, 1}), count : 0 .. MaxCharacters]

SerialTyped ==
  /\ rx \in RxRecords /\ ring \in RingRecords
  /\ line \in LineRecords /\ Len(line.rest) <= dataBits + 1

(* The level of a character at each bit: its start bit, its own bits, and  *)
(* the stop bit, which lasts.                                              *)
LevelOf(c, p) == IF p = 0 \/ (p <= dataBits /\ p \notin c) THEN 0 ELSE 1

(* The bits before rx.bit have been put together; the level has not        *)
(* changed from rx.bit on; and the rest of the character is to come.       *)
Heard(c) ==
  /\ rx.bit <= rx.bits /\ rx.level = line.level
  /\ \A p \in rx.bit .. rx.bits : LevelOf(c, p) = line.level
  /\ rx.bit > 0 => rx.data = c \cap (1 .. rx.bit - 1)
ToCome(c) ==
  /\ Len(line.rest) = IF rx.bits <= dataBits THEN dataBits + 1 - rx.bits ELSE 0
  /\ \A k \in 1 .. Len(line.rest) : line.rest[k] = LevelOf(c, rx.bits + k)
Receiving == \E c \in Characters : sent = <<c>> /\ Heard(c) /\ ToCome(c)
Quiet == sent = <<>> /\ line.rest = <<>> /\ line.level = 1
InTune == rx.invert = 0 => ~wrong /\ (IF rx.bit < 0 THEN Quiet ELSE Receiving)

(* The ring holds what was stored and not yet read, from readPos on.       *)
Held == IF ring.readPos <= ring.writePos THEN ring.writePos - ring.readPos
        ELSE bufSize - ring.readPos + ring.writePos
Place(k) == IF ring.readPos + k - 1 < bufSize THEN ring.readPos + k - 1
            ELSE ring.readPos + k - 1 - bufSize
RingKept ==
  ~lapped => /\ stored \in Seq(Characters) /\ Len(stored) = Held
             /\ \A k \in 1 .. Len(stored) : stored[k] = ring.buf[Place(k)]

SerialInv == SerialTyped /\ InTune /\ RingKept

LEMMA Widths ==
  /\ dataBits \in Nat /\ dataBits > 0 /\ rxTimeout \in Nat /\ rxTimeout > 0
  /\ MaxCharacters \in Nat /\ bufSize \in Nat /\ bufSize > 1
  /\ Frame \in Nat /\ Frame > dataBits + 1
BY SerialAssumption DEF Frame

LEMMA RxFields ==
  ASSUME rx \in RxRecords
  PROVE  /\ rx.bit \in Int /\ rx.bit >= -1 /\ rx.bit <= dataBits /\ rx.data \subseteq 1 .. dataBits
         /\ rx.level \in {0, 1, 3} /\ rx.invert \in {0, 1} /\ rx.wdog \in BOOLEAN
         /\ rx.age \in 0 .. rxTimeout /\ rx.bits \in Nat /\ rx.bits <= Frame /\ rx.late \in {0, 1}
BY Widths DEF RxRecords, Characters

LEMMA LeastOf ==
  ASSUME NEW T \in SUBSET Nat, T # {}
  PROVE  \E x \in T : \A y \in T : x <= y
<1>1. PICK x \in T : \A y \in T : ~(<<y, x>> \in OpToRel(<, Nat))
  BY WFMin, NatLessThanWellFounded
<1>2. \A y \in T : x <= y
  <2> TAKE y \in T
  <2>1. <<y, x>> \in Nat \X Nat /\ <<y, x>> \notin OpToRel(<, Nat)
    BY <1>1
  <2>2. ~(y < x)
    BY <2>1 DEF OpToRel
  <2>3. QED  BY <2>2
<1>3. QED  BY <1>2

LEMMA BitAtRange ==
  ASSUME SerialTyped, rx.bit >= 0, NEW t \in Int
  PROVE  /\ BitAt(t) \in Int /\ rx.bit <= BitAt(t) /\ BitAt(t) <= dataBits + 1
         /\ BitAt(t) <= dataBits => t <= halfBit + fullBit * BitAt(t)
         /\ \A b \in rx.bit .. dataBits : b < BitAt(t) => t > halfBit + fullBit * b
<1> DEFINE ahead == {b \in rx.bit .. dataBits : t <= halfBit + fullBit * b}
<1>1. rx.bit \in Nat /\ rx.bit <= dataBits /\ dataBits \in Nat
  BY RxFields, Widths DEF SerialTyped
<1>2. CASE ahead = {}
  <2>1. BitAt(t) = dataBits + 1
    BY <1>2 DEF BitAt
  <2> QED
    BY <1>1, <1>2, <2>1 DEF halfBit, fullBit
<1>3. CASE ahead # {}
  <2>1. ahead \in SUBSET Nat
    BY <1>1
  <2>2. \E x \in ahead : \A y \in ahead : x <= y
    BY <1>3, <2>1, LeastOf
  <2>3. BitAt(t) = CHOOSE b \in ahead : \A c \in ahead : b <= c
    BY <1>3 DEF BitAt
  <2>4. BitAt(t) \in ahead /\ \A c \in ahead : BitAt(t) <= c
    BY <2>2, <2>3
  <2> QED
    BY <1>1, <2>4 DEF halfBit, fullBit
<1> QED
  BY <1>2, <1>3

(* The bit that is found is the one an edge or a timeout was seen at.      *)
LEMMA BitFound ==
  ASSUME SerialTyped, rx.bit >= 0, NEW p \in Nat, rx.bit <= p, NEW off \in -1 .. 1
  PROVE  BitAt(fullBit * p + off) = IF p <= dataBits THEN p ELSE dataBits + 1
<1>1. rx.bit \in Nat /\ dataBits \in Nat /\ fullBit * p + off \in Int
  BY RxFields, Widths DEF SerialTyped, fullBit
<1> DEFINE b == BitAt(fullBit * p + off)
<1>2. /\ b \in Int /\ rx.bit <= b /\ b <= dataBits + 1
      /\ b <= dataBits => fullBit * p + off <= halfBit + fullBit * b
      /\ \A x \in rx.bit .. dataBits : x < b => fullBit * p + off > halfBit + fullBit * x
  BY <1>1, BitAtRange
<1> HIDE DEF b
<1>3. b <= dataBits => p <= b
  BY <1>1, <1>2 DEF halfBit, fullBit
<1>4. p <= dataBits => b <= p
  BY <1>1, <1>2 DEF halfBit, fullBit
<1> QED
  BY <1>1, <1>2, <1>3, <1>4 DEF b

LEMMA StartTyped ==
  ASSUME SerialTyped, NEW level \in {0, 1, 2, 3}, NEW late \in {0, 1}
  PROVE  /\ StartBit(level, late) \in RxRecords
         /\ StartBit(level, late).bit = (IF level = 0 THEN 0 ELSE -1)
         /\ StartBit(level, late).bits = 0 /\ StartBit(level, late).invert = rx.invert
         /\ level # PI_TIMEOUT => StartBit(level, late).level = level
<1> DEFINE bit == IF level = 0 THEN 0 ELSE -1
           lv == IF level = PI_TIMEOUT THEN rx.level ELSE level
           wd == level = 0
<1>1. /\ bit \in -1 .. dataBits /\ {} \in Characters /\ lv \in {0, 1, 3} /\ 0 \in 0 .. rxTimeout
      /\ 0 \in 0 .. Frame /\ wd \in BOOLEAN
  BY RxFields, Widths DEF SerialTyped, Characters, PI_TIMEOUT
<1>2. StartBit(level, late) = [rx EXCEPT !.bit = bit, !.data = {}, !.level = lv, !.wdog = wd,
                                         !.age = 0, !.bits = 0, !.late = late]
  BY DEF StartBit
<1>3. /\ bit = (IF level = 0 THEN 0 ELSE -1)
      /\ level # PI_TIMEOUT => lv = level
  OBVIOUS
<1> HIDE DEF bit, lv, wd
<1>4. StartBit(level, late) \in RxRecords
  BY <1>1, <1>2 DEF SerialTyped, RxRecords
<1>5. /\ StartBit(level, late).bit = bit /\ StartBit(level, late).bits = 0
      /\ StartBit(level, late).invert = rx.invert /\ StartBit(level, late).level = lv
  BY <1>1, <1>2 DEF SerialTyped, RxRecords
<1> QED
  BY <1>3, <1>4, <1>5

(* What waveRxSerial does in each of its cases, by the bit that is found   *)
(* and the bits put together.                                              *)
Found(bits, late) == BitAt(fullBit * bits + late - rx.late)
Data(raw, bits, late) ==
  BitsFound(Found(bits, late),
            IF Seen(raw) = PI_TIMEOUT THEN rx.level ELSE IF Seen(raw) = 0 THEN 1 ELSE 0)
Still == [rx EXCEPT !.age = 0]
Goes(raw, bits, late) ==
  [rx EXCEPT !.bit = Found(bits, late), !.data = Data(raw, bits, late), !.age = 0, !.bits = bits,
             !.level = IF Seen(raw) = PI_TIMEOUT THEN @ ELSE Seen(raw)]
Ready(bits, late) ==
  rx.bit \in Int /\ dataBits \in Int /\ (rx.bit >= 0 => Found(bits, late) \in Int)

LEMMA WaveCases ==
  ASSUME NEW raw, NEW bits, NEW late, Ready(bits, late)
  PROVE  /\ rx.bit < 0 /\ Seen(raw) = 0 =>
              waveRxSerial(raw, bits, late) = [rx |-> StartBit(0, late), done |-> FALSE, data |-> {}]
         /\ rx.bit < 0 /\ Seen(raw) # 0 =>
              waveRxSerial(raw, bits, late) = [rx |-> Still, done |-> FALSE, data |-> {}]
         /\ rx.bit >= 0 /\ Found(bits, late) > dataBits =>
              waveRxSerial(raw, bits, late) =
                [rx |-> StartBit(Seen(raw), late), done |-> TRUE, data |-> Data(raw, bits, late)]
         /\ rx.bit >= 0 /\ Found(bits, late) <= dataBits =>
              waveRxSerial(raw, bits, late) =
                [rx |-> Goes(raw, bits, late), done |-> FALSE, data |-> {}]
<1>1. waveRxSerial(raw, bits, late) =
        CASE rx.bit < 0 /\ Seen(raw) = 0 -> [rx |-> StartBit(0, late), done |-> FALSE, data |-> {}]
          [] rx.bit < 0 /\ Seen(raw) # 0 -> [rx |-> Still, done |-> FALSE, data |-> {}]
          [] rx.bit >= 0 /\ Found(bits, late) > dataBits ->
               [rx |-> StartBit(Seen(raw), late), done |-> TRUE, data |-> Data(raw, bits, late)]
          [] rx.bit >= 0 /\ Found(bits, late) <= dataBits ->
               [rx |-> Goes(raw, bits, late), done |-> FALSE, data |-> {}]
  BY Zenon DEF waveRxSerial, Found, Data, Still, Goes
<1> DEFINE bit == Found(bits, late)
<1>2. rx.bit \in Int /\ dataBits \in Int /\ (rx.bit >= 0 => bit \in Int)
  BY DEF Ready
<1> HIDE DEF bit
<1>3. CASE rx.bit < 0
  <2>1. ~(rx.bit >= 0)
    BY <1>2, <1>3
  <2> QED
    BY <1>1, <1>3, <2>1
<1>4. CASE rx.bit >= 0
  <2>1. ~(rx.bit < 0)
    BY <1>2, <1>4
  <2>2. CASE bit > dataBits
    <3>1. ~(bit <= dataBits)
      BY <1>2, <1>4, <2>2
    <3> QED
      BY <1>1, <1>4, <2>1, <2>2, <3>1 DEF bit
  <2>3. CASE bit <= dataBits
    <3>1. ~(bit > dataBits)
      BY <1>2, <1>4, <2>3
    <3> QED
      BY <1>1, <1>4, <2>1, <2>3, <3>1 DEF bit
  <2> QED
    BY <1>2, <1>4, <2>2, <2>3
<1> QED
  BY <1>2, <1>3, <1>4

LEMMA OutTyped ==
  ASSUME SerialTyped, NEW raw \in {0, 1, 2}, NEW bits \in 0 .. Frame, NEW late \in {0, 1}
  PROVE  /\ waveRxSerial(raw, bits, late).rx \in RxRecords
         /\ waveRxSerial(raw, bits, late).rx.invert = rx.invert
         /\ waveRxSerial(raw, bits, late).done \in BOOLEAN
         /\ waveRxSerial(raw, bits, late).data \in Characters
<1> DEFINE level == Seen(raw)
           t == fullBit * bits + late - rx.late
           found == Data(raw, bits, late)
           goes == Goes(raw, bits, late)
           bit == Found(bits, late)
<1>1. level \in {0, 1, 2, 3} /\ t \in Int /\ {} \in Characters /\ bits \in Nat /\ bit = BitAt(t)
  BY RxFields, Widths DEF SerialTyped, Seen, PI_TIMEOUT, fullBit, Characters, Found
<1>2. Still \in RxRecords /\ Still.invert = rx.invert
  BY Widths DEF SerialTyped, RxRecords, Still
<1>3. StartBit(level, late) \in RxRecords /\ StartBit(level, late).invert = rx.invert
  BY <1>1, StartTyped
<1>4. found \in Characters
  BY RxFields DEF SerialTyped, BitsFound, Characters, Data
<1> HIDE DEF t, bit
<1>5. /\ rx.bit \in Int /\ dataBits \in Nat /\ rx.bit >= -1
      /\ rx.bit >= 0 => bit \in Int /\ rx.bit <= bit
  BY <1>1, BitAtRange, RxFields, Widths DEF SerialTyped
<1>6. Ready(bits, late)
  BY <1>5 DEF Ready, bit
<1>7. ASSUME rx.bit >= 0, bit <= dataBits PROVE goes \in RxRecords /\ goes.invert = rx.invert
  <2>1. bit \in -1 .. dataBits
    BY <1>5, <1>7
  <2> DEFINE lv == IF level = PI_TIMEOUT THEN rx.level ELSE level
  <2>2. lv \in {0, 1, 3}
    BY <1>1, RxFields DEF PI_TIMEOUT, SerialTyped
  <2>3. 0 \in 0 .. rxTimeout
    BY Widths
  <2>4. goes = [rx EXCEPT !.bit = bit, !.data = found, !.age = 0, !.bits = bits, !.level = lv]
    BY DEF Goes, bit
  <2> HIDE DEF level, found, goes, lv
  <2> QED
    BY <1>4, <2>1, <2>2, <2>3, <2>4 DEF SerialTyped, RxRecords
<1> DEFINE out == waveRxSerial(raw, bits, late)
<1>8. /\ rx.bit < 0 /\ level = 0 => out = [rx |-> StartBit(0, late), done |-> FALSE, data |-> {}]
      /\ rx.bit < 0 /\ level # 0 => out = [rx |-> Still, done |-> FALSE, data |-> {}]
      /\ rx.bit >= 0 /\ bit > dataBits =>
           out = [rx |-> StartBit(level, late), done |-> TRUE, data |-> found]
      /\ rx.bit >= 0 /\ bit <= dataBits => out = [rx |-> goes, done |-> FALSE, data |-> {}]
  BY <1>6, WaveCases DEF bit
<1> HIDE DEF level, found, goes, out
<1>9. CASE rx.bit < 0 /\ level = 0
  <2>1. out = [rx |-> StartBit(level, late), done |-> FALSE, data |-> {}]
    BY <1>8, <1>9
  <2>3. out.rx \in RxRecords /\ out.rx.invert = rx.invert
    BY <1>1, <1>3, <2>1
  <2>4. out.done \in BOOLEAN
    BY <2>1, Zenon
  <2>5. out.data \in Characters
    BY <1>1, <1>3, <2>1
  <2> QED
    BY <2>3, <2>4, <2>5 DEF out
<1>10. CASE rx.bit < 0 /\ level # 0
  <2>1. out = [rx |-> Still, done |-> FALSE, data |-> {}]
    BY <1>8, <1>10
  <2>3. out.rx \in RxRecords /\ out.rx.invert = rx.invert
    BY <1>1, <1>2, <2>1
  <2>4. out.done \in BOOLEAN
    BY <2>1, Zenon
  <2>5. out.data \in Characters
    BY <1>1, <1>2, <2>1
  <2> QED
    BY <2>3, <2>4, <2>5 DEF out
<1>11. CASE rx.bit >= 0 /\ bit > dataBits
  <2>1. out = [rx |-> StartBit(level, late), done |-> TRUE, data |-> found]
    BY <1>8, <1>11
  <2>3. out.rx \in RxRecords /\ out.rx.invert = rx.invert
    BY <1>3, <1>4, <2>1
  <2>4. out.done \in BOOLEAN
    BY <2>1, Zenon
  <2>5. out.data \in Characters
    BY <1>3, <1>4, <2>1
  <2> QED
    BY <2>3, <2>4, <2>5 DEF out
<1>12. CASE rx.bit >= 0 /\ bit <= dataBits
  <2>1. out = [rx |-> goes, done |-> FALSE, data |-> {}]
    BY <1>8, <1>12
  <2>2. goes \in RxRecords /\ goes.invert = rx.invert
    BY <1>7, <1>12
  <2>3. out.rx \in RxRecords /\ out.rx.invert = rx.invert
    BY <1>1, <2>2, <2>1
  <2>4. out.done \in BOOLEAN
    BY <2>1, Zenon
  <2>5. out.data \in Characters
    BY <1>1, <2>2, <2>1
  <2> QED
    BY <2>3, <2>4, <2>5 DEF out
<1> QED
  BY <1>5, <1>9, <1>10, <1>11, <1>12

(* An edge or a timeout within a character, or at its end.                 *)
AtEdge(c, raw, p, late) ==
  /\ c \in Characters /\ raw \in {0, 1, 2} /\ p \in 0 .. Frame /\ late \in {0, 1}
  /\ rx.invert = 0 /\ rx.bit >= 0 /\ rx.level \in {0, 1} /\ (raw # 2 => raw = 1 - rx.level)
  /\ rx.bit <= p /\ \A q \in rx.bit .. p - 1 : LevelOf(c, q) = rx.level
  /\ rx.bit > 0 => rx.data = c \cap (1 .. rx.bit - 1)

GoesOn(c, raw, p) ==
  [rx EXCEPT !.bit = p, !.data = c \cap (1 .. p - 1), !.age = 0, !.bits = p,
             !.level = IF raw = 2 THEN rx.level ELSE raw]

LEMMA GoesOnFields ==
  ASSUME SerialTyped, NEW c, NEW raw, NEW p
  PROVE  /\ GoesOn(c, raw, p).bit = p /\ GoesOn(c, raw, p).data = c \cap (1 .. p - 1)
         /\ GoesOn(c, raw, p).bits = p
         /\ raw = 2 => GoesOn(c, raw, p).level = rx.level
         /\ raw # 2 => GoesOn(c, raw, p).level = raw
<1> DEFINE d == c \cap (1 .. p - 1)
           lv == IF raw = 2 THEN rx.level ELSE raw
<1>1. GoesOn(c, raw, p) = [rx EXCEPT !.bit = p, !.data = d, !.age = 0, !.bits = p, !.level = lv]
  BY DEF GoesOn
<1>2. (raw = 2 => lv = rx.level) /\ (raw # 2 => lv = raw) /\ d = c \cap (1 .. p - 1)
  OBVIOUS
<1> HIDE DEF d, lv
<1> QED
  BY <1>1, <1>2 DEF SerialTyped, RxRecords

LEMMA WithinCharacter ==
  ASSUME SerialTyped, NEW c, NEW raw, NEW p, NEW late, AtEdge(c, raw, p, late)
  PROVE  /\ p <= dataBits =>
              /\ ~waveRxSerial(raw, p, late).done
              /\ waveRxSerial(raw, p, late).rx = GoesOn(c, raw, p)
         /\ p > dataBits =>
              /\ waveRxSerial(raw, p, late).done
              /\ waveRxSerial(raw, p, late).data = c
              /\ waveRxSerial(raw, p, late).rx = StartBit(raw, late)
<1> DEFINE t == fullBit * p + late - rx.late
           to == IF p <= dataBits THEN p ELSE dataBits + 1
<1>0. /\ c \in Characters /\ raw \in {0, 1, 2} /\ p \in 0 .. Frame /\ late \in {0, 1}
      /\ rx.invert = 0 /\ rx.bit >= 0 /\ rx.level \in {0, 1} /\ (raw # 2 => raw = 1 - rx.level)
      /\ rx.bit <= p /\ \A q \in rx.bit .. p - 1 : LevelOf(c, q) = rx.level
      /\ rx.bit > 0 => rx.data = c \cap (1 .. rx.bit - 1)
  BY DEF AtEdge
<1> USE <1>0
<1>1. rx.bit \in Nat /\ p \in Nat /\ dataBits \in Nat /\ rx.bit <= dataBits /\ c \subseteq 1 .. dataBits
  BY RxFields, Widths DEF SerialTyped, Characters
<1>2. t = fullBit * p + (late - rx.late) /\ late - rx.late \in -1 .. 1
  BY RxFields DEF SerialTyped, fullBit
<1>3. BitAt(t) = to /\ to \in Nat /\ rx.bit <= to /\ to - 1 <= p - 1 /\ (p <= dataBits => to = p)
      /\ (p > dataBits => to > dataBits) /\ (p <= dataBits <=> to <= dataBits)
  BY <1>1, <1>2, BitFound
<1>4. Seen(raw) = raw
  BY DEF Seen
<1>5. (IF raw = PI_TIMEOUT THEN rx.level ELSE IF raw = 0 THEN 1 ELSE 0) = rx.level
  BY DEF PI_TIMEOUT
<1>6. BitsFound(to, rx.level) = c \cap (1 .. to - 1)
  <2> DEFINE before == IF rx.bit = 0 THEN {} ELSE rx.data
  <2>1. before = c \cap (1 .. rx.bit - 1)
    BY <1>1
  <2>2. ASSUME NEW b \in 1 .. dataBits, rx.bit <= b, b < to
        PROVE  rx.level = 1 <=> b \in c
    <3>1. b \in rx.bit .. p - 1
      BY <1>1, <1>3, <2>2
    <3>2. LevelOf(c, b) = rx.level
      BY <3>1
    <3> QED
      BY <3>2 DEF LevelOf
  <2>3. BitsFound(to, rx.level) =
          before \cup {b \in 1 .. dataBits : rx.level = 1 /\ rx.bit <= b /\ b < to}
    BY DEF BitsFound
  <2> HIDE DEF before, to
  <2>4. ASSUME NEW b \in 1 .. dataBits
        PROVE  b \in BitsFound(to, rx.level) <=> b \in c \cap (1 .. to - 1)
    BY <1>1, <1>3, <2>1, <2>2, <2>3, <2>4
  <2>5. BitsFound(to, rx.level) \subseteq 1 .. dataBits
    BY <1>1, <2>1, <2>3
  <2> QED
    BY <1>1, <2>4, <2>5
<1>7. /\ to > dataBits =>
           waveRxSerial(raw, p, late) =
             [rx |-> StartBit(raw, late), done |-> TRUE, data |-> BitsFound(to, rx.level)]
      /\ to <= dataBits =>
           waveRxSerial(raw, p, late) =
             [rx |-> [rx EXCEPT !.bit = to, !.data = BitsFound(to, rx.level), !.age = 0,
                                !.bits = p, !.level = IF raw = PI_TIMEOUT THEN @ ELSE raw],
              done |-> FALSE, data |-> {}]
  <2>1. Found(p, late) = to /\ Data(raw, p, late) = BitsFound(to, rx.level)
    BY <1>3, <1>4, <1>5 DEF Found, Data
  <2>2. Ready(p, late)
    BY <1>1, <1>3, <2>1 DEF Ready
  <2>3. Goes(raw, p, late) = [rx EXCEPT !.bit = to, !.data = BitsFound(to, rx.level), !.age = 0,
                                      !.bits = p, !.level = IF raw = PI_TIMEOUT THEN @ ELSE raw]
    BY <1>4, <2>1, Zenon DEF Goes
  <2>4. /\ to > dataBits => waveRxSerial(raw, p, late) =
             [rx |-> StartBit(raw, late), done |-> TRUE, data |-> BitsFound(to, rx.level)]
        /\ to <= dataBits =>
             waveRxSerial(raw, p, late) = [rx |-> Goes(raw, p, late), done |-> FALSE, data |-> {}]
    BY <1>4, <2>1, <2>2, WaveCases
  <2> QED
    BY <2>3, <2>4
<1> HIDE DEF t, to
<1>8. CASE p <= dataBits
  <2>1. /\ waveRxSerial(raw, p, late) =
             [rx |-> [rx EXCEPT !.bit = p, !.data = c \cap (1 .. p - 1), !.age = 0,
                                !.bits = p, !.level = IF raw = PI_TIMEOUT THEN @ ELSE raw],
              done |-> FALSE, data |-> {}]
        /\ ~(p > dataBits)
    BY <1>1, <1>3, <1>6, <1>7, <1>8
  <2> QED
    BY <2>1 DEF PI_TIMEOUT, GoesOn
<1>9. CASE p > dataBits
  <2>2. to = dataBits + 1
    BY <1>1, <1>9 DEF to
  <2>3. c \cap (1 .. to - 1) = c
    <3>1. to - 1 = dataBits
      BY <1>1, <2>2
    <3> QED
      BY <1>1, <3>1
  <2>4. /\ waveRxSerial(raw, p, late) = [rx |-> StartBit(raw, late), done |-> TRUE, data |-> c]
        /\ ~(p <= dataBits)
    <3>1. to > dataBits /\ ~(p <= dataBits)
      BY <1>1, <1>3, <1>9
    <3> QED
      BY <1>6, <1>7, <2>3, <3>1
  <2> QED
    BY <2>4
<1> QED
  BY <1>1, <1>8, <1>9

(* What entering the ring does to it, with or without room.                *)
LEMMA NextPlace ==
  ASSUME NEW b \in Nat \ {0}, NEW w \in 0..(b - 1)
  PROVE  (w + 1) % b = IF w + 1 = b THEN 0 ELSE w + 1
<1>1. CASE w + 1 = b
  <2>1. b % b = 0
    OBVIOUS
  <2> QED
    BY <1>1, <2>1
<1>2. CASE w + 1 # b
  <2>1. w + 1 \in 0..(b - 1)
    BY <1>2
  <2>2. \A n \in 0..(b - 1) : n % b = n
    OBVIOUS
  <2> QED
    BY <1>2, <2>1, <2>2
<1> QED
  BY <1>1, <1>2

LEMMA RingTakes ==
  ASSUME SerialTyped, RingKept, NEW out, out.done \in BOOLEAN, out.data \in Characters, Take(out)
  PROVE  /\ rx' = out.rx /\ ring' \in RingRecords /\ RingKept'
         /\ out.done => wrong' = (wrong \/ sent = <<>> \/ out.data # Head(sent))
         /\ ~out.done => wrong' = wrong
<1>1. /\ rx' = out.rx
      /\ out.done => wrong' = (wrong \/ sent = <<>> \/ out.data # Head(sent))
      /\ ~out.done => wrong' = wrong
  BY DEF Take
<1>2. CASE ~out.done
  <2>1. UNCHANGED <<ring, stored, lapped>>
    BY <1>2 DEF Take
  <2> QED
    BY <1>1, <2>1 DEF SerialTyped, RingKept, Held, Place
<1>3. CASE out.done
  <2> DEFINE next == (ring.writePos + 1) % bufSize
             room == next # ring.readPos
  <2>1. /\ ring' = [ring EXCEPT !.buf[ring.writePos] = out.data,
                                !.writePos = IF room THEN next ELSE @]
        /\ stored' = IF room THEN Append(stored, out.data) ELSE stored
        /\ lapped' = (lapped \/ ring.readPos = bufSize)
    BY <1>3 DEF Take
  <2>2. /\ ring.writePos \in Nat /\ ring.writePos < bufSize /\ ring.readPos \in Nat
        /\ ring.readPos <= bufSize /\ ring.buf \in [0 .. bufSize - 1 -> Characters]
        /\ bufSize \in Nat /\ bufSize > 1
    BY Widths DEF SerialTyped, RingRecords
  <2>3. next = IF ring.writePos + 1 = bufSize THEN 0 ELSE ring.writePos + 1
    <3>1. bufSize \in Nat \ {0} /\ ring.writePos \in 0..(bufSize - 1)
      BY <2>2
    <3> QED
      BY <3>1, NextPlace
  <2> HIDE DEF next
  <2> DEFINE buf == [ring.buf EXCEPT ![ring.writePos] = out.data]
             wp == IF room THEN next ELSE ring.writePos
  <2>4. ring' = [ring EXCEPT !.buf = buf, !.writePos = wp]
    BY <2>1
  <2>5. /\ buf \in [0 .. bufSize - 1 -> Characters] /\ buf[ring.writePos] = out.data
        /\ \A i \in 0 .. bufSize - 1 : i # ring.writePos => buf[i] = ring.buf[i]
        /\ wp \in 0 .. bufSize - 1
    BY <2>2, <2>3
  <2> HIDE DEF buf, wp
  <2>6. /\ ring' \in RingRecords /\ ring'.buf = buf /\ ring'.writePos = wp
        /\ ring'.readPos = ring.readPos
    BY <2>4, <2>5 DEF SerialTyped, RingRecords
  <2>7. RingKept'
    <3> SUFFICES ASSUME ~lapped'
                 PROVE  /\ stored' \in Seq(Characters) /\ Len(stored') = Held'
                        /\ \A k \in 1 .. Len(stored') : stored'[k] = ring'.buf[Place(k)']
      BY DEF RingKept, Place
    <3>0. ~lapped /\ ring.readPos # bufSize
      BY <2>1, Zenon
    <3>1. /\ stored \in Seq(Characters) /\ Len(stored) = Held
          /\ \A k \in 1 .. Len(stored) : stored[k] = ring.buf[Place(k)]
      BY <3>0 DEF RingKept
    <3>2. Len(stored) \in Nat
      BY <3>1, LenProperties
    <3> DEFINE w == ring.writePos
               rp == ring.readPos
               h == Len(stored)
    <3>a. /\ w \in Nat /\ w < bufSize /\ rp \in Nat /\ rp < bufSize /\ h \in Nat /\ bufSize \in Nat
          /\ h = IF rp <= w THEN w - rp ELSE bufSize - rp + w
      BY <2>2, <3>0, <3>1, <3>2 DEF Held
    <3>b. \A k \in Nat : Place(k) = IF rp + k - 1 < bufSize THEN rp + k - 1 ELSE rp + k - 1 - bufSize
      BY DEF Place
    <3>c. \A k \in Nat : Place(k)' = Place(k)
      BY <2>6 DEF Place
    <3> HIDE DEF w, rp, h
    <3>d. \A k \in 1 .. h : k \in Nat /\ Place(k) \in 0 .. bufSize - 1 /\ Place(k) # w
      BY <3>a, <3>b
    <3>3. \A k \in 1 .. Len(stored) :
            Place(k) \in 0 .. bufSize - 1 /\ Place(k) # ring.writePos /\ Place(k)' = Place(k)
      BY <3>c, <3>d DEF h, w
    <3>4. \A k \in 1 .. Len(stored) : ring'.buf[Place(k)'] = stored[k]
      BY <2>5, <2>6, <3>1, <3>3
    <3>5. CASE ~room
      <4>1. stored' = stored /\ Held' = Held
        BY <2>1, <2>6, <3>5 DEF Held, wp
      <4> QED
        BY <3>1, <3>4, <4>1
    <3>6. CASE room
      <4>1. /\ stored' \in Seq(Characters) /\ Len(stored') = Len(stored) + 1
            /\ \A k \in 1 .. Len(stored) : stored'[k] = stored[k]
            /\ stored'[Len(stored) + 1] = out.data
        BY <2>1, <3>1, <3>6, AppendProperties
      <4>2. Held' = Held + 1
        <5>1. /\ Held' = IF rp <= next THEN next - rp ELSE bufSize - rp + next
              /\ next = IF w + 1 = bufSize THEN 0 ELSE w + 1
              /\ next # rp /\ Held = h
          BY <2>3, <2>6, <3>1, <3>6 DEF Held, wp, rp, w, h
        <5> QED
          BY <3>a, <5>1
      <4>3. \A k \in Nat : k = Len(stored) + 1 => Place(k)' = ring.writePos
        <5>1. \A k \in Nat : k = h + 1 => Place(k) = w
          BY <3>a, <3>b
        <5> QED
          BY <3>c, <5>1 DEF h, w
      <4>4. \A k \in Nat : k = Len(stored) + 1 => ring'.buf[Place(k)'] = out.data
        BY <2>5, <2>6, <4>3
      <4>5. \A k \in 1 .. Len(stored) + 1 : stored'[k] = ring'.buf[Place(k)']
        <5> SUFFICES ASSUME NEW k \in 1 .. Len(stored) + 1 PROVE stored'[k] = ring'.buf[Place(k)']
          OBVIOUS
        <5>1. k \in 1 .. Len(stored) \/ (k \in Nat /\ k = Len(stored) + 1)
          BY <3>2
        <5>2. CASE k \in 1 .. Len(stored)
          BY <3>4, <4>1, <5>2
        <5>3. CASE k \in Nat /\ k = Len(stored) + 1
          BY <4>1, <4>4, <5>3
        <5> QED
          BY <5>1, <5>2, <5>3
      <4> QED
        BY <3>1, <4>1, <4>2, <4>5
    <3> QED
      BY <3>5, <3>6
  <2> QED
    BY <1>1, <2>6, <2>7
<1> QED
  BY <1>2, <1>3

LEMMA OneSent ==
  ASSUME NEW c
  PROVE  /\ <<c>> # <<>> /\ Head(<<c>>) = c /\ Tail(<<c>>) = <<>> /\ Append(<<>>, c) = <<c>>
         /\ \A d : <<c>> = <<d>> => c = d
OBVIOUS

LEMMA PassedIs ==
  ASSUME SerialTyped
  PROVE  /\ Passed \in 0 .. Frame /\ Passed \in Nat
         /\ rx.bit >= 0 => rx.bits <= Passed /\ Passed <= rx.bits + 1
         /\ rx.bit >= 0 /\ rx.bits <= dataBits + 1 => Passed = rx.bits + 1
BY RxFields, Widths DEF SerialTyped, Passed

LEMMA SerialBegins == SerialInit => SerialInv
<1> SUFFICES ASSUME SerialInit PROVE SerialInv
  OBVIOUS
<1>1. /\ rx \in RxRecords /\ rx.bit = -1
  BY Widths DEF SerialInit, RxRecords, Characters
<1>2. /\ ring \in RingRecords /\ ring.readPos = 0 /\ ring.writePos = 0
  BY Widths DEF SerialInit, RingRecords, Characters
<1>3. line \in LineRecords /\ line.rest = <<>> /\ line.level = 1 /\ Len(line.rest) = 0
  BY Widths DEF SerialInit, LineRecords
<1>4. InTune
  BY <1>1, <1>3 DEF SerialInit, InTune, Quiet
<1>5. RingKept
  BY <1>2 DEF SerialInit, RingKept, Held
<1> QED
  BY <1>1, <1>2, <1>3, <1>4, <1>5, Widths DEF SerialInv, SerialTyped

LEMMA SendStartKeeps == SerialInv /\ SendStart => SerialInv'
<1> SUFFICES ASSUME SerialInv, SendStart PROVE SerialInv'
  OBVIOUS
<1>t. SerialTyped /\ RingKept /\ InTune
  BY DEF SerialInv
<1>1. PICK c \in Characters, late \in {0, 1} :
        /\ line' = [level |-> 0, rest |-> Append([b \in 1 .. dataBits |-> IF b \in c THEN 1 ELSE 0], 1),
                    count |-> line.count + 1]
        /\ Take(waveRxSerial(Raw(0), Passed, late))
        /\ sent' = Append(Pending(waveRxSerial(Raw(0), Passed, late)), c)
  BY DEF SendStart
<1>2. line.rest = <<>> /\ line.level = 1 /\ line.count < MaxCharacters
  BY DEF SendStart
<1> DEFINE out == waveRxSerial(Raw(0), Passed, late)
<1>3. /\ out.rx \in RxRecords /\ out.rx.invert = rx.invert /\ out.done \in BOOLEAN
      /\ out.data \in Characters
  <2>1. Raw(0) \in {0, 1, 2}
    BY DEF Raw
  <2> QED
    BY <1>t, <2>1, PassedIs, OutTyped
<1>4. /\ rx' = out.rx /\ ring' \in RingRecords /\ RingKept'
      /\ out.done => wrong' = (wrong \/ sent = <<>> \/ out.data # Head(sent))
      /\ ~out.done => wrong' = wrong
  BY <1>t, <1>1, <1>3, RingTakes
<1>5. /\ line' \in LineRecords /\ line'.level = 0 /\ Len(line'.rest) = dataBits + 1
      /\ \A k \in 1 .. dataBits + 1 : line'.rest[k] = LevelOf(c, k)
  <2> DEFINE bits == [b \in 1 .. dataBits |-> IF b \in c THEN 1 ELSE 0]
             rest == Append(bits, 1)
  <2>1. bits \in Seq({0, 1}) /\ Len(bits) = dataBits
    BY Widths
  <2>2. /\ rest \in Seq({0, 1}) /\ Len(rest) = dataBits + 1 /\ rest[dataBits + 1] = 1
        /\ \A k \in 1 .. dataBits : rest[k] = bits[k]
    <3>1. bits \in Seq({0, 1}) /\ 1 \in {0, 1} /\ Len(bits) = dataBits /\ dataBits \in Nat
      BY <2>1, Widths
    <3> HIDE DEF bits
    <3> QED
      BY <3>1, AppendProperties
  <2>3. line.count + 1 \in 0 .. MaxCharacters
    BY <1>t, <1>2, Widths DEF SerialTyped, LineRecords
  <2>4. \A k \in 1 .. dataBits + 1 : rest[k] = LevelOf(c, k)
    BY <2>2, Widths DEF LevelOf
  <2>5. line' = [level |-> 0, rest |-> rest, count |-> line.count + 1]
    BY <1>1
  <2> HIDE DEF rest, bits
  <2> QED
    BY <2>2, <2>3, <2>4, <2>5 DEF LineRecords
<1>6. SerialTyped'
  BY <1>3, <1>4, <1>5, Widths DEF SerialTyped
<1>7. InTune'
  <2> SUFFICES ASSUME rx'.invert = 0
               PROVE  ~wrong' /\ (IF rx'.bit < 0 THEN Quiet' ELSE Receiving')
    BY DEF InTune
  <2>1. rx.invert = 0 /\ ~wrong /\ Raw(0) = 0
    BY <1>t, <1>3, <1>4 DEF InTune, Raw
  <2>2. rx' = StartBit(0, late) /\ ~wrong' /\ sent' = <<c>>
    <3>1. CASE rx.bit < 0
      <4>1. sent = <<>>
        BY <1>t, <2>1, <3>1 DEF InTune, Quiet
      <4>2. out = [rx |-> StartBit(0, late), done |-> FALSE, data |-> {}]
        <5>1. Seen(0) = 0
          BY <2>1 DEF Seen
        <5>2. Ready(Passed, late)
          BY <1>t, <3>1, RxFields, Widths DEF Ready, SerialTyped
        <5> QED
          BY <2>1, <3>1, <5>1, <5>2, WaveCases
      <4>3. ~out.done /\ out.rx = StartBit(0, late)
        BY <4>2
      <4> HIDE DEF out
      <4>4. sent' = Append(<<>>, c)
        BY <1>1, <4>1, <4>3 DEF Pending, out
      <4> QED
        BY <1>4, <2>1, <4>3, <4>4, OneSent
    <3>2. CASE ~(rx.bit < 0)
      <4>1. PICK d \in Characters : sent = <<d>> /\ Heard(d) /\ ToCome(d)
        BY <1>t, <2>1, <3>2 DEF InTune, Receiving
      <4>2. rx.bit \in Nat /\ rx.bits \in Nat /\ dataBits \in Nat /\ rx.bit >= 0
        BY <1>t, <3>2, RxFields, Widths DEF SerialTyped
      <4>3. rx.bits > dataBits
        <5>1. Len(line.rest) = 0
          BY <1>2
        <5> QED
          BY <4>1, <4>2, <5>1 DEF ToCome
      <4>4. Passed \in 0 .. Frame /\ Passed > dataBits /\ rx.bit <= Passed /\ Passed <= rx.bits + 1
        BY <1>t, <4>1, <4>2, <4>3, PassedIs DEF Heard
      <4>5. rx.level = 1 /\ \A q \in rx.bit .. Passed - 1 : LevelOf(d, q) = rx.level
        BY <1>2, <4>1, <4>2, <4>4 DEF Heard
      <4>6. out.done /\ out.data = d /\ out.rx = StartBit(0, late)
        <5>1. /\ rx.level \in {0, 1} /\ 0 \in {0, 1, 2} /\ 0 # 2 /\ 0 = 1 - rx.level
              /\ rx.bit > 0 => rx.data = d \cap (1 .. rx.bit - 1)
          BY <4>1, <4>5 DEF Heard
        <5>2. AtEdge(d, 0, Passed, late)
          BY <2>1, <4>2, <4>4, <4>5, <5>1 DEF AtEdge
        <5>3. /\ waveRxSerial(0, Passed, late).done /\ waveRxSerial(0, Passed, late).data = d
              /\ waveRxSerial(0, Passed, late).rx = StartBit(0, late)
          BY <1>t, <4>4, <5>2, WithinCharacter
        <5> QED
          BY <2>1, <5>3
      <4>7. sent' = Append(Tail(sent), c)
        BY <1>1, <4>1, <4>6, OneSent DEF Pending
      <4> HIDE DEF out
      <4> QED
        BY <1>4, <2>1, <4>1, <4>6, <4>7, OneSent
    <3> QED
      BY <3>1, <3>2
  <2>3. rx'.bit = 0 /\ rx'.bits = 0 /\ rx'.level = 0
    BY <1>t, <2>2, StartTyped DEF PI_TIMEOUT
  <2>4. Heard(c)'
    BY <1>5, <2>3 DEF Heard, LevelOf
  <2>5. ToCome(c)'
    BY <1>5, <2>3, Widths DEF ToCome, LevelOf
  <2> QED
    BY <2>2, <2>3, <2>4, <2>5 DEF Receiving
<1> QED
  BY <1>4, <1>6, <1>7 DEF SerialInv

LEMMA SendBitKeeps == SerialInv /\ SendBit => SerialInv'
<1> SUFFICES ASSUME SerialInv, SendBit PROVE SerialInv'
  OBVIOUS
<1>t. SerialTyped /\ RingKept /\ InTune
  BY DEF SerialInv
<1>1. line.rest # <<>> /\ line' = [line EXCEPT !.level = Head(line.rest), !.rest = Tail(@)]
  BY DEF SendBit
<1>2. /\ line.rest \in Seq({0, 1}) /\ Len(line.rest) \in Nat /\ Len(line.rest) > 0
      /\ Len(line.rest) <= dataBits + 1 /\ dataBits \in Nat
  BY <1>t, <1>1, EmptySeq, LenProperties, Widths DEF SerialTyped, LineRecords
<1>3. /\ Head(line.rest) = line.rest[1] /\ Head(line.rest) \in {0, 1}
      /\ Tail(line.rest) \in Seq({0, 1}) /\ Len(Tail(line.rest)) = Len(line.rest) - 1
      /\ \A k \in 1 .. Len(line.rest) - 1 : Tail(line.rest)[k] = line.rest[k + 1]
  <2>1. Head(line.rest) = line.rest[1]
    BY <1>1, <1>2
  <2> QED
    BY <1>1, <1>2, <2>1, HeadTailProperties
<1> DEFINE new == Head(line.rest)
<1>4. /\ line' \in LineRecords /\ line'.level = new /\ line'.rest = Tail(line.rest)
  BY <1>t, <1>1, <1>3 DEF SerialTyped, LineRecords
<1> HIDE DEF new
<1>n. ASSUME NEW c, ToCome(c), rx.bits \in Nat, rx.bits <= dataBits, rx'.bits = rx.bits + 1
      PROVE  ToCome(c)'
  <2>1. /\ Len(line.rest) = dataBits + 1 - rx.bits
        /\ \A k \in 1 .. Len(line.rest) : line.rest[k] = LevelOf(c, rx.bits + k)
    BY <1>n DEF ToCome
  <2>2. Len(line'.rest) = dataBits - rx.bits /\ Len(line'.rest) = Len(line.rest) - 1
    BY <1>2, <1>3, <1>4, <1>n, <2>1
  <2>3. Len(line'.rest) = IF rx'.bits <= dataBits THEN dataBits + 1 - rx'.bits ELSE 0
    BY <1>2, <1>n, <2>2
  <2>4. ASSUME NEW k \in 1 .. Len(line'.rest)
        PROVE  line'.rest[k] = LevelOf(c, rx'.bits + k)
    <3>1. k \in Nat /\ k + 1 \in 1 .. Len(line.rest) /\ k \in 1 .. Len(line.rest) - 1
      BY <1>2, <2>2
    <3>2. line'.rest[k] = line.rest[k + 1]
      BY <1>3, <1>4, <3>1
    <3>3. rx.bits + (k + 1) = rx'.bits + k
      BY <1>n, <3>1
    <3> QED
      BY <2>1, <3>1, <3>2, <3>3
  <2> QED
    BY <2>3, <2>4 DEF ToCome
(* what is known of the character on the way                               *)
<1>5. ASSUME rx.invert = 0
      PROVE  /\ rx.bit >= 0 /\ rx.bit \in Nat /\ rx.bits \in Nat /\ Passed = rx.bits + 1
             /\ rx.bits <= dataBits /\ ~wrong
             /\ \E c \in Characters :
                  /\ sent = <<c>> /\ Heard(c) /\ ToCome(c)
                  /\ new = LevelOf(c, rx.bits + 1)
  <2>1. rx.bit \in Int /\ rx.bits \in Nat
    BY <1>t, RxFields DEF SerialTyped
  <2>2. rx.bit >= 0 /\ Receiving /\ ~wrong
    BY <1>t, <1>1, <1>5, <2>1 DEF InTune, Quiet
  <2>3. PICK c \in Characters : sent = <<c>> /\ Heard(c) /\ ToCome(c)
    BY <2>2 DEF Receiving
  <2>4. rx.bits <= dataBits
    BY <1>2, <2>1, <2>3 DEF ToCome
  <2>5. new = LevelOf(c, rx.bits + 1)
    BY <1>2, <1>3, <2>3 DEF ToCome, new
  <2>6. Passed = rx.bits + 1
    BY <1>2, <1>t, <2>1, <2>2, <2>4, PassedIs
  <2> QED
    BY <2>1, <2>2, <2>3, <2>4, <2>5, <2>6
<1>6. CASE new = line.level
  <2>1. /\ rx' = [rx EXCEPT !.bits = Passed, !.age = IF rx.wdog /\ @ < rxTimeout THEN @ + 1 ELSE @]
        /\ UNCHANGED <<ring, sent, stored, wrong, lapped>>
    BY <1>6 DEF SendBit, new
  <2>2. /\ rx' \in RxRecords /\ rx'.bits = Passed /\ rx'.bit = rx.bit /\ rx'.data = rx.data
        /\ rx'.level = rx.level /\ rx'.invert = rx.invert
    <3> DEFINE age == IF rx.wdog /\ rx.age < rxTimeout THEN rx.age + 1 ELSE rx.age
    <3>1. age \in 0 .. rxTimeout
      BY <1>t, RxFields, Widths DEF SerialTyped
    <3>2. rx' = [rx EXCEPT !.bits = Passed, !.age = age]
      BY <2>1
    <3> HIDE DEF age
    <3> QED
      BY <1>t, <3>1, <3>2, PassedIs DEF SerialTyped, RxRecords
  <2>3. SerialTyped'
    BY <1>t, <1>2, <1>3, <1>4, <2>1, <2>2 DEF SerialTyped
  <2>4. RingKept'
    BY <1>t, <2>1 DEF RingKept, Held, Place
  <2>5. ASSUME rx'.invert = 0 PROVE ~wrong' /\ ~(rx'.bit < 0) /\ Receiving'
    <3>1. PICK c \in Characters : /\ sent = <<c>> /\ Heard(c) /\ ToCome(c)
                                  /\ new = LevelOf(c, rx.bits + 1)
      BY <1>5, <2>2, <2>5
    <3>2. /\ rx.bit \in Nat /\ rx.bits \in Nat /\ rx'.bits = rx.bits + 1 /\ rx.bits <= dataBits
      BY <1>5, <2>2, <2>5
    <3>3. Heard(c)'
      BY <1>4, <1>6, <2>2, <3>1, <3>2 DEF Heard
    <3>4. ToCome(c)'
      BY <1>n, <3>1, <3>2
    <3> QED
      BY <1>5, <2>1, <2>2, <2>5, <3>1, <3>3, <3>4 DEF Receiving
  <2> QED
    BY <2>3, <2>4, <2>5 DEF SerialInv, InTune
<1>7. CASE new # line.level
  <2>1. PICK late \in {0, 1} : /\ Take(waveRxSerial(Raw(new), Passed, late))
                               /\ sent' = Pending(waveRxSerial(Raw(new), Passed, late))
    BY <1>7 DEF SendBit, new
  <2> DEFINE out == waveRxSerial(Raw(new), Passed, late)
  <2>2. /\ out.rx \in RxRecords /\ out.rx.invert = rx.invert /\ out.done \in BOOLEAN
        /\ out.data \in Characters
    <3>1. Raw(new) \in {0, 1, 2}
      BY <1>3 DEF Raw, new
    <3> QED
      BY <1>t, <3>1, PassedIs, OutTyped
  <2>3. /\ rx' = out.rx /\ ring' \in RingRecords /\ RingKept'
        /\ out.done => wrong' = (wrong \/ sent = <<>> \/ out.data # Head(sent))
        /\ ~out.done => wrong' = wrong
    BY <1>t, <2>1, <2>2, RingTakes
  <2>4. SerialTyped'
    BY <1>2, <1>3, <1>4, <2>2, <2>3 DEF SerialTyped
  <2>5. ASSUME rx'.invert = 0
        PROVE  ~wrong' /\ (IF rx'.bit < 0 THEN Quiet' ELSE Receiving')
    <3>0. rx.invert = 0 /\ Raw(new) = new
      BY <2>2, <2>3, <2>5 DEF Raw
    <3>1. PICK c \in Characters : /\ sent = <<c>> /\ Heard(c) /\ ToCome(c)
                                  /\ new = LevelOf(c, rx.bits + 1)
      BY <1>5, <3>0
    <3>2. /\ rx.bit >= 0 /\ rx.bit \in Nat /\ rx.bits \in Nat /\ Passed = rx.bits + 1
          /\ rx.bits <= dataBits /\ ~wrong
      BY <1>5, <3>0
    <3>3. /\ Passed \in 0 .. Frame /\ rx.bit <= Passed /\ new \in {0, 1, 2} /\ new # 2
          /\ rx.level \in {0, 1} /\ new = 1 - rx.level
      BY <1>t, <1>3, <1>7, <3>1, <3>2, PassedIs DEF Heard, new, SerialTyped, LineRecords
    <3>4. \A q \in rx.bit .. Passed - 1 : LevelOf(c, q) = rx.level
      BY <3>1, <3>2 DEF Heard
    <3>e. AtEdge(c, new, Passed, late)
      BY <3>0, <3>1, <3>2, <3>3, <3>4 DEF Heard, AtEdge
    <3>5. CASE Passed <= dataBits
      <4>1. /\ ~out.done
            /\ out.rx = GoesOn(c, new, Passed)
        BY <1>t, <3>0, <3>e, <3>5, WithinCharacter
      <4>2. /\ rx'.bit = Passed /\ rx'.data = c \cap (1 .. Passed - 1) /\ rx'.bits = Passed
            /\ rx'.level = new
        BY <1>t, <2>3, <3>3, <4>1, GoesOnFields
      <4>3. sent' = <<c>> /\ ~wrong'
        BY <2>1, <2>3, <3>1, <3>2, <4>1 DEF Pending
      <4>4. Heard(c)'
        BY <1>4, <3>1, <3>2, <4>2 DEF Heard
      <4>5. ToCome(c)'
        BY <1>n, <3>1, <3>2, <4>2
      <4> QED
        BY <3>2, <4>2, <4>3, <4>4, <4>5 DEF Receiving
    <3>6. CASE Passed > dataBits
      <4>1. out.done /\ out.data = c /\ out.rx = StartBit(new, late)
        BY <1>t, <3>0, <3>e, <3>6, WithinCharacter
      <4>2. rx.bits = dataBits /\ new = 1
        BY <1>2, <3>1, <3>2, <3>6 DEF LevelOf
      <4>3. rx'.bit = -1
        BY <1>t, <2>3, <4>1, <4>2, StartTyped
      <4>4. sent' = <<>> /\ ~wrong'
        BY <2>1, <2>3, <3>1, <3>2, <4>1, OneSent DEF Pending
      <4>5. line'.rest = <<>>
        <5>1. Len(line.rest) = 1
          BY <1>2, <3>1, <4>2 DEF ToCome
        <5>2. line'.rest \in Seq({0, 1}) /\ Len(line'.rest) = 0
          BY <1>3, <1>4, <5>1
        <5> QED
          BY <5>2, EmptySeq
      <4>6. rx'.bit < 0 /\ line'.level = 1
        BY <1>4, <4>2, <4>3
      <4> QED
        BY <4>4, <4>5, <4>6 DEF Quiet
    <3> QED
      BY <1>2, <3>2, <3>5, <3>6
  <2> QED
    BY <2>3, <2>4, <2>5 DEF SerialInv, InTune
<1> QED
  BY <1>6, <1>7

LEMMA RestKeeps == SerialInv /\ Rest => SerialInv'
<1> SUFFICES ASSUME SerialInv, Rest PROVE SerialInv'
  OBVIOUS
<1>t. SerialTyped /\ RingKept /\ InTune
  BY DEF SerialInv
<1>1. /\ line.rest = <<>> /\ UNCHANGED <<ring, line, sent, stored, wrong, lapped>>
      /\ rx' = [rx EXCEPT !.bits = Passed, !.age = IF @ < rxTimeout THEN @ + 1 ELSE @]
  BY DEF Rest
<1>2. /\ rx' \in RxRecords /\ rx'.bits = Passed /\ rx'.bit = rx.bit /\ rx'.data = rx.data
      /\ rx'.level = rx.level /\ rx'.invert = rx.invert
  <2> DEFINE age == IF rx.age < rxTimeout THEN rx.age + 1 ELSE rx.age
  <2>1. age \in 0 .. rxTimeout
    BY <1>t, RxFields, Widths DEF SerialTyped
  <2>2. rx' = [rx EXCEPT !.bits = Passed, !.age = age]
    BY <1>1
  <2> HIDE DEF age
  <2> QED
    BY <1>t, <2>1, <2>2, PassedIs DEF SerialTyped, RxRecords
<1>3. SerialTyped'
  BY <1>t, <1>1, <1>2 DEF SerialTyped
<1>4. RingKept'
  BY <1>t, <1>1 DEF RingKept, Held, Place
<1>5. InTune'
  <2> SUFFICES ASSUME rx'.invert = 0
               PROVE  ~wrong' /\ (IF rx'.bit < 0 THEN Quiet' ELSE Receiving')
    BY DEF InTune
  <2>1. CASE rx.bit < 0
    BY <1>t, <1>1, <1>2, <2>1 DEF InTune, Quiet
  <2>2. CASE ~(rx.bit < 0)
    <3>1. PICK c \in Characters : sent = <<c>> /\ Heard(c) /\ ToCome(c)
      BY <1>t, <1>2, <2>2 DEF InTune, Receiving
    <3>2. rx.bit \in Nat /\ rx.bits \in Nat /\ dataBits \in Nat
      BY <1>t, <2>2, RxFields, Widths DEF SerialTyped
    <3>3. Len(line.rest) = 0
      BY <1>1
    <3>4. rx.bits > dataBits
      BY <3>1, <3>2, <3>3 DEF ToCome
    <3>5. rx.bits <= Passed /\ Passed <= rx.bits + 1 /\ Passed \in Nat
      BY <1>t, <3>2, PassedIs
    <3>6. line.level = 1
      BY <3>1, <3>2, <3>4 DEF Heard, LevelOf
    <3>7. Heard(c)'
      BY <1>1, <1>2, <3>1, <3>2, <3>4, <3>5, <3>6 DEF Heard, LevelOf
    <3>8. ToCome(c)'
      BY <1>1, <1>2, <3>2, <3>3, <3>4, <3>5 DEF ToCome
    <3> QED
      BY <1>t, <1>1, <1>2, <2>2, <3>1, <3>7, <3>8 DEF Receiving, InTune
  <2> QED
    BY <2>1, <2>2
<1> QED
  BY <1>3, <1>4, <1>5 DEF SerialInv

LEMMA TimeOutKeeps == SerialInv /\ TimeOut => SerialInv'
<1> SUFFICES ASSUME SerialInv, TimeOut PROVE SerialInv'
  OBVIOUS
<1>t. SerialTyped /\ RingKept /\ InTune
  BY DEF SerialInv
<1> DEFINE out == waveRxSerial(2, rx.bits, rx.late)
<1>1. line' = line /\ Take(out) /\ sent' = Pending(out)
  BY DEF TimeOut, PI_TIMEOUT
<1>f. rx.bits \in 0 .. Frame /\ rx.late \in {0, 1} /\ rx.bits \in Nat /\ rx.bit \in Int /\ dataBits \in Nat
  BY <1>t, RxFields, Widths DEF SerialTyped
<1>2. /\ out.rx \in RxRecords /\ out.rx.invert = rx.invert /\ out.done \in BOOLEAN
      /\ out.data \in Characters
  BY <1>t, <1>f, OutTyped
<1>3. /\ rx' = out.rx /\ ring' \in RingRecords /\ RingKept'
      /\ out.done => wrong' = (wrong \/ sent = <<>> \/ out.data # Head(sent))
      /\ ~out.done => wrong' = wrong
  BY <1>t, <1>1, <1>2, RingTakes
<1>4. SerialTyped'
  BY <1>t, <1>1, <1>2, <1>3 DEF SerialTyped
<1>5. InTune'
  <2> SUFFICES ASSUME rx'.invert = 0
               PROVE  ~wrong' /\ (IF rx'.bit < 0 THEN Quiet' ELSE Receiving')
    BY DEF InTune
  <2>0. rx.invert = 0 /\ ~wrong
    BY <1>t, <1>2, <1>3 DEF InTune
  <2>1. CASE rx.bit < 0
    <3>1. out = [rx |-> Still, done |-> FALSE, data |-> {}]
      <4>1. Seen(2) # 0
        BY <2>0 DEF Seen
      <4>2. Ready(rx.bits, rx.late)
        BY <1>f, <2>1 DEF Ready
      <4> QED
        BY <2>1, <4>1, <4>2, WaveCases
    <3>2. ~out.done /\ out.rx.bit = rx.bit
      <4>1. Still.bit = rx.bit
        BY <1>t DEF SerialTyped, RxRecords, Still
      <4> QED
        BY <3>1, <4>1
    <3> HIDE DEF out
    <3>3. sent' = sent /\ rx'.bit < 0 /\ ~wrong'
      BY <1>1, <1>3, <2>0, <2>1, <3>2 DEF Pending
    <3> QED
      BY <1>t, <1>1, <2>0, <2>1, <3>3 DEF InTune, Quiet
  <2>2. CASE ~(rx.bit < 0)
    <3>1. PICK c \in Characters : sent = <<c>> /\ Heard(c) /\ ToCome(c)
      BY <1>t, <2>0, <2>2 DEF InTune, Receiving
    <3>2. rx.bit >= 0 /\ rx.bit <= rx.bits /\ rx.level \in {0, 1}
      BY <1>t, <1>f, <2>2, <3>1 DEF Heard, SerialTyped, LineRecords
    <3>3. \A q \in rx.bit .. rx.bits - 1 : LevelOf(c, q) = rx.level
      BY <1>f, <3>1 DEF Heard
    <3>e. AtEdge(c, 2, rx.bits, rx.late)
      <4>1. 2 \in {0, 1, 2} /\ ~(2 # 2) /\ (rx.bit > 0 => rx.data = c \cap (1 .. rx.bit - 1))
        BY <3>1 DEF Heard
      <4> QED
        BY <1>f, <2>0, <3>1, <3>2, <3>3, <4>1 DEF AtEdge
    <3>4. CASE rx.bits <= dataBits
      <4>1. /\ ~out.done
            /\ out.rx = GoesOn(c, 2, rx.bits)
        BY <1>t, <3>e, <3>4, WithinCharacter
      <4>2. /\ rx'.bit = rx.bits /\ rx'.data = c \cap (1 .. rx.bits - 1) /\ rx'.bits = rx.bits
            /\ rx'.level = rx.level
        BY <1>t, <1>3, <4>1, GoesOnFields
      <4>3. sent' = <<c>> /\ ~wrong'
        BY <1>1, <1>3, <2>0, <3>1, <4>1 DEF Pending
      <4>4. Heard(c)'
        BY <1>1, <1>f, <3>1, <3>2, <4>2 DEF Heard
      <4>5. ToCome(c)'
        BY <1>1, <3>1, <4>2 DEF ToCome
      <4> QED
        BY <1>f, <4>2, <4>3, <4>4, <4>5 DEF Receiving
    <3>5. CASE rx.bits > dataBits
      <4>1. out.done /\ out.data = c /\ out.rx = StartBit(2, rx.late)
        BY <1>t, <3>e, <3>5, WithinCharacter
      <4>2. rx'.bit = -1
        BY <1>t, <1>f, <1>3, <4>1, StartTyped
      <4>3. sent' = <<>> /\ ~wrong'
        BY <1>1, <1>3, <2>0, <3>1, <4>1, OneSent DEF Pending
      <4>4. line.level = 1
        BY <1>f, <3>1, <3>2, <3>5 DEF Heard, LevelOf
      <4>5. line.rest = <<>>
        <5>1. Len(line.rest) = 0
          BY <1>f, <3>1, <3>5 DEF ToCome
        <5> QED
          BY <1>t, <5>1, EmptySeq DEF SerialTyped, LineRecords
      <4> QED
        BY <1>1, <4>2, <4>3, <4>4, <4>5 DEF Quiet
    <3> QED
      BY <1>f, <3>4, <3>5
  <2> QED
    BY <2>1, <2>2
<1> QED
  BY <1>3, <1>4, <1>5 DEF SerialInv

LEMMA ReadKeeps == SerialInv /\ gpioSerialRead => SerialInv'
<1> SUFFICES ASSUME SerialInv, gpioSerialRead PROVE SerialInv'
  OBVIOUS
<1>t. SerialTyped /\ RingKept /\ InTune
  BY DEF SerialInv
<1> DEFINE n == IF ring.writePos > ring.readPos THEN ring.writePos - ring.readPos
                ELSE bufSize - ring.readPos
<1>1. PICK m \in 1 .. n :
        /\ ring' = [ring EXCEPT !.readPos = @ + m]
        /\ wrong' = (wrong \/ (~ lapped /\ (\/ m > Len(stored)
                                            \/ [i \in 1 .. m |-> ring.buf[ring.readPos + i - 1]]
                                                 # Prefix(stored, m))))
        /\ stored' = SubSeq(stored, m + 1, Len(stored))
  BY DEF gpioSerialRead
<1>2. ring.readPos < bufSize /\ ring.readPos # ring.writePos /\ UNCHANGED <<rx, line, sent, lapped>>
  BY DEF gpioSerialRead
<1>3. /\ ring.writePos \in Nat /\ ring.writePos < bufSize /\ ring.readPos \in Nat
      /\ bufSize \in Nat /\ n \in Nat /\ m \in Nat /\ m >= 1 /\ m <= n
  BY <1>t, <1>2, Widths DEF SerialTyped, RingRecords
<1>4. /\ ring' \in RingRecords /\ ring'.readPos = ring.readPos + m
      /\ ring'.writePos = ring.writePos /\ ring'.buf = ring.buf
  <2> DEFINE rp == ring.readPos + m
  <2>1. rp \in 0 .. bufSize
    BY <1>2, <1>3
  <2>2. ring' = [ring EXCEPT !.readPos = rp]
    BY <1>1
  <2>3. rp = ring.readPos + m
    OBVIOUS
  <2> HIDE DEF rp
  <2> QED
    BY <1>t, <2>1, <2>2, <2>3 DEF SerialTyped, RingRecords
<1>5. SerialTyped'
  BY <1>t, <1>2, <1>4 DEF SerialTyped
<1>6. ASSUME ~lapped
      PROVE  /\ stored \in Seq(Characters) /\ Len(stored) = Held /\ m <= Len(stored)
             /\ Len(stored) \in Nat
             /\ \A k \in 1 .. Len(stored) : stored[k] = ring.buf[Place(k)]
  <2>1. /\ stored \in Seq(Characters) /\ Len(stored) = Held
        /\ \A k \in 1 .. Len(stored) : stored[k] = ring.buf[Place(k)]
    BY <1>t, <1>6 DEF RingKept
  <2>2. n <= Held /\ Held \in Nat
    BY <1>2, <1>3 DEF Held
  <2> QED
    BY <1>3, <2>1, <2>2
<1>7. RingKept'
  <2> SUFFICES ASSUME ~lapped'
               PROVE  /\ stored' \in Seq(Characters) /\ Len(stored') = Held'
                      /\ \A k \in 1 .. Len(stored') : stored'[k] = ring'.buf[Place(k)']
    BY DEF RingKept, Place
  <2>1. /\ stored \in Seq(Characters) /\ Len(stored) = Held /\ m <= Len(stored)
        /\ Len(stored) \in Nat
        /\ \A k \in 1 .. Len(stored) : stored[k] = ring.buf[Place(k)]
    BY <1>2, <1>6
  <2>2. \A i \in m + 1 .. Len(stored) : stored[i] \in Characters
    BY <1>3, <2>1, ElementOfSeq
  <2>3. /\ stored' \in Seq(Characters) /\ Len(stored') = Len(stored) - m
        /\ \A k \in 1 .. Len(stored) - m : stored'[k] = stored[k + m]
    <3> DEFINE h == Len(stored)
               a == m + 1
    <3>1. h \in Int /\ a \in Int /\ h \in Nat /\ a = m + 1 /\ m <= h /\ m \in Nat
      BY <1>3, <2>1
    <3>2. stored' = SubSeq(stored, a, h) /\ \A i \in a .. h : stored[i] \in Characters
      BY <1>1, <2>2
    <3>3. h = Len(stored)
      OBVIOUS
    <3> HIDE DEF a, h
    <3>4. /\ SubSeq(stored, a, h) \in Seq(Characters)
          /\ Len(SubSeq(stored, a, h)) = IF a <= h THEN h - a + 1 ELSE 0
          /\ \A i \in 1 .. h - a + 1 : SubSeq(stored, a, h)[i] = stored[a + i - 1]
      BY <3>1, <3>2, SubSeqProperties
    <3>5. /\ Len(stored') = h - m
          /\ \A k \in 1 .. h - m : k \in 1 .. h - a + 1 /\ a + k - 1 = k + m
      BY <3>1, <3>2, <3>4
    <3> QED
      BY <3>2, <3>3, <3>4, <3>5
  <2>4. Held' = Held - m
    BY <1>2, <1>3, <1>4 DEF Held
  <2>5. \A k \in 1 .. Len(stored) - m : Place(k)' = Place(k + m)
    BY <1>3, <1>4, <2>1 DEF Place
  <2>6. ASSUME NEW k \in 1 .. Len(stored) - m
        PROVE  stored'[k] = ring'.buf[Place(k)']
    <3>1. k + m \in 1 .. Len(stored)
      BY <1>3, <2>1
    <3> QED
      BY <1>4, <2>1, <2>3, <2>5, <3>1
  <2> QED
    BY <2>1, <2>3, <2>4, <2>6
<1>8. ~wrong => ~wrong'
  <2> DEFINE copy == [i \in 1 .. m |-> ring.buf[ring.readPos + i - 1]]
             bad == m > Len(stored) \/ copy # Prefix(stored, m)
  <2>0. wrong' = (wrong \/ (~lapped /\ bad))
    BY <1>1, Zenon
  <2> HIDE DEF bad
  <2> SUFFICES ASSUME ~lapped PROVE ~bad
    BY <2>0, Zenon
  <2>1. \A i \in 1 .. m : Place(i) = ring.readPos + i - 1
    BY <1>2, <1>3 DEF Place
  <2>2. \A i \in 1 .. m : ring.buf[ring.readPos + i - 1] = stored[i]
    BY <1>3, <1>6, <2>1
  <2>3. /\ Prefix(stored, m) \in Seq(Characters) /\ Len(Prefix(stored, m)) = m
        /\ \A i \in 1 .. m : Prefix(stored, m)[i] = stored[i]
    <3>1. \A i \in 1 .. m : stored[i] \in Characters
      BY <1>3, <1>6, ElementOfSeq
    <3> QED
      BY <1>3, <1>6, <3>1, SubSeqProperties DEF Prefix
  <2>4. Prefix(stored, m) = [i \in 1 .. m |-> Prefix(stored, m)[i]]
    BY <2>3, LenProperties
  <2>5. copy = Prefix(stored, m)
    BY <2>2, <2>3, <2>4
  <2>6. ~(m > Len(stored))
    BY <1>3, <1>6
  <2> QED
    BY <2>5, <2>6 DEF bad
<1>9. InTune'
  BY <1>t, <1>2, <1>8 DEF InTune, Quiet, Receiving, Heard, ToCome
<1> QED
  BY <1>5, <1>7, <1>9 DEF SerialInv

LEMMA WrapKeeps == SerialInv /\ WrapReadPos => SerialInv'
<1> SUFFICES ASSUME SerialInv, WrapReadPos PROVE SerialInv'
  OBVIOUS
<1>t. SerialTyped /\ RingKept /\ InTune
  BY DEF SerialInv
<1>1. /\ ring.readPos >= bufSize /\ ring' = [ring EXCEPT !.readPos = 0]
      /\ UNCHANGED <<rx, line, sent, stored, wrong, lapped>>
  BY DEF WrapReadPos
<1>2. /\ ring.writePos \in Nat /\ ring.writePos < bufSize /\ ring.readPos = bufSize
      /\ bufSize \in Nat
  BY <1>t, <1>1, Widths DEF SerialTyped, RingRecords
<1>3. /\ ring' \in RingRecords /\ ring'.readPos = 0
      /\ ring'.writePos = ring.writePos /\ ring'.buf = ring.buf
  BY <1>t, <1>1, Widths DEF SerialTyped, RingRecords
<1>4. SerialTyped'
  BY <1>t, <1>1, <1>3 DEF SerialTyped
<1>5. RingKept'
  <2> SUFFICES ASSUME ~lapped'
               PROVE  /\ stored' \in Seq(Characters) /\ Len(stored') = Held'
                      /\ \A k \in 1 .. Len(stored') : stored'[k] = ring'.buf[Place(k)']
    BY DEF RingKept, Place
  <2>1. /\ stored \in Seq(Characters) /\ Len(stored) = Held
        /\ \A k \in 1 .. Len(stored) : stored[k] = ring.buf[Place(k)]
    BY <1>t, <1>1 DEF RingKept
  <2>2. Held' = Held /\ Held = ring.writePos
    BY <1>2, <1>3 DEF Held
  <2>3. \A k \in 1 .. Len(stored) : Place(k)' = Place(k)
    BY <1>2, <1>3, <2>1, <2>2 DEF Place
  <2> QED
    BY <1>1, <1>3, <2>1, <2>2, <2>3
<1>6. InTune'
  BY <1>t, <1>1 DEF InTune, Quiet, Receiving, Heard, ToCome
<1> QED
  BY <1>4, <1>5, <1>6 DEF SerialInv

LEMMA SerialStep == SerialInv /\ [SerialNext]_serialVars => SerialInv'
<1>1. SerialInv /\ UNCHANGED serialVars => SerialInv'
  BY DEF SerialInv, serialVars, SerialTyped, RingKept, Held, Place, InTune, Quiet, Receiving,
     Heard, ToCome
<1> QED
  BY <1>1, SendStartKeeps, SendBitKeeps, RestKeeps, TimeOutKeeps, ReadKeeps, WrapKeeps
  DEF SerialNext

LEMMA SerialSays == SerialInv => CharactersAsSent
<1> SUFFICES ASSUME SerialInv PROVE CharactersAsSent
  OBVIOUS
<1>1. SerialTypeOK
  <2>1. line.rest \in [1 .. Len(line.rest) -> {0, 1}] /\ Len(line.rest) \in 0 .. dataBits + 1
    BY LenProperties, Widths DEF SerialInv, SerialTyped, LineRecords
  <2>2. line.rest \in UNION {[1 .. n -> {0, 1}] : n \in 0 .. dataBits + 1}
    BY <2>1
  <2>3. line = [level |-> line.level, rest |-> line.rest, count |-> line.count]
        /\ line.level \in {0, 1} /\ line.count \in 0 .. MaxCharacters
    BY DEF SerialInv, SerialTyped, LineRecords
  <2> QED
    BY <2>2, <2>3 DEF SerialInv, SerialTyped, SerialTypeOK, RxRecords, RingRecords
<1>2. rx.invert = 0 => ~wrong
  BY DEF SerialInv, InTune
<1>3. lapped \/ Len(stored) = (ring.writePos - ring.readPos) % bufSize
  <2> SUFFICES ASSUME ~lapped PROVE Held = (ring.writePos - ring.readPos) % bufSize
    BY DEF SerialInv, RingKept
  <2>1. /\ ring.writePos \in Nat /\ ring.writePos < bufSize /\ ring.readPos \in Nat
        /\ ring.readPos <= bufSize /\ bufSize \in Nat /\ bufSize > 1
    BY Widths DEF SerialInv, SerialTyped, RingRecords
  <2>2. CASE ring.readPos <= ring.writePos
    <3> DEFINE d == ring.writePos - ring.readPos
    <3>1. d \in Int /\ 0 <= d /\ d < bufSize
      BY <2>1, <2>2
    <3> HIDE DEF d
    <3>2. d % bufSize = d
      BY <2>1, <3>1
    <3> QED
      BY <2>2, <3>2 DEF Held, d
  <2>3. CASE ring.readPos > ring.writePos
    <3> DEFINE d == bufSize - ring.readPos + ring.writePos
    <3>1. d \in Int /\ 0 <= d /\ d < bufSize /\ ring.writePos - ring.readPos = d - bufSize
      BY <2>1, <2>3
    <3>2. ~(ring.readPos <= ring.writePos) /\ Held = d
      BY <2>1, <2>3 DEF Held
    <3> HIDE DEF d
    <3>3. (d - bufSize) % bufSize = d
      BY <2>1, <3>1
    <3> QED
      BY <3>1, <3>2, <3>3
  <2> QED
    BY <2>1, <2>2, <2>3
<1> QED
  BY <1>1, <1>2, <1>3 DEF CharactersAsSent

(* Every character is put together as it was sent, whatever the gaps       *)
(* between characters, the timeouts within one and the lateness of each    *)
(* edge (waveRxSerial), and the ring of gpioSerialRead gives each that     *)
(* found room once and in order: for any number of bits, any timeout and   *)
(* any size of the ring.                                                   *)
THEOREM CharactersAsSentAlways == SerialSpec => []CharactersAsSent
<1>1. SerialInit => SerialInv
  BY SerialBegins
<1>2. SerialInv /\ [SerialNext]_serialVars => SerialInv'
  BY SerialStep
<1>3. SerialInv => CharactersAsSent
  BY SerialSays
<1> QED
  BY <1>1, <1>2, <1>3, PTL DEF SerialSpec

-----------------------------------------------------------------------------
(***************************************************************************)
(* The ring of samples: where things are                                   *)
(***************************************************************************)
LEMMA DivMod ==
  ASSUME NEW n \in Nat, NEW d \in Nat \ {0}
  PROVE  n \div d \in Nat /\ n % d \in 0 .. d - 1 /\ n = d * (n \div d) + (n % d)
  OBVIOUS

LEMMA DivModUnique ==
  ASSUME NEW d \in Nat \ {0}, NEW q \in Nat, NEW r \in 0 .. d - 1
  PROVE  (d * q + r) \div d = q /\ (d * q + r) % d = r
  OBVIOUS

LEMMA TimesLess ==
  ASSUME NEW a \in Nat, NEW x \in Nat, NEW y \in Nat, a * x < a * y
  PROVE x < y
  OBVIOUS

LEMMA TimesAtMost ==
  ASSUME NEW a \in Nat, NEW x \in Nat, NEW y \in Nat, x <= y
  PROVE a * x <= a * y /\ a * x \in Nat
  OBVIOUS

LEMMA RingSizes ==
  /\ PULSE_PER_CYCLE \in Nat \ {0} /\ bufferCycles \in Nat \ {0}
  /\ CBS_PER_CYCLE \in Nat \ {0} /\ CBS_PER_CYCLE = 3 * PULSE_PER_CYCLE + 2
  /\ NUM_CBS \in Nat \ {0} /\ NUM_CBS = CBS_PER_CYCLE * bufferCycles
  BY RingAssumption DEF CBS_PER_CYCLE, NUM_CBS

\* A position below perPage * DMAI_PAGES has a page and a slot, which name no other.
LEMMA PageSlotIsPlace ==
  ASSUME NEW perPage \in Nat \ {0}, NEW pos \in Nat, pos < perPage * DMAI_PAGES
  PROVE  /\ PageSlot(pos, perPage) \in IPages \X (0 .. perPage - 1)
         /\ PageSlot(pos, perPage)[1] * perPage + PageSlot(pos, perPage)[2] = pos
<1> DEFINE q == pos \div perPage
           r == pos % perPage
<1>1. q \in Nat /\ r \in 0 .. perPage - 1 /\ pos = perPage * q + r
  BY DivMod
<1> HIDE DEF q, r
<1>2. perPage * q \in Nat
  BY <1>1
<1>3. perPage * q < perPage * DMAI_PAGES
  <2> DEFINE pq == perPage * q
             all == perPage * DMAI_PAGES
  <2>1. pq \in Nat /\ pos = pq + r /\ pos < all /\ all \in Nat
    BY <1>1, <1>2, RingAssumption
  <2> HIDE DEF pq, all
  <2>2. pq < all
    BY <1>1, <2>1
  <2> QED BY <2>2 DEF pq, all
<1>4. q < DMAI_PAGES
  BY <1>1, <1>3, TimesLess, RingAssumption
<1>5. q * perPage + r = pos
  BY <1>1
<1>6. q \in IPages
  BY <1>1, <1>4, RingAssumption DEF IPages
<1>7. PageSlot(pos, perPage) = <<q, r>>
  BY DEF PageSlot, q, r
<1> QED BY <1>1, <1>5, <1>6, <1>7

LEMMA LevelPlaces ==
  ASSUME NEW c \in CycleNos, NEW p \in PulseNos
  PROVE  /\ c * PULSE_PER_CYCLE + p \in Nat
         /\ c * PULSE_PER_CYCLE + p < LVS_PER_IPAGE * DMAI_PAGES
         /\ myLvsPageSlot(c * PULSE_PER_CYCLE + p) \in LevelSlots
<1>1. c \in Nat /\ c + 1 \in Nat /\ c + 1 <= bufferCycles /\ p \in Nat /\ p < PULSE_PER_CYCLE
  BY RingSizes DEF CycleNos, PulseNos
<1>2. PULSE_PER_CYCLE * (c + 1) <= PULSE_PER_CYCLE * bufferCycles
  BY <1>1, TimesAtMost, RingSizes
<1>3. PULSE_PER_CYCLE * (c + 1) = c * PULSE_PER_CYCLE + PULSE_PER_CYCLE /\ c * PULSE_PER_CYCLE \in Nat
  BY <1>1, RingSizes
<1>4. PULSE_PER_CYCLE * bufferCycles <= LVS_PER_IPAGE * DMAI_PAGES
  BY RingAssumption
<1>5. PULSE_PER_CYCLE * bufferCycles \in Nat /\ LVS_PER_IPAGE * DMAI_PAGES \in Nat
  BY RingAssumption, RingSizes
<1>6. c * PULSE_PER_CYCLE + p \in Nat /\ c * PULSE_PER_CYCLE + p < LVS_PER_IPAGE * DMAI_PAGES
  <2> DEFINE cp == c * PULSE_PER_CYCLE
             next == PULSE_PER_CYCLE * (c + 1)
             used == PULSE_PER_CYCLE * bufferCycles
             room == LVS_PER_IPAGE * DMAI_PAGES
  <2>1. next <= used /\ next = cp + PULSE_PER_CYCLE /\ cp \in Nat /\ used <= room
        /\ used \in Nat /\ room \in Nat
    BY <1>2, <1>3, <1>4, <1>5
  <2> HIDE DEF cp, next, used, room
  <2>2. cp + p \in Nat /\ cp + p < room
    BY <1>1, <2>1, RingSizes
  <2> QED BY <2>2 DEF cp, room
<1>7. LVS_PER_IPAGE \in Nat \ {0}
  BY RingAssumption
<1> QED BY <1>6, <1>7, PageSlotIsPlace DEF myLvsPageSlot, LevelSlots

LEMMA LevelsApart ==
  ASSUME NEW c \in CycleNos, NEW p \in PulseNos, NEW e \in CycleNos, NEW o \in PulseNos,
         myLvsPageSlot(c * PULSE_PER_CYCLE + p) = myLvsPageSlot(e * PULSE_PER_CYCLE + o)
  PROVE  c = e /\ p = o
<1> DEFINE x == c * PULSE_PER_CYCLE + p
           y == e * PULSE_PER_CYCLE + o
<1>1. x \in Nat /\ y \in Nat /\ x < LVS_PER_IPAGE * DMAI_PAGES /\ y < LVS_PER_IPAGE * DMAI_PAGES
  BY LevelPlaces
<1>2. myLvsPageSlot(x) = myLvsPageSlot(y)
  OBVIOUS
<1>3. x = PULSE_PER_CYCLE * c + p /\ y = PULSE_PER_CYCLE * e + o
  BY RingSizes DEF CycleNos, PulseNos
<1> HIDE DEF x, y
<1>4. x = y
  BY <1>1, <1>2, PageSlotIsPlace, RingAssumption DEF myLvsPageSlot
<1>5. x \div PULSE_PER_CYCLE = c /\ x % PULSE_PER_CYCLE = p
  BY <1>3, DivModUnique, RingSizes DEF CycleNos, PulseNos
<1>6. y \div PULSE_PER_CYCLE = e /\ y % PULSE_PER_CYCLE = o
  BY <1>3, DivModUnique, RingSizes DEF CycleNos, PulseNos
<1> QED BY <1>4, <1>5, <1>6

LEMMA TickPlaces ==
  ASSUME NEW c \in CycleNos
  PROVE  /\ myTckPageSlot(c) \in TickSlots
         /\ \A e \in CycleNos : myTckPageSlot(e) = myTckPageSlot(c) => e = c
<1>1. TCK_PER_IPAGE \in Nat \ {0}
  BY RingAssumption
<1>2. \A e \in CycleNos : e \in Nat /\ e < TCK_PER_IPAGE * DMAI_PAGES
  <2> DEFINE room == TCK_PER_IPAGE * DMAI_PAGES
  <2>1. bufferCycles <= room /\ room \in Nat
    BY RingAssumption
  <2> HIDE DEF room
  <2>2. \A e \in CycleNos : e \in Nat /\ e < room
    BY <2>1, RingSizes DEF CycleNos
  <2> QED BY <2>2 DEF room
<1>3. \A e \in CycleNos : myTckPageSlot(e) \in TickSlots
                          /\ myTckPageSlot(e)[1] * TCK_PER_IPAGE + myTckPageSlot(e)[2] = e
  BY <1>1, <1>2, PageSlotIsPlace DEF myTckPageSlot, TickSlots
<1> QED BY <1>3

Block == 0 .. NUM_CBS - 1

LEMMA BlockPlaces ==
  ASSUME NEW b \in Block
  PROVE  dmaCbAdr(b) \in CbSlots /\ dmaCbAdr(b)[1] * CBS_PER_IPAGE + dmaCbAdr(b)[2] = b
<1> DEFINE room == CBS_PER_IPAGE * DMAI_PAGES
<1>1. NUM_CBS <= room /\ room \in Nat
  BY RingAssumption
<1> HIDE DEF room
<1>2. b \in Nat /\ b < room
  BY <1>1, RingSizes DEF Block
<1>3. b < CBS_PER_IPAGE * DMAI_PAGES /\ CBS_PER_IPAGE \in Nat \ {0}
  BY <1>2, RingAssumption DEF room
<1> QED BY <1>2, <1>3, PageSlotIsPlace DEF dmaCbAdr, CbSlots

LEMMA BlockOfCycle ==
  ASSUME NEW b \in Block
  PROVE  /\ CycleOf(b) \in CycleNos /\ Within(b) \in 0 .. CBS_PER_CYCLE - 1
         /\ b = CBS_PER_CYCLE * CycleOf(b) + Within(b)
<1> DEFINE c == CycleOf(b)
           w == Within(b)
           before == CBS_PER_CYCLE * c
           all == CBS_PER_CYCLE * bufferCycles
<1>1. b \in Nat /\ b < all /\ all \in Nat
  BY RingSizes DEF Block
<1>2. c \in Nat /\ w \in 0 .. CBS_PER_CYCLE - 1 /\ b = before + w
  BY <1>1, DivMod, RingSizes DEF CycleOf, Within
<1>3. before \in Nat
  BY <1>2, RingSizes DEF before
<1>4. before < all
  <2> HIDE DEF before, all, c, w
  <2> QED BY <1>1, <1>2, <1>3
<1>5. c < bufferCycles
  BY <1>2, <1>4, TimesLess, RingSizes
<1> QED BY <1>2, <1>5, RingSizes DEF CycleNos

LEMMA CycleOfBlock ==
  ASSUME NEW c \in CycleNos, NEW w \in 0 .. CBS_PER_CYCLE - 1
  PROVE  CycleOf(CBS_PER_CYCLE * c + w) = c /\ Within(CBS_PER_CYCLE * c + w) = w
  BY DivModUnique, RingSizes DEF CycleNos, CycleOf, Within

\* The next block is the next of the cycle, or the first of the next cycle; the last one
\* of the ring is the last one of its cycle.
LEMMA NextBlock ==
  ASSUME NEW b \in Block
  PROVE  /\ b = NUM_CBS - 1 <=> CycleOf(b) = bufferCycles - 1 /\ Within(b) = CBS_PER_CYCLE - 1
         /\ b < NUM_CBS - 1 =>
              /\ b + 1 \in Block
              /\ Within(b) < CBS_PER_CYCLE - 1 =>
                   CycleOf(b + 1) = CycleOf(b) /\ Within(b + 1) = Within(b) + 1
              /\ Within(b) = CBS_PER_CYCLE - 1 =>
                   /\ CycleOf(b + 1) = CycleOf(b) + 1 /\ Within(b + 1) = 0
                   /\ CycleOf(b) + 1 \in CycleNos
<1> DEFINE c == CycleOf(b)
           w == Within(b)
<1>1. c \in CycleNos /\ w \in 0 .. CBS_PER_CYCLE - 1 /\ b = CBS_PER_CYCLE * c + w
  BY BlockOfCycle
<1>2. c \in Nat /\ c + 1 <= bufferCycles /\ w \in Nat /\ w < CBS_PER_CYCLE
  BY <1>1, RingSizes DEF CycleNos
<1> HIDE DEF c, w
<1>3. CBS_PER_CYCLE * (c + 1) = CBS_PER_CYCLE * c + CBS_PER_CYCLE /\ CBS_PER_CYCLE * c \in Nat
  BY <1>2, RingSizes
<1>4. c = bufferCycles - 1 /\ w = CBS_PER_CYCLE - 1 => b = NUM_CBS - 1
  <2> SUFFICES ASSUME c = bufferCycles - 1, w = CBS_PER_CYCLE - 1 PROVE b = NUM_CBS - 1
    OBVIOUS
  <2>1. c + 1 = bufferCycles
    BY <1>2, RingSizes
  <2>2. NUM_CBS = CBS_PER_CYCLE * c + CBS_PER_CYCLE
    BY <1>3, <2>1, RingSizes
  <2> DEFINE before == CBS_PER_CYCLE * c
  <2>3. before \in Nat /\ NUM_CBS = before + CBS_PER_CYCLE /\ b = before + w
    BY <1>1, <1>3, <2>2
  <2> HIDE DEF before
  <2> QED BY <2>3, RingSizes
<1>5. ~(c = bufferCycles - 1 /\ w = CBS_PER_CYCLE - 1) => b < NUM_CBS - 1
  <2> DEFINE before == CBS_PER_CYCLE * c
  <2>1. before \in Nat /\ b = before + w
    BY <1>1, <1>3
  <2>2. before + CBS_PER_CYCLE <= NUM_CBS
    BY <1>2, <1>3, TimesAtMost, RingSizes
  <2>3. c + 1 < bufferCycles => before + CBS_PER_CYCLE < NUM_CBS
    <3> SUFFICES ASSUME c + 1 < bufferCycles PROVE before + CBS_PER_CYCLE < NUM_CBS
      OBVIOUS
    <3>1. CBS_PER_CYCLE * (c + 2) <= NUM_CBS
      <4>1. c + 2 \in Nat /\ c + 2 <= bufferCycles
        BY <1>2, RingSizes
      <4> QED BY <4>1, TimesAtMost, RingSizes
    <3>2. CBS_PER_CYCLE * (c + 2) = before + CBS_PER_CYCLE + CBS_PER_CYCLE
      BY <1>2, RingSizes
    <3> DEFINE two == CBS_PER_CYCLE * (c + 2)
    <3>3. two <= NUM_CBS /\ two = before + CBS_PER_CYCLE + CBS_PER_CYCLE
      BY <3>1, <3>2
    <3> HIDE DEF before, two
    <3> QED BY <2>1, <3>3, RingSizes
  <2> HIDE DEF before
  <2> QED BY <1>2, <2>1, <2>2, <2>3, RingSizes
<1>6. ASSUME b < NUM_CBS - 1
      PROVE  /\ b + 1 \in Block
             /\ w < CBS_PER_CYCLE - 1 => CycleOf(b + 1) = c /\ Within(b + 1) = w + 1
             /\ w = CBS_PER_CYCLE - 1 => /\ CycleOf(b + 1) = c + 1 /\ Within(b + 1) = 0
                                         /\ c + 1 \in CycleNos
  <2>1. b + 1 \in Block
    BY <1>6, RingSizes DEF Block
  <2>2. ASSUME w < CBS_PER_CYCLE - 1 PROVE CycleOf(b + 1) = c /\ Within(b + 1) = w + 1
    <3>1. w + 1 \in 0 .. CBS_PER_CYCLE - 1
      BY <1>2, <2>2, RingSizes
    <3>2. b + 1 = CBS_PER_CYCLE * c + (w + 1)
      BY <1>1, <1>2, <1>3, RingSizes
    <3> QED BY <1>1, <3>1, <3>2, CycleOfBlock
  <2>3. ASSUME w = CBS_PER_CYCLE - 1
        PROVE  CycleOf(b + 1) = c + 1 /\ Within(b + 1) = 0 /\ c + 1 \in CycleNos
    <3>1. c + 1 \in CycleNos
      BY <1>2, <1>4, <1>6, <2>3, RingSizes DEF CycleNos
    <3>2. b + 1 = CBS_PER_CYCLE * (c + 1) + 0
      BY <1>1, <1>2, <1>3, <2>3, RingSizes
    <3>3. 0 \in 0 .. CBS_PER_CYCLE - 1
      BY RingSizes
    <3> QED BY <3>1, <3>2, <3>3, CycleOfBlock
  <2> QED BY <2>1, <2>2, <2>3
<1>7. b < NUM_CBS - 1 => b # NUM_CBS - 1
  BY RingSizes DEF Block
<1> QED BY <1>4, <1>5, <1>6, <1>7 DEF c, w

LEMMA FirstBlock == 0 \in Block /\ CycleOf(0) = 0 /\ Within(0) = 0 /\ 0 \in CycleNos
<1>1. 0 \in CycleNos /\ 0 \in 0 .. CBS_PER_CYCLE - 1 /\ CBS_PER_CYCLE * 0 + 0 = 0
  BY RingSizes DEF CycleNos
<1> QED BY <1>1, CycleOfBlock, RingSizes DEF Block

\* Where the thread looks for the engine is the start of the engine's cycle.
LEMMA CycleStarts ==
  ASSUME NEW b \in Block
  PROVE  /\ StartOfCycle(dmaCurrentSlot(b)) = CycleOf(b) * PULSE_PER_CYCLE
         /\ (CycleOf(b) * PULSE_PER_CYCLE) \div PULSE_PER_CYCLE = CycleOf(b)
<1> DEFINE c == CycleOf(b)
           w == Within(b)
           q == IF w > 2 THEN (w - 2) \div 3 ELSE 0
<1>1. c \in Nat /\ w \in 0 .. CBS_PER_CYCLE - 1
  BY BlockOfCycle, RingSizes DEF CycleNos
<1>2. q \in PulseNos
  <2> HIDE DEF w, c
  <2> QED BY <1>1, RingSizes DEF PulseNos
<1>3. dmaCurrentSlot(b) = c * PULSE_PER_CYCLE + q
  BY DEF dmaCurrentSlot
<1> HIDE DEF c, q
<1>4. dmaCurrentSlot(b) = PULSE_PER_CYCLE * c + q /\ c * PULSE_PER_CYCLE = PULSE_PER_CYCLE * c + 0
  BY <1>1, <1>2, <1>3, RingSizes DEF PulseNos
<1>5. dmaCurrentSlot(b) \div PULSE_PER_CYCLE = c
  <2>1. q \in 0 .. PULSE_PER_CYCLE - 1 /\ PULSE_PER_CYCLE \in Nat \ {0}
    BY <1>2, RingSizes DEF PulseNos
  <2>2. (PULSE_PER_CYCLE * c + q) \div PULSE_PER_CYCLE = c
    BY <1>1, <2>1, DivModUnique
  <2> QED BY <1>4, <2>2
<1>6. 0 \in 0 .. PULSE_PER_CYCLE - 1
  BY RingSizes
<1>7. (c * PULSE_PER_CYCLE) \div PULSE_PER_CYCLE = c
  BY <1>1, <1>4, <1>6, DivModUnique, RingSizes
<1> QED BY <1>5, <1>7 DEF StartOfCycle, c

-----------------------------------------------------------------------------
(***************************************************************************)
(* The engine: what it has stored, and in which lap                        *)
(***************************************************************************)
\* The lap in which an engine that is at block w of a cycle was last at block k of cycle c.
LapOf(l, cycle, w, c, k) == IF c < cycle \/ (c = cycle /\ w > k) THEN l ELSE l - 1

LapOfBlock(c, k) == LapOf(lap, CycleOf(dmaNowAtICB), Within(dmaNowAtICB), c, k)

LevelsStored ==
  \A c \in CycleNos, p \in PulseNos :
    LapOfBlock(c, 3 * p + 2) >= 0 =>
      myGetLevel(c * PULSE_PER_CYCLE + p) = [time |-> Time(LapOfBlock(c, 3 * p + 2), c), pulse |-> p]
TicksStored ==
  \A c \in CycleNos : LapOfBlock(c, 1) >= 0 => myGetTick(c) = Time(LapOfBlock(c, 1), c)

EngineTypeOK ==
  /\ conblk \in CbSlots /\ lap \in Nat
  /\ levels \in [LevelSlots -> [time : Times, pulse : Nat]]
  /\ ticks \in [TickSlots -> Times]
EngineInv == dmaNowAtICB \in Block /\ EngineTypeOK /\ LevelsStored /\ TicksStored

\* A step of the engine is at one block: no other has a new lap.
LEMMA EngineMoves ==
  ASSUME EngineTypeOK, dmaNowAtICB \in Block, EngineStep
  PROVE  /\ dmaNowAtICB' \in Block /\ conblk' \in CbSlots /\ lap' \in Nat
         /\ \/ lap' = lap /\ CycleOf(dmaNowAtICB) <= CycleOf(dmaNowAtICB)'
            \/ lap' = lap + 1 /\ CycleOf(dmaNowAtICB)' = 0
         /\ \A c \in CycleNos : \A k \in 0 .. CBS_PER_CYCLE - 1 :
              LapOfBlock(c, k)' = IF c = CycleOf(dmaNowAtICB) /\ k = Within(dmaNowAtICB)
                                  THEN lap ELSE LapOfBlock(c, k)
<1> DEFINE b == dmaNowAtICB
           n == IF b = NUM_CBS - 1 THEN 0 ELSE b + 1
           cyc == CycleOf(b)
           w == Within(b)
<1>1. cyc \in CycleNos /\ w \in 0 .. CBS_PER_CYCLE - 1
  BY BlockOfCycle
<1>2. lap \in Nat /\ conblk' = dmaCbAdr(n) /\ lap' = IF b = NUM_CBS - 1 THEN lap + 1 ELSE lap
  BY DEF EngineStep, EngineTypeOK
<1>3. n \in Block
  BY FirstBlock, RingSizes DEF Block
<1>4. dmaNowAtICB' = n /\ conblk' \in CbSlots
  BY <1>2, <1>3, BlockPlaces DEF dmaNowAtICB
<1>5. \A c, k : LapOfBlock(c, k)' = LapOf(lap', CycleOf(n), Within(n), c, k)
  BY <1>4 DEF LapOfBlock
<1>6. \A c, k : LapOfBlock(c, k) = LapOf(lap, cyc, w, c, k)
  BY DEF LapOfBlock
<1>7. b \in Block /\ (b = NUM_CBS - 1 \/ b < NUM_CBS - 1)
  BY RingSizes DEF Block
<1> DEFINE nc == CycleOf(n)
           nw == Within(n)
<1>8. /\ b = NUM_CBS - 1 => nc = 0 /\ nw = 0
      /\ b = NUM_CBS - 1 <=> cyc = bufferCycles - 1 /\ w = CBS_PER_CYCLE - 1
  BY <1>7, FirstBlock, NextBlock
<1>9. b # NUM_CBS - 1 => \/ w < CBS_PER_CYCLE - 1 /\ nc = cyc /\ nw = w + 1
                         \/ w = CBS_PER_CYCLE - 1 /\ nc = cyc + 1 /\ nw = 0
  BY <1>1, <1>7, NextBlock, RingSizes
<1>10. ASSUME NEW c \in CycleNos, NEW k \in 0 .. CBS_PER_CYCLE - 1
       PROVE  LapOf(lap', nc, nw, c, k) =
                IF c = cyc /\ k = w THEN lap ELSE LapOf(lap, cyc, w, c, k)
  <2> HIDE DEF nc, nw, cyc, w, n, b
  <2>1. CASE b = NUM_CBS - 1
    BY <1>1, <1>2, <1>8, <2>1, RingSizes DEF LapOf, CycleNos
  <2>2. CASE b # NUM_CBS - 1
    BY <1>1, <1>2, <1>9, <2>2, RingSizes DEF LapOf, CycleNos
  <2> QED BY <2>1, <2>2
<1>11. lap' \in Nat
  BY <1>2
<1>12. (lap' = lap /\ cyc <= nc) \/ (lap' = lap + 1 /\ nc = 0)
  <2> HIDE DEF nc, nw, cyc, w, n, b
  <2> QED BY <1>1, <1>2, <1>8, <1>9, RingSizes DEF CycleNos
<1>13. CycleOf(dmaNowAtICB)' = nc
  BY <1>4 DEF CycleOf, CBS_PER_CYCLE
<1>14. dmaNowAtICB' \in Block /\ conblk' \in CbSlots
  BY <1>3, <1>4
<1> HIDE DEF nc, nw, cyc, w, n
<1>15. \A c \in CycleNos : \A k \in 0 .. CBS_PER_CYCLE - 1 :
         LapOfBlock(c, k)' = IF c = cyc /\ k = w THEN lap ELSE LapOfBlock(c, k)
  BY <1>5, <1>6, <1>10 DEF nc, nw
<1> QED BY <1>11, <1>12, <1>13, <1>14, <1>15 DEF cyc, w

\* What the engine stores at block w of cycle c.
LEMMA EngineStores ==
  ASSUME EngineInv, EngineStep
  PROVE  EngineInv'
<1> DEFINE cyc == CycleOf(dmaNowAtICB)
           w == Within(dmaNowAtICB)
           q == (w - 2) \div 3
<1>1. EngineTypeOK /\ dmaNowAtICB \in Block /\ LevelsStored /\ TicksStored
  BY DEF EngineInv
<1>2. cyc \in CycleNos /\ w \in 0 .. CBS_PER_CYCLE - 1
  BY <1>1, BlockOfCycle
<1>3. lap \in Nat /\ cyc \in Nat
  BY <1>1, <1>2, RingSizes DEF EngineTypeOK, CycleNos
<1>4. Now = Time(lap, cyc) /\ Now \in Times
  BY <1>3 DEF Now, Time, Times
<1>5. /\ dmaNowAtICB' \in Block /\ conblk' \in CbSlots /\ lap' \in Nat
      /\ \A c \in CycleNos : \A k \in 0 .. CBS_PER_CYCLE - 1 :
           LapOfBlock(c, k)' = IF c = cyc /\ k = w THEN lap ELSE LapOfBlock(c, k)
  BY <1>1, EngineMoves
<1>6. StoresLevels(w) => q \in PulseNos /\ w = 3 * q + 2
  <2> HIDE DEF w
  <2> QED BY <1>2, RingSizes DEF StoresLevels, PulseNos
<1>7. \A p \in PulseNos : /\ 3 * p + 2 \in 0 .. CBS_PER_CYCLE - 1
                          /\ w = 3 * p + 2 => StoresLevels(w) /\ q = p
  <2> HIDE DEF w
  <2> QED BY <1>2, RingSizes DEF StoresLevels, PulseNos
<1>8. levels' = IF StoresLevels(w)
                THEN [levels EXCEPT ![myLvsPageSlot(cyc * PULSE_PER_CYCLE + q)] =
                        [time |-> Now, pulse |-> q]]
                ELSE levels
  BY DEF EngineStep, LevelAt
<1>9. ticks' = IF w = 1 THEN [ticks EXCEPT ![myTckPageSlot(cyc)] = Now] ELSE ticks
  BY DEF EngineStep, StoresTick
<1>10. levels \in [LevelSlots -> [time : Times, pulse : Nat]] /\ ticks \in [TickSlots -> Times]
  BY <1>1 DEF EngineTypeOK
<1> HIDE DEF cyc, w, q
<1>11. levels' \in [LevelSlots -> [time : Times, pulse : Nat]]
  <2>1. CASE StoresLevels(w)
    <3>1. [time |-> Now, pulse |-> q] \in [time : Times, pulse : Nat]
      BY <1>4, <1>6, <2>1, RingSizes DEF PulseNos
    <3> QED BY <1>8, <1>10, <2>1, <3>1
  <2> QED BY <1>8, <1>10, <2>1
<1>12. ticks' \in [TickSlots -> Times]
  BY <1>4, <1>9, <1>10
<1>13. EngineTypeOK'
  BY <1>1, <1>5, <1>11, <1>12 DEF EngineTypeOK
<1>14. LevelsStored'
  <2> SUFFICES ASSUME NEW c \in CycleNos, NEW p \in PulseNos, LapOfBlock(c, 3 * p + 2)' >= 0
               PROVE  levels'[myLvsPageSlot(c * PULSE_PER_CYCLE + p)] =
                        [time |-> Time(LapOfBlock(c, 3 * p + 2)', c), pulse |-> p]
    BY DEF LevelsStored, myGetLevel, myLvsPageSlot, Time, PageSlot
  <2>1. myLvsPageSlot(c * PULSE_PER_CYCLE + p) \in LevelSlots
    BY LevelPlaces
  <2>2. CASE c = cyc /\ w = 3 * p + 2
    <3>1. StoresLevels(w) /\ q = p
      BY <1>7, <2>2
    <3>2. LapOfBlock(c, 3 * p + 2)' = lap
      BY <1>5, <1>7, <2>2
    <3>3. levels'[myLvsPageSlot(c * PULSE_PER_CYCLE + p)] = [time |-> Now, pulse |-> p]
      BY <1>8, <1>10, <2>1, <2>2, <3>1
    <3> QED BY <1>4, <2>2, <3>2, <3>3
  <2>3. CASE ~(c = cyc /\ w = 3 * p + 2)
    <3>1. LapOfBlock(c, 3 * p + 2)' = LapOfBlock(c, 3 * p + 2)
      BY <1>5, <1>7, <2>3
    <3>2. levels[myLvsPageSlot(c * PULSE_PER_CYCLE + p)] =
            [time |-> Time(LapOfBlock(c, 3 * p + 2), c), pulse |-> p]
      BY <1>1, <3>1 DEF LevelsStored, myGetLevel
    <3>3. levels'[myLvsPageSlot(c * PULSE_PER_CYCLE + p)] =
            levels[myLvsPageSlot(c * PULSE_PER_CYCLE + p)]
      <4>1. CASE StoresLevels(w)
        <5>1. q \in PulseNos /\ w = 3 * q + 2
          BY <1>6, <4>1
        <5>2. myLvsPageSlot(c * PULSE_PER_CYCLE + p) # myLvsPageSlot(cyc * PULSE_PER_CYCLE + q)
          <6> SUFFICES ASSUME myLvsPageSlot(c * PULSE_PER_CYCLE + p)
                                = myLvsPageSlot(cyc * PULSE_PER_CYCLE + q)
                       PROVE  FALSE
            OBVIOUS
          <6>1. c = cyc /\ p = q
            BY <1>2, <5>1, LevelsApart
          <6> QED BY <2>3, <5>1, <6>1
        <5> QED BY <1>8, <1>10, <2>1, <4>1, <5>2
      <4> QED BY <1>8, <4>1
    <3> QED BY <3>1, <3>2, <3>3
  <2> QED BY <2>2, <2>3
<1>15. TicksStored'
  <2> SUFFICES ASSUME NEW c \in CycleNos, LapOfBlock(c, 1)' >= 0
               PROVE  ticks'[myTckPageSlot(c)] = Time(LapOfBlock(c, 1)', c)
    BY DEF TicksStored, myGetTick, myTckPageSlot, Time, PageSlot
  <2>1. myTckPageSlot(c) \in TickSlots /\ 1 \in 0 .. CBS_PER_CYCLE - 1
    BY TickPlaces, RingSizes
  <2>2. CASE c = cyc /\ w = 1
    BY <1>4, <1>5, <1>9, <1>10, <2>1, <2>2
  <2>3. CASE ~(c = cyc /\ w = 1)
    <3>1. LapOfBlock(c, 1)' = LapOfBlock(c, 1)
      BY <1>5, <2>1, <2>3
    <3>2. ticks[myTckPageSlot(c)] = Time(LapOfBlock(c, 1), c)
      BY <1>1, <3>1 DEF TicksStored, myGetTick
    <3>3. ticks'[myTckPageSlot(c)] = ticks[myTckPageSlot(c)]
      <4>1. w = 1 => myTckPageSlot(c) # myTckPageSlot(cyc)
        BY <1>2, <2>3, TickPlaces
      <4> QED BY <1>9, <1>10, <2>1, <4>1
    <3> QED BY <3>1, <3>2, <3>3
  <2> QED BY <2>2, <2>3
<1> QED BY <1>5, <1>13, <1>14, <1>15 DEF EngineInv


-----------------------------------------------------------------------------
(***************************************************************************)
(* The alert thread: less than a lap behind the engine                     *)
(***************************************************************************)
SamplerTypeOK ==
  /\ sampler \in [at : {"starting", "looking", "taking"}, oldSlot : Nat, newSlot : Nat,
                  cycle : Nat, pulse : Nat, sTick : Times, plus : Nat, stickInited : BOOLEAN,
                  numSamples : Nat]
  /\ due \in [time : Times, pulse : Nat]
  /\ overrun \in BOOLEAN /\ tickEarly \in BOOLEAN

\* The engine is in the cycle that is due or past it, and has not come round to it; or it
\* is past it.
WithinLap(d, l, c) == (l = d.lap /\ d.cycle <= c) \/ (l = d.lap + 1 /\ c < d.cycle)
Gone(d, l, c) == (l = d.lap /\ d.cycle < c) \/ (l = d.lap + 1 /\ c < d.cycle)
\* The engine has been in cycle n, if that is less than a lap after what is due.
Reached(d, n, l, c) ==
  LET m == IF d.cycle <= n THEN d.lap ELSE d.lap + 1 IN m < l \/ (m = l /\ n <= c)

SamplerShape ==
  /\ sampler.cycle \in CycleNos /\ sampler.pulse \in PulseNos
  /\ sampler.oldSlot = sampler.cycle * PULSE_PER_CYCLE + sampler.pulse
  /\ sampler.plus = sampler.pulse /\ due.pulse = sampler.pulse
  /\ due.time.cycle = sampler.cycle
  /\ sampler.at = "starting" => due.time = Never /\ sampler.pulse = 0 /\ ~sampler.stickInited
  /\ sampler.at # "starting" => due.time.lap \in Nat
SamplerInStep ==
  ~overrun =>
    /\ sampler.at # "starting" => WithinLap(due.time, lap, CycleOf(dmaNowAtICB))
    /\ sampler.pulse > 0 => Gone(due.time, lap, CycleOf(dmaNowAtICB))
    /\ sampler.at = "taking" =>
         \E n \in CycleNos : /\ sampler.newSlot = n * PULSE_PER_CYCLE
                             /\ sampler.pulse > 0 => n # due.time.cycle
                             /\ Reached(due.time, n, lap, CycleOf(dmaNowAtICB))
    /\ ~tickEarly /\ sampler.stickInited => sampler.sTick = due.time
RingInv == EngineInv /\ SamplerTypeOK /\ SamplerShape /\ SamplerInStep /\ SamplesInOrder

\* A cycle that is gone is stored, all of it, in the lap that is due.
LEMMA GoneIsStored ==
  ASSUME EngineInv, NEW d \in Times, d.lap \in Nat, d.cycle \in CycleNos,
         Gone(d, lap, CycleOf(dmaNowAtICB))
  PROVE  /\ \A p \in PulseNos : myGetLevel(d.cycle * PULSE_PER_CYCLE + p) = [time |-> d, pulse |-> p]
         /\ myGetTick(d.cycle) = d
<1> DEFINE cyc == CycleOf(dmaNowAtICB)
<1>1. cyc \in CycleNos /\ lap \in Nat
  BY BlockOfCycle DEF EngineInv, EngineTypeOK
<1> HIDE DEF cyc
<1>2. \A k : LapOf(lap, cyc, Within(dmaNowAtICB), d.cycle, k) = d.lap
  BY <1>1, RingSizes DEF LapOf, Gone, CycleNos, cyc
<1>3. \A k : LapOfBlock(d.cycle, k) = d.lap
  BY <1>2 DEF LapOfBlock, cyc
<1>4. d = Time(d.lap, d.cycle) /\ d.lap >= 0
  BY DEF Times, Time
<1>5. \A p \in PulseNos :
        myGetLevel(d.cycle * PULSE_PER_CYCLE + p) = [time |-> Time(d.lap, d.cycle), pulse |-> p]
  BY <1>3, <1>4 DEF EngineInv, LevelsStored
<1>6. myGetTick(d.cycle) = Time(d.lap, d.cycle)
  BY <1>3, <1>4 DEF EngineInv, TicksStored
<1> QED BY <1>4, <1>5, <1>6

\* The tick of the cycle that the engine is in is stored once it is past its second block.
LEMMA TickIsStored ==
  ASSUME EngineInv, Within(dmaNowAtICB) > 1
  PROVE  myGetTick(CycleOf(dmaNowAtICB)) = Now
<1>1. CycleOf(dmaNowAtICB) \in CycleNos /\ lap \in Nat
  BY BlockOfCycle DEF EngineInv, EngineTypeOK
<1>2. LapOfBlock(CycleOf(dmaNowAtICB), 1) = lap
  BY DEF LapOfBlock, LapOf
<1> QED BY <1>1, <1>2 DEF EngineInv, TicksStored, Now

\* The thread takes samples of a cycle that the engine has left.
LEMMA TakesWhatIsGone ==
  ASSUME RingInv, ~overrun, TakeSample
  PROVE  /\ Gone(due.time, lap, CycleOf(dmaNowAtICB))
         /\ \E n \in CycleNos : /\ sampler.newSlot = n * PULSE_PER_CYCLE
                                /\ n # due.time.cycle
                                /\ Reached(due.time, n, lap, CycleOf(dmaNowAtICB))
<1> DEFINE cyc == CycleOf(dmaNowAtICB)
<1>1. cyc \in CycleNos /\ lap \in Nat
  BY BlockOfCycle DEF RingInv, EngineInv, EngineTypeOK
<1>2. sampler.at = "taking" /\ sampler.oldSlot # sampler.newSlot
  BY DEF TakeSample
<1>3. PICK n \in CycleNos : /\ sampler.newSlot = n * PULSE_PER_CYCLE
                            /\ sampler.pulse > 0 => n # due.time.cycle
                            /\ Reached(due.time, n, lap, cyc)
  BY <1>2 DEF RingInv, SamplerInStep
<1>4. WithinLap(due.time, lap, cyc) /\ due.time.lap \in Nat /\ due.time.cycle = sampler.cycle
  BY <1>2 DEF RingInv, SamplerInStep, SamplerShape
<1>5. sampler.cycle \in CycleNos /\ sampler.pulse \in PulseNos
      /\ sampler.oldSlot = sampler.cycle * PULSE_PER_CYCLE + sampler.pulse
  BY DEF RingInv, SamplerShape
<1>6. n # due.time.cycle
  <2> SUFFICES ASSUME n = sampler.cycle, sampler.pulse = 0 PROVE FALSE
    BY <1>3, <1>4, <1>5, RingSizes DEF PulseNos
  <2>1. n * PULSE_PER_CYCLE \in Nat
    BY RingSizes DEF CycleNos
  <2> QED BY <1>2, <1>3, <1>5, <2>1
<1> HIDE DEF cyc
<1>7. Gone(due.time, lap, cyc)
  BY <1>1, <1>3, <1>4, <1>5, <1>6, RingSizes DEF WithinLap, Gone, Reached, CycleNos
<1> QED BY <1>3, <1>6, <1>7 DEF cyc

LEMMA RingInvInit == RingInit => RingInv
<1> SUFFICES ASSUME RingInit PROVE RingInv
  OBVIOUS
<1>1. conblk = dmaCbAdr(0) /\ lap = 0
  BY DEF RingInit
<1>2. dmaNowAtICB = 0 /\ conblk \in CbSlots
  BY <1>1, FirstBlock, BlockPlaces DEF dmaNowAtICB
<1>3. Never \in Times /\ 0 \in Nat
  BY DEF Never, Times, Time
<1>4. EngineTypeOK
  BY <1>1, <1>2, <1>3 DEF RingInit, EngineTypeOK
<1>5. SamplerTypeOK
  BY <1>3 DEF RingInit, SamplerTypeOK
<1>6. \A c \in CycleNos, k \in 0 .. CBS_PER_CYCLE - 1 : LapOfBlock(c, k) = -1
  BY <1>1, <1>2, FirstBlock, RingSizes DEF LapOfBlock, LapOf, CycleNos
<1>7. LevelsStored /\ TicksStored
  <2>1. \A p \in PulseNos : 3 * p + 2 \in 0 .. CBS_PER_CYCLE - 1
    BY RingSizes DEF PulseNos
  <2>2. 1 \in 0 .. CBS_PER_CYCLE - 1
    BY RingSizes
  <2> QED BY <1>6, <2>1, <2>2 DEF LevelsStored, TicksStored
<1>8. SamplerShape
  <2>1. 0 \in CycleNos /\ 0 \in PulseNos /\ 0 = 0 * PULSE_PER_CYCLE + 0
    BY RingSizes DEF CycleNos, PulseNos
  <2> QED BY <2>1 DEF RingInit, SamplerShape, Never, Time
<1>9. SamplerInStep /\ SamplesInOrder
  BY DEF RingInit, SamplerInStep, SamplesInOrder
<1> QED BY <1>2, <1>4, <1>5, <1>7, <1>8, <1>9, FirstBlock DEF RingInv, EngineInv

LEMMA EngineKeeps ==
  ASSUME RingInv, EngineStep
  PROVE  RingInv'
<1> DEFINE cyc == CycleOf(dmaNowAtICB)
           d == due.time
<1>1. EngineInv'
  BY EngineStores DEF RingInv
<1>2. /\ sampler' = sampler /\ due' = due /\ sample' = sample /\ tickEarly' = tickEarly
      /\ overrun' = (overrun \/ ~Behind(due.time))
  BY DEF EngineStep
<1>3. SamplerTypeOK'
  BY <1>2 DEF RingInv, SamplerTypeOK
<1>4. SamplerShape'
  BY <1>2 DEF RingInv, SamplerShape, CycleNos, PulseNos, Never, Time
<1>5. SamplesInOrder'
  BY <1>2 DEF RingInv, SamplesInOrder, NoSample, Never, Time
<1>6. lap' \in Nat /\ ((lap' = lap /\ cyc <= cyc') \/ (lap' = lap + 1 /\ cyc' = 0))
  BY EngineMoves DEF RingInv, EngineInv
<1>7. cyc \in CycleNos /\ cyc' \in CycleNos /\ lap \in Nat
  <2>1. dmaNowAtICB' \in Block
    BY EngineMoves DEF RingInv, EngineInv
  <2>2. CycleOf(dmaNowAtICB') \in CycleNos
    BY <2>1, BlockOfCycle
  <2>3. cyc' = CycleOf(dmaNowAtICB')
    BY DEF CycleOf, CBS_PER_CYCLE
  <2> QED BY <2>2, <2>3, BlockOfCycle DEF RingInv, EngineInv, EngineTypeOK
<1>8. SamplerInStep'
  <2> SUFFICES ASSUME ~overrun'
      PROVE  /\ sampler.at # "starting" => WithinLap(d, lap', cyc')
             /\ sampler.pulse > 0 => Gone(d, lap', cyc')
             /\ sampler.at = "taking" =>
                  \E n \in CycleNos : /\ sampler.newSlot = n * PULSE_PER_CYCLE
                                      /\ sampler.pulse > 0 => n # d.cycle
                                      /\ Reached(d, n, lap', cyc')
             /\ ~tickEarly /\ sampler.stickInited => sampler.sTick = d
    BY <1>2 DEF SamplerInStep, WithinLap, Gone, Reached, CycleNos
  <2>1. ~overrun /\ Behind(d)
    BY <1>2
  <2>2. Now'.lap = lap' /\ Now'.cycle = cyc'
    BY DEF Now, Time
  <2>3. sampler.at # "starting" => d.lap \in Nat
    BY DEF RingInv, SamplerShape
  <2>4. d.cycle \in CycleNos
    BY DEF RingInv, SamplerShape
  <2>5. sampler.pulse > 0 => sampler.at # "starting"
    BY DEF RingInv, SamplerShape
  <2>6. /\ sampler.pulse > 0 => Gone(d, lap, cyc)
        /\ sampler.at = "taking" =>
             \E n \in CycleNos : /\ sampler.newSlot = n * PULSE_PER_CYCLE
                                 /\ sampler.pulse > 0 => n # d.cycle
                                 /\ Reached(d, n, lap, cyc)
        /\ ~tickEarly /\ sampler.stickInited => sampler.sTick = d
    BY <2>1 DEF RingInv, SamplerInStep
  <2> DEFINE nc == cyc'
             nl == lap'
  <2>7. Behind(d) => d.lap = -1 \/ (nl = d.lap /\ d.cycle <= nc) \/ (nl = d.lap + 1 /\ nc < d.cycle)
    BY <2>2 DEF Behind
  <2>8. nl \in Nat /\ ((nl = lap /\ cyc <= nc) \/ (nl = lap + 1 /\ nc = 0)) /\ nc \in CycleNos
    BY <1>6, <1>7
  <2> HIDE DEF nc, nl, cyc, d
  <2>9. sampler.at # "starting" => WithinLap(d, nl, nc)
    BY <2>1, <2>3, <2>7 DEF WithinLap
  <2>10. sampler.pulse > 0 => Gone(d, nl, nc)
    BY <1>7, <2>3, <2>4, <2>5, <2>6, <2>8, <2>9, RingSizes DEF WithinLap, Gone, CycleNos
  <2>11. \A n \in CycleNos : sampler.at = "taking" /\ Reached(d, n, lap, cyc) => Reached(d, n, nl, nc)
    BY <1>7, <2>3, <2>4, <2>8, RingSizes DEF Reached, CycleNos
  <2>12. sampler.at = "taking" =>
           \E n \in CycleNos : /\ sampler.newSlot = n * PULSE_PER_CYCLE
                               /\ sampler.pulse > 0 => n # d.cycle
                               /\ Reached(d, n, nl, nc)
    BY <2>6, <2>11
  <2> QED BY <2>6, <2>9, <2>10, <2>12 DEF nc, nl
<1> QED BY <1>1, <1>3, <1>4, <1>5, <1>8 DEF RingInv

\* The steps of the thread leave what the engine has stored.
LEMMA ThreadLeavesEngine ==
  ASSUME EngineInv, UNCHANGED <<conblk, lap, levels, ticks>>
  PROVE  EngineInv' /\ dmaNowAtICB' = dmaNowAtICB /\ CycleOf(dmaNowAtICB)' = CycleOf(dmaNowAtICB)
<1>1. dmaNowAtICB' = dmaNowAtICB
  BY DEF dmaNowAtICB
<1>2. CycleOf(dmaNowAtICB)' = CycleOf(dmaNowAtICB)
  BY <1>1 DEF CycleOf, CBS_PER_CYCLE
<1>3. \A c, k : LapOfBlock(c, k)' = LapOfBlock(c, k)
  BY <1>1 DEF LapOfBlock, LapOf, CycleOf, Within, CBS_PER_CYCLE
<1>4. LevelsStored'
  BY <1>3 DEF EngineInv, LevelsStored, myGetLevel, myLvsPageSlot, PageSlot, CycleNos, PulseNos, Time
<1>5. TicksStored'
  BY <1>3 DEF EngineInv, TicksStored, myGetTick, myTckPageSlot, PageSlot, CycleNos, Time
<1>6. EngineTypeOK' /\ (dmaNowAtICB \in Block)'
  BY <1>1 DEF EngineInv, EngineTypeOK, CbSlots, LevelSlots, TickSlots, IPages, Times, Block, NUM_CBS,
              CBS_PER_CYCLE
<1> QED BY <1>1, <1>2, <1>4, <1>5, <1>6 DEF EngineInv


LEMMA StartKeeps ==
  ASSUME RingInv, StartSampling
  PROVE  RingInv'
<1> DEFINE cyc == CycleOf(dmaNowAtICB)
           old == StartOfCycle(dmaCurrentSlot(dmaNowAtICB))
<1>1. UNCHANGED <<conblk, lap, levels, ticks>> /\ UNCHANGED <<sample, overrun, tickEarly>>
  BY DEF StartSampling
<1>2. EngineInv' /\ cyc' = cyc
  BY <1>1, ThreadLeavesEngine DEF RingInv
<1>3. cyc \in CycleNos /\ lap \in Nat /\ cyc \in Nat
  BY BlockOfCycle, RingSizes DEF RingInv, EngineInv, EngineTypeOK, CycleNos
<1>4. old = cyc * PULSE_PER_CYCLE /\ old \div PULSE_PER_CYCLE = cyc
  BY CycleStarts DEF RingInv, EngineInv
<1>5. old \in Nat
  BY <1>3, <1>4, RingSizes
<1>6. sampler.at = "starting" /\ sampler.pulse = 0 /\ ~sampler.stickInited /\ sampler.plus = 0
  BY DEF StartSampling, RingInv, SamplerShape
<1>7. /\ sampler' = [sampler EXCEPT !.at = "looking", !.oldSlot = old, !.cycle = cyc]
      /\ due' = [time |-> Now, pulse |-> 0]
  BY <1>4 DEF StartSampling
<1>8. Now \in Times /\ Now.lap = lap /\ Now.cycle = cyc
  BY <1>3 DEF Now, Time, Times
<1> HIDE DEF cyc, old
<1>9. SamplerTypeOK'
  BY <1>1, <1>3, <1>5, <1>7, <1>8 DEF RingInv, SamplerTypeOK
<1>10. /\ sampler'.at = "looking" /\ sampler'.oldSlot = old /\ sampler'.cycle = cyc
       /\ sampler'.pulse = 0 /\ sampler'.plus = 0 /\ ~sampler'.stickInited
  BY <1>6, <1>7 DEF RingInv, SamplerTypeOK
<1>11. SamplerShape'
  <2>1. old = cyc * PULSE_PER_CYCLE + 0 /\ 0 \in PulseNos
    BY <1>3, <1>4, RingSizes DEF PulseNos
  <2> QED BY <1>3, <1>7, <1>8, <1>10, <2>1 DEF SamplerShape, CycleNos, PulseNos
<1>12. SamplerInStep'
  BY <1>1, <1>2, <1>3, <1>7, <1>8, <1>10 DEF SamplerInStep, WithinLap, cyc
<1>13. SamplesInOrder'
  BY <1>1 DEF RingInv, SamplesInOrder, NoSample, Never, Time
<1> QED BY <1>2, <1>9, <1>11, <1>12, <1>13 DEF RingInv

LEMMA LookKeeps ==
  ASSUME RingInv, Look
  PROVE  RingInv'
<1> DEFINE cyc == CycleOf(dmaNowAtICB)
           new == StartOfCycle(dmaCurrentSlot(dmaNowAtICB))
           d == due.time
<1>1. UNCHANGED <<conblk, lap, levels, ticks>> /\ UNCHANGED <<sample, due, overrun, tickEarly>>
  BY DEF Look
<1>2. EngineInv' /\ cyc' = cyc
  BY <1>1, ThreadLeavesEngine DEF RingInv
<1>3. cyc \in CycleNos /\ lap \in Nat /\ cyc \in Nat
  BY BlockOfCycle, RingSizes DEF RingInv, EngineInv, EngineTypeOK, CycleNos
<1>4. new = cyc * PULSE_PER_CYCLE
  BY CycleStarts DEF RingInv, EngineInv
<1>5. new \in Nat
  BY <1>3, <1>4, RingSizes
<1>6. /\ sampler.at = "looking"
      /\ sampler' = [sampler EXCEPT !.at = "taking", !.numSamples = 0, !.newSlot = new]
  BY DEF Look
<1> HIDE DEF cyc, new
<1>7. SamplerTypeOK'
  BY <1>1, <1>5, <1>6 DEF RingInv, SamplerTypeOK
<1>8. /\ sampler'.at = "taking" /\ sampler'.newSlot = new /\ sampler'.oldSlot = sampler.oldSlot
      /\ sampler'.cycle = sampler.cycle /\ sampler'.pulse = sampler.pulse
      /\ sampler'.plus = sampler.plus /\ sampler'.stickInited = sampler.stickInited
      /\ sampler'.sTick = sampler.sTick
  BY <1>6 DEF RingInv, SamplerTypeOK
<1>9. SamplerShape'
  BY <1>1, <1>6, <1>8 DEF RingInv, SamplerShape, CycleNos, PulseNos
<1>10. SamplerInStep'
  <2> SUFFICES ASSUME ~overrun
               PROVE  /\ WithinLap(d, lap, cyc)
                      /\ sampler.pulse > 0 => Gone(d, lap, cyc)
                      /\ \E n \in CycleNos : /\ new = n * PULSE_PER_CYCLE
                                             /\ sampler.pulse > 0 => n # d.cycle
                                             /\ Reached(d, n, lap, cyc)
                      /\ ~tickEarly /\ sampler.stickInited => sampler.sTick = d
    BY <1>1, <1>2, <1>8 DEF SamplerInStep, WithinLap, Gone, Reached, CycleNos, cyc
  <2>1. /\ WithinLap(d, lap, cyc) /\ (sampler.pulse > 0 => Gone(d, lap, cyc))
        /\ ~tickEarly /\ sampler.stickInited => sampler.sTick = d
    BY <1>6 DEF RingInv, SamplerInStep, cyc
  <2>2. d.lap \in Nat /\ d.cycle \in CycleNos
    BY <1>6 DEF RingInv, SamplerShape
  <2> HIDE DEF d
  <2>3. Reached(d, cyc, lap, cyc) /\ (sampler.pulse > 0 => cyc # d.cycle)
    BY <1>3, <2>1, <2>2, RingSizes DEF WithinLap, Gone, Reached, CycleNos
  <2> QED BY <1>3, <1>4, <2>1, <2>3
<1>11. SamplesInOrder'
  BY <1>1 DEF RingInv, SamplesInOrder, NoSample, Never, Time
<1> QED BY <1>2, <1>7, <1>9, <1>10, <1>11 DEF RingInv

LEMMA PassEndKeeps ==
  ASSUME RingInv, PassEnds
  PROVE  RingInv'
<1> DEFINE cyc == CycleOf(dmaNowAtICB)
<1>1. UNCHANGED <<conblk, lap, levels, ticks>> /\ UNCHANGED <<sample, due, overrun, tickEarly>>
  BY DEF PassEnds
<1>2. EngineInv' /\ cyc' = cyc
  BY <1>1, ThreadLeavesEngine DEF RingInv
<1>3. sampler.at = "taking" /\ sampler' = [sampler EXCEPT !.at = "looking"]
  BY DEF PassEnds
<1>4. SamplerTypeOK'
  BY <1>1, <1>3 DEF RingInv, SamplerTypeOK
<1>5. /\ sampler'.at = "looking" /\ sampler'.oldSlot = sampler.oldSlot
      /\ sampler'.cycle = sampler.cycle /\ sampler'.pulse = sampler.pulse
      /\ sampler'.plus = sampler.plus /\ sampler'.stickInited = sampler.stickInited
      /\ sampler'.sTick = sampler.sTick
  BY <1>3 DEF RingInv, SamplerTypeOK
<1>6. SamplerShape'
  BY <1>1, <1>3, <1>5 DEF RingInv, SamplerShape, CycleNos, PulseNos
<1>7. SamplerInStep'
  BY <1>1, <1>2, <1>3, <1>5 DEF RingInv, SamplerInStep, WithinLap, Gone
<1>8. SamplesInOrder'
  BY <1>1 DEF RingInv, SamplesInOrder, NoSample, Never, Time
<1> QED BY <1>2, <1>4, <1>6, <1>7, <1>8 DEF RingInv

\* The sample is the one that is due, with the tick of its cycle.
LEMMA TakesWhatIsDue ==
  ASSUME RingInv, TakeSample
  PROVE  SamplesInOrder'
<1> DEFINE d == due.time
<1> SUFFICES ASSUME ~overrun', ~tickEarly'
             PROVE  /\ sample'.time = sample'.due /\ sample'.pulse = sample'.nth
                    /\ sample'.kept => sample'.tick = sample'.time /\ sample'.plus = sample'.pulse
  BY DEF SamplesInOrder
<1>1. ~overrun /\ ~tickEarly /\ sample' = Taken
  BY DEF TakeSample
<1>2. Gone(d, lap, CycleOf(dmaNowAtICB))
  BY <1>1, TakesWhatIsGone
<1>3. /\ d.cycle = sampler.cycle /\ d.cycle \in CycleNos /\ sampler.pulse \in PulseNos
      /\ d.lap \in Nat /\ due.pulse = sampler.pulse /\ sampler.plus = sampler.pulse
      /\ sampler.oldSlot = d.cycle * PULSE_PER_CYCLE + sampler.pulse
  BY DEF RingInv, SamplerShape, TakeSample
<1>4. d \in Times
  BY DEF RingInv, SamplerTypeOK
<1>5. myGetLevel(sampler.oldSlot) = [time |-> d, pulse |-> sampler.pulse]
  BY <1>2, <1>3, <1>4, GoneIsStored DEF RingInv
<1>6. sampler.stickInited => sampler.sTick = d
  BY <1>1 DEF RingInv, SamplerInStep
<1> QED BY <1>1, <1>3, <1>5, <1>6 DEF Taken

LEMMA PulseKeeps ==
  ASSUME RingInv, TakeSample, ~CycleEnds
  PROVE  RingInv'
<1> DEFINE cyc == CycleOf(dmaNowAtICB)
           d == due.time
<1>1. UNCHANGED <<conblk, lap, levels, ticks>> /\ UNCHANGED <<overrun, tickEarly>>
  BY DEF TakeSample
<1>2. EngineInv' /\ cyc' = cyc
  BY <1>1, ThreadLeavesEngine DEF RingInv
<1>3. /\ sampler.at = "taking" /\ due' = [due EXCEPT !.pulse = @ + 1]
      /\ sampler' = [sampler EXCEPT !.oldSlot = @ + 1, !.pulse = @ + 1, !.plus = @ + 1,
                                    !.numSamples = @ + 1]
  BY DEF TakeSample
<1>4. SamplerTypeOK'
  <2>1. /\ sampler.oldSlot + 1 \in Nat /\ sampler.pulse + 1 \in Nat /\ sampler.plus + 1 \in Nat
        /\ sampler.numSamples + 1 \in Nat /\ due.pulse + 1 \in Nat
    BY DEF RingInv, SamplerTypeOK
  <2>2. due' \in [time : Times, pulse : Nat]
    BY <1>3, <2>1 DEF RingInv, SamplerTypeOK
  <2>3. sampler' \in [at : {"starting", "looking", "taking"}, oldSlot : Nat, newSlot : Nat,
                     cycle : Nat, pulse : Nat, sTick : Times, plus : Nat,
                     stickInited : BOOLEAN, numSamples : Nat]
    BY <1>3, <2>1 DEF RingInv, SamplerTypeOK
  <2> QED BY <1>1, <2>2, <2>3 DEF RingInv, SamplerTypeOK
<1>5. /\ sampler'.at = "taking" /\ sampler'.oldSlot = sampler.oldSlot + 1
      /\ sampler'.newSlot = sampler.newSlot
      /\ sampler'.cycle = sampler.cycle /\ sampler'.pulse = sampler.pulse + 1
      /\ sampler'.plus = sampler.plus + 1 /\ sampler'.stickInited = sampler.stickInited
      /\ sampler'.sTick = sampler.sTick /\ due'.time = d /\ due'.pulse = due.pulse + 1
  BY <1>3 DEF RingInv, SamplerTypeOK
<1>6. sampler.pulse \in PulseNos /\ sampler.pulse + 1 < PULSE_PER_CYCLE
  BY RingSizes DEF RingInv, SamplerShape, CycleEnds, PulseNos
<1>7. SamplerShape'
  <2>1. sampler.pulse + 1 \in PulseNos
    BY <1>6, RingSizes DEF PulseNos
  <2>2. sampler.oldSlot + 1 = sampler.cycle * PULSE_PER_CYCLE + (sampler.pulse + 1)
    <3> DEFINE before == sampler.cycle * PULSE_PER_CYCLE
    <3>1. before \in Nat /\ sampler.oldSlot = before + sampler.pulse
      BY RingSizes DEF RingInv, SamplerShape, CycleNos
    <3> HIDE DEF before
    <3>2. sampler.oldSlot + 1 = before + (sampler.pulse + 1)
      BY <1>6, <3>1 DEF PulseNos
    <3> QED BY <3>2 DEF before
  <2>3. sampler.cycle \in CycleNos /\ sampler.plus = sampler.pulse /\ due.pulse = sampler.pulse
        /\ d.cycle = sampler.cycle /\ d.lap \in Nat
    BY <1>3 DEF RingInv, SamplerShape
  <2> HIDE DEF d
  <2> QED BY <1>5, <2>1, <2>2, <2>3 DEF SamplerShape, CycleNos, PulseNos
<1>8. SamplerInStep'
  <2> SUFFICES ASSUME ~overrun
               PROVE  /\ WithinLap(d, lap, cyc) /\ Gone(d, lap, cyc)
                      /\ \E n \in CycleNos : /\ sampler.newSlot = n * PULSE_PER_CYCLE
                                             /\ n # d.cycle
                                             /\ Reached(d, n, lap, cyc)
                      /\ ~tickEarly /\ sampler.stickInited => sampler.sTick = d
    BY <1>1, <1>2, <1>5 DEF SamplerInStep, WithinLap, Gone, Reached, CycleNos
  <2>1. WithinLap(d, lap, cyc) /\ (~tickEarly /\ sampler.stickInited => sampler.sTick = d)
    BY <1>3 DEF RingInv, SamplerInStep
  <2> QED BY <2>1, TakesWhatIsGone
<1>9. SamplesInOrder'
  BY TakesWhatIsDue
<1> QED BY <1>2, <1>4, <1>7, <1>8, <1>9 DEF RingInv

LEMMA CycleEndKeeps ==
  ASSUME RingInv, TakeSample, CycleEnds
  PROVE  RingInv'
<1> DEFINE cyc == CycleOf(dmaNowAtICB)
           d == due.time
           e == CycleAfter(d)
           slot == IF NextCycle = 0 THEN 0 ELSE sampler.oldSlot + 1
           tick == myGetTick(NextCycle)
           num == IF sampler.stickInited THEN sampler.numSamples + 1 ELSE 0
<1>1. UNCHANGED <<conblk, lap, levels, ticks>> /\ overrun' = overrun
      /\ tickEarly' = (tickEarly \/ (Now = e /\ Within(dmaNowAtICB) <= 1))
  BY DEF TakeSample
<1>2. EngineInv' /\ cyc' = cyc
  BY <1>1, ThreadLeavesEngine DEF RingInv
<1>3. /\ sampler.at = "taking" /\ due' = [time |-> e, pulse |-> 0]
      /\ sampler' = [sampler EXCEPT !.oldSlot = slot, !.cycle = NextCycle, !.pulse = 0,
                                    !.sTick = tick, !.plus = 0, !.stickInited = TRUE,
                                    !.numSamples = num]
  BY DEF TakeSample
<1>4. /\ sampler.cycle \in CycleNos /\ sampler.pulse \in PulseNos /\ d.cycle = sampler.cycle
      /\ d.lap \in Nat /\ sampler.oldSlot = sampler.cycle * PULSE_PER_CYCLE + sampler.pulse
  BY <1>3 DEF RingInv, SamplerShape
<1>5. d \in Times /\ sampler.oldSlot \in Nat /\ num \in Nat
  BY DEF RingInv, SamplerTypeOK
<1>6. /\ NextCycle \in CycleNos /\ NextCycle = e.cycle /\ e.lap \in Nat /\ e \in Times
      /\ \/ d.cycle = bufferCycles - 1 /\ e.cycle = 0 /\ e.lap = d.lap + 1
         \/ d.cycle < bufferCycles - 1 /\ e.cycle = d.cycle + 1 /\ e.lap = d.lap
  <2> HIDE DEF d
  <2> QED BY <1>4, RingSizes DEF NextCycle, CycleAfter, Time, Times, CycleNos
<1>7. slot = NextCycle * PULSE_PER_CYCLE + 0
  <2>1. CASE NextCycle = 0
    BY <2>1, RingSizes
  <2>2. CASE NextCycle # 0
    <3>1. NextCycle = sampler.cycle + 1 /\ sampler.cycle \in Nat
      BY <1>4, <2>2, RingSizes DEF NextCycle, CycleNos
    <3>2. sampler.pulse + 1 = PULSE_PER_CYCLE
      BY <1>4, RingSizes DEF CycleEnds, PulseNos
    <3>3. (sampler.cycle + 1) * PULSE_PER_CYCLE = sampler.cycle * PULSE_PER_CYCLE + PULSE_PER_CYCLE
          /\ sampler.cycle * PULSE_PER_CYCLE \in Nat
      BY <3>1, RingSizes
    <3> DEFINE before == sampler.cycle * PULSE_PER_CYCLE
               after == (sampler.cycle + 1) * PULSE_PER_CYCLE
    <3>4. /\ after = before + PULSE_PER_CYCLE /\ before \in Nat
          /\ sampler.oldSlot = before + sampler.pulse
      BY <1>4, <3>3
    <3> HIDE DEF before, after
    <3>5. sampler.oldSlot + 1 = after + 0
      BY <1>4, <3>2, <3>4, RingSizes DEF PulseNos
    <3> QED BY <2>2, <3>1, <3>5 DEF after
  <2> QED BY <2>1, <2>2
<1>8. tick \in Times /\ slot \in Nat
  <2>1. tick \in Times
    BY <1>6, TickPlaces DEF myGetTick, RingInv, EngineInv, EngineTypeOK
  <2> QED BY <1>5, <2>1
<1> HIDE DEF slot, tick, num, e
<1>9. SamplerTypeOK'
  <2>1. due' \in [time : Times, pulse : Nat]
    BY <1>3, <1>6
  <2>2. overrun' \in BOOLEAN /\ tickEarly' \in BOOLEAN
    BY <1>1 DEF RingInv, SamplerTypeOK
  <2>3. NextCycle \in Nat
    BY <1>6, RingSizes DEF CycleNos
  <2> QED BY <1>3, <1>5, <1>8, <2>1, <2>2, <2>3 DEF RingInv, SamplerTypeOK
<1>10. /\ sampler'.at = "taking" /\ sampler'.oldSlot = slot /\ sampler'.newSlot = sampler.newSlot
       /\ sampler'.cycle = NextCycle /\ sampler'.pulse = 0 /\ sampler'.plus = 0
       /\ sampler'.sTick = tick /\ due'.time = e /\ due'.pulse = 0
  BY <1>3 DEF RingInv, SamplerTypeOK
<1>11. SamplerShape'
  <2>1. 0 \in PulseNos
    BY RingSizes DEF PulseNos
  <2> QED BY <1>6, <1>7, <1>10, <2>1 DEF SamplerShape, CycleNos, PulseNos
<1>12. SamplerInStep'
  <2> SUFFICES ASSUME ~overrun
               PROVE  /\ WithinLap(e, lap, cyc)
                      /\ \E n \in CycleNos : /\ sampler.newSlot = n * PULSE_PER_CYCLE
                                             /\ Reached(e, n, lap, cyc)
                      /\ ~tickEarly' => tick = e
    BY <1>1, <1>2, <1>10 DEF SamplerInStep, WithinLap, Reached, CycleNos
  <2>1. Gone(d, lap, cyc)
    BY TakesWhatIsGone
  <2>2. PICK n \in CycleNos : /\ sampler.newSlot = n * PULSE_PER_CYCLE /\ n # d.cycle
                              /\ Reached(d, n, lap, cyc)
    BY TakesWhatIsGone
  <2>3. cyc \in CycleNos /\ lap \in Nat
    BY BlockOfCycle DEF RingInv, EngineInv, EngineTypeOK
  <2> HIDE DEF cyc, d
  <2>4. Reached(e, n, lap, cyc)
    BY <1>4, <1>6, <2>2, <2>3, RingSizes DEF Reached, CycleNos
  <2>5. WithinLap(e, lap, cyc) /\ (Gone(e, lap, cyc) \/ (lap = e.lap /\ cyc = e.cycle))
    BY <1>4, <1>6, <2>1, <2>3, RingSizes DEF Gone, WithinLap, CycleNos
  <2>6. ASSUME ~tickEarly' PROVE tick = e
    <3>1. CASE Gone(e, lap, cyc)
      <4>1. myGetTick(e.cycle) = e
        BY <1>6, <3>1, GoneIsStored DEF RingInv, cyc
      <4> QED BY <1>6, <4>1 DEF tick
    <3>2. CASE lap = e.lap /\ cyc = e.cycle
      <4>1. Now = e
        BY <1>6, <3>2 DEF Now, Time, Times, cyc
      <4>2. Within(dmaNowAtICB) > 1
        <5>1. ~(Within(dmaNowAtICB) <= 1)
          BY <1>1, <2>6, <4>1
        <5>2. Within(dmaNowAtICB) \in 0 .. CBS_PER_CYCLE - 1
          BY BlockOfCycle DEF RingInv, EngineInv
        <5> QED BY <5>1, <5>2, RingSizes
      <4>3. myGetTick(cyc) = Now
        BY <4>2, TickIsStored DEF RingInv, cyc
      <4> QED BY <1>6, <3>2, <4>1, <4>3 DEF tick
    <3> QED BY <2>5, <3>1, <3>2
  <2> QED BY <2>2, <2>4, <2>5, <2>6
<1>13. SamplesInOrder'
  BY TakesWhatIsDue
<1> QED BY <1>2, <1>9, <1>11, <1>12, <1>13 DEF RingInv

LEMMA RingInvStep ==
  ASSUME RingInv, [RingNext]_ringVars
  PROVE  RingInv'
<1>1. CASE EngineStep
  BY <1>1, EngineKeeps
<1>2. CASE StartSampling
  BY <1>2, StartKeeps
<1>3. CASE Look
  BY <1>3, LookKeeps
<1>4. CASE TakeSample
  BY <1>4, PulseKeeps, CycleEndKeeps
<1>5. CASE PassEnds
  BY <1>5, PassEndKeeps
<1>6. CASE UNCHANGED ringVars
  <2>1. EngineInv' /\ CycleOf(dmaNowAtICB)' = CycleOf(dmaNowAtICB)
    BY <1>6, ThreadLeavesEngine DEF RingInv, ringVars
  <2>2. SamplerTypeOK' /\ SamplerShape'
    BY <1>6 DEF RingInv, ringVars, SamplerTypeOK, SamplerShape, CycleNos, PulseNos, Never, Time
  <2>3. SamplerInStep'
    BY <1>6, <2>1 DEF RingInv, ringVars, SamplerInStep, WithinLap, Gone, Reached, CycleNos
  <2>4. SamplesInOrder'
    BY <1>6 DEF RingInv, ringVars, SamplesInOrder, NoSample, Never, Time
  <2> QED BY <2>1, <2>2, <2>3, <2>4 DEF RingInv
<1> QED BY <1>1, <1>2, <1>3, <1>4, <1>5, <1>6 DEF RingNext

(* Until the engine comes round to the cycle that the alert thread is at,  *)
(* or the thread reads a tick in the two blocks before it is stored, the   *)
(* thread takes every sample once and in order, around the end of the ring *)
(* and over the pages, and tells each with the tick of its own cycle: for  *)
(* any number of cycles, of pulses in one, of places on a page.            *)
THEOREM SamplesKeptAlways == RingSpec => []SamplesKept
<1>1. RingInv => SamplesKept
  BY DEF RingInv, EngineInv, EngineTypeOK, SamplerTypeOK, SamplesKept, RingTypeOK
<1> QED BY RingInvInit, RingInvStep, <1>1, PTL DEF RingSpec

-----------------------------------------------------------------------------
(***************************************************************************)
(* The glitch filter shows a change only to a level that lasted, for any   *)
(* GPIO, length of a pass and time of the filter.                          *)
(***************************************************************************)
GlitchFilters ==
  [on : BOOLEAN, init : BOOLEAN, R : BOOLEAN, L : BOOLEAN, age : Int]

\* The clock of a filter counts how long the level it reads has lasted.
GlitchInv ==
  /\ glitch \in [AlertGpios -> GlitchFilters] /\ lasted \in [AlertGpios -> 0..steadyUs]
  /\ \A g \in AlertGpios : /\ glitch[g].age = lasted[g]
                           /\ ~ glitch[g].on => glitch[g].age = 0
  /\ ~ unsteady

LEMMA GreatestOf ==
  ASSUME NEW m \in Nat, NEW T \in SUBSET (1..m), T # {}
  PROVE  Max(T) \in T /\ \A y \in T : y <= Max(T)
<1> DEFINE U == {m - x : x \in T}
<1>1. U \in SUBSET Nat /\ U # {}
  OBVIOUS
<1>2. PICK z \in U : \A y \in U : z <= y
  BY <1>1, LeastOf
<1>3. PICK x \in T : z = m - x
  BY <1>2
<1>4. \A y \in T : x >= y
  <2> SUFFICES ASSUME NEW y \in T
               PROVE  x >= y
    OBVIOUS
  <2>1. m - y \in U
    OBVIOUS
  <2>2. m - x <= m - y
    BY <1>2, <1>3, <2>1
  <2> QED
    BY <2>2
<1>5. Max(T) \in T /\ \A y \in T : Max(T) >= y
  BY <1>4 DEF Max
<1>6. PICK w \in T : w = Max(T)
  BY <1>5
<1>7. \A y \in T : y <= w
  <2>1. \A y \in T : w >= y
    BY <1>5, <1>6
  <2> QED
    BY <2>1
<1> QED
  BY <1>6, <1>7

(* a filter runs over the samples of a pass: the recursion has a solution, *)
(* since the shortest pass without one could be had from a shorter one     *)
RunsOver(f, first, bits, n) ==
  f = [i \in 0..n |-> IF i = 0 THEN first ELSE GlitchStep(f[i - 1], bits[i])]

LEMMA RunExists ==
  ASSUME NEW first, NEW bits, NEW n \in Nat
  PROVE  \E f : RunsOver(f, first, bits, n)
<1> DEFINE T == {m \in Nat : ~ \E f : RunsOver(f, first, bits, m)}
<1> SUFFICES ASSUME T # {}
             PROVE  FALSE
  OBVIOUS
<1>1. PICK m \in T : \A y \in T : m <= y
  BY LeastOf
<1>2. m \in Nat /\ ~ \E f : RunsOver(f, first, bits, m)
  OBVIOUS
<1>3. CASE m = 0
  <2> DEFINE f == [i \in 0..0 |-> first]
  <2>1. \A i \in 0..0 : i = 0
    OBVIOUS
  <2>2. f = [i \in 0..0 |-> IF i = 0 THEN first ELSE GlitchStep(f[i - 1], bits[i])]
    BY <2>1
  <2>3. RunsOver(f, first, bits, m)
    BY <1>3, <2>2, Zenon DEF RunsOver
  <2> QED
    BY <1>2, <2>3
<1>4. CASE m # 0
  <2>1. m - 1 \in Nat /\ m - 1 \notin T
    <3>1. m - 1 \in Nat /\ ~(m <= m - 1)
      BY <1>2, <1>4
    <3> QED
      BY <1>1, <3>1
  <2>2. PICK f : RunsOver(f, first, bits, m - 1)
    BY <2>1
  <2> DEFINE h == [i \in 0..m |-> IF i < m THEN f[i] ELSE GlitchStep(f[m - 1], bits[m])]
  <2>3. \A i \in 0..(m - 1) : f[i] = IF i = 0 THEN first ELSE GlitchStep(f[i - 1], bits[i])
    BY <2>2, Zenon DEF RunsOver
  <2>4. \A i \in 0..m : h[i] = IF i = 0 THEN first ELSE GlitchStep(h[i - 1], bits[i])
    <3> SUFFICES ASSUME NEW i \in 0..m
                 PROVE  h[i] = IF i = 0 THEN first ELSE GlitchStep(h[i - 1], bits[i])
      OBVIOUS
    <3>1. i # 0 => i - 1 \in 0..m /\ i - 1 < m
      BY <1>2
    <3>2. i # 0 => h[i - 1] = f[i - 1]
      BY <3>1
    <3>3. CASE i < m
      <4>1. i \in 0..(m - 1)
        BY <1>2, <3>3
      <4> QED
        BY <2>3, <3>2, <3>3, <4>1
    <3>4. CASE i = m
      <4>1. h[i] = GlitchStep(f[m - 1], bits[m]) /\ i # 0
        BY <1>2, <1>4, <3>4
      <4> QED
        BY <3>2, <3>4, <4>1
    <3> QED
      BY <1>2, <3>3, <3>4
  <2>5. h = [i \in 0..m |-> h[i]]
    OBVIOUS
  <2> HIDE DEF h
  <2>6. RunsOver(h, first, bits, m)
    BY <2>4, <2>5 DEF RunsOver
  <2> QED
    BY <1>2, <2>6
<1> QED
  BY <1>3, <1>4

(* the run of the filter of a GPIO that is monitored                       *)
LEMMA GlitchRunIs ==
  ASSUME NEW g \in AlertGpios, glitch[g].on, g \in monitorBits, NEW n \in Nat, NEW read,
         Len(read) = n
  PROVE  /\ GlitchRun(g, read)[0] = GlitchStart(glitch[g], g \in read[1])
         /\ \A i \in 1..n : GlitchRun(g, read)[i] = GlitchStep(GlitchRun(g, read)[i - 1], g \in read[i])
<1> DEFINE first == GlitchStart(glitch[g], g \in read[1])
           run == CHOOSE f : f = [i \in 0..Len(read) |->
                    IF i = 0 THEN first ELSE GlitchStep(f[i - 1], g \in read[i])]
           bits == [i \in 1..n |-> g \in read[i]]
<1>1. GlitchRun(g, read) = run
  BY DEF GlitchRun
<1>2. PICK f : RunsOver(f, first, bits, n)
  BY RunExists
<1>3. \A i \in 0..n : i # 0 => bits[i] = (g \in read[i])
  OBVIOUS
<1>4. f = [i \in 0..Len(read) |-> IF i = 0 THEN first ELSE GlitchStep(f[i - 1], g \in read[i])]
  <2> HIDE DEF bits, first
  <2>1. f = [i \in 0..n |-> IF i = 0 THEN first ELSE GlitchStep(f[i - 1], bits[i])]
    BY <1>2, Zenon DEF RunsOver
  <2>2. \A i \in 0..n : (IF i = 0 THEN first ELSE GlitchStep(f[i - 1], bits[i]))
                        = (IF i = 0 THEN first ELSE GlitchStep(f[i - 1], g \in read[i]))
    BY <1>3
  <2> QED
    BY <2>1, <2>2, Zenon
<1> HIDE DEF first, bits
<1>5. run = [i \in 0..Len(read) |-> IF i = 0 THEN first ELSE GlitchStep(run[i - 1], g \in read[i])]
  BY <1>4, Zenon
<1> HIDE DEF run
<1>6. \A i \in 0..n : run[i] = IF i = 0 THEN first ELSE GlitchStep(run[i - 1], g \in read[i])
  BY <1>5, Zenon
<1>7. 0 \in 0..n /\ \A i \in 1..n : i \in 0..n /\ i # 0
  OBVIOUS
<1>8. run[0] = first
  BY <1>6, <1>7
<1>9. \A i \in 1..n : run[i] = GlitchStep(run[i - 1], g \in read[i])
  BY <1>6, <1>7
<1> QED
  BY <1>1, <1>8, <1>9 DEF first

LEMMA GlitchStarts ==
  ASSUME NEW f \in GlitchFilters, NEW bit \in BOOLEAN, f.age \in 0..steadyUs
  PROVE  LET h == GlitchStart(f, bit) IN
         /\ h \in GlitchFilters /\ h.on = f.on
         /\ f.init => h = f
         /\ ~ f.init => h.L = bit /\ h.R = bit /\ h.age = -1
<1>1. CASE f.init
  BY <1>1 DEF GlitchStart
<1>2. CASE ~ f.init
  <2> DEFINE h == GlitchStart(f, bit)
  <2>1. h = [f EXCEPT !.init = TRUE, !.R = bit, !.L = bit, !.age = -1]
    BY <1>2, Zenon DEF GlitchStart
  <2> HIDE DEF h
  <2>2. h = [on |-> f.on, init |-> TRUE, R |-> bit, L |-> bit, age |-> -1]
    BY <2>1 DEF GlitchFilters
  <2>3. /\ h \in GlitchFilters /\ h.on = f.on /\ h.L = bit /\ h.R = bit /\ h.age = -1
    BY <2>2 DEF GlitchFilters
  <2> QED
    BY <1>2, <2>3 DEF h
<1> QED
  BY <1>1, <1>2

LEMMA GlitchSteps ==
  ASSUME NEW f \in GlitchFilters, NEW bit \in BOOLEAN, f.age \in -1..steadyUs
  PROVE  LET h == GlitchStep(f, bit) IN
         /\ h \in GlitchFilters /\ h.on = f.on /\ h.L = bit /\ h.age \in 0..steadyUs
         /\ h.age = IF bit # f.L THEN 0 ELSE Least2(f.age + 1, steadyUs)
         /\ h.R # f.R => h.age >= steadyUs
<1> DEFINE age == IF bit # f.L THEN 0 ELSE Least2(f.age + 1, steadyUs)
           R == IF age >= steadyUs THEN bit ELSE f.R
           h == GlitchStep(f, bit)
<1>1. age \in 0..steadyUs
  BY AlertsAssumption DEF Least2
<1> HIDE DEF age
<1>2. R \in BOOLEAN /\ (R # f.R => age >= steadyUs)
  BY DEF GlitchFilters
<1>3. h = [f EXCEPT !.L = bit, !.age = age, !.R = R]
  BY Zenon DEF GlitchStep, age
<1> HIDE DEF R, h
<1>4. /\ h \in GlitchFilters /\ h.on = f.on /\ h.L = bit /\ h.age = age /\ h.R = R
  <2>1. h = [on |-> f.on, init |-> f.init, R |-> R, L |-> bit, age |-> age]
    BY <1>3 DEF GlitchFilters
  <2> QED
    BY <1>1, <1>2, <2>1 DEF GlitchFilters
<1> QED
  BY <1>1, <1>2, <1>4 DEF h, age

(* the samples at which the level a filter reads changes, up to sample i   *)
ChangesOf(g, read, i) ==
  {k \in 1..i : g \in monitorBits /\
     IF k = 1 THEN ~ glitch[g].init \/ (g \in read[1]) # glitch[g].L
              ELSE (g \in read[k]) # (g \in read[k - 1])}

LEMMA LastedIs ==
  ASSUME GlitchInv, NEW g \in AlertGpios, NEW read, NEW i \in Nat \ {0}
  PROVE  /\ LastedAt(g, read, i) \in 0..steadyUs
         /\ LastedAt(g, read, i) =
              IF i \in ChangesOf(g, read, i) THEN 0
              ELSE Least2((IF i = 1 THEN lasted[g] ELSE LastedAt(g, read, i - 1)) + 1, steadyUs)
<1> DEFINE S == ChangesOf(g, read, i)
           T == ChangesOf(g, read, i - 1)
           l == lasted[g]
<1>1. l \in 0..steadyUs /\ steadyUs \in Nat \ {0}
  BY AlertsAssumption DEF GlitchInv
<1>2. /\ LastedAt(g, read, i) = Least2(IF S = {} THEN l + i ELSE i - Max(S), steadyUs)
      /\ LastedAt(g, read, i - 1) = Least2(IF T = {} THEN l + (i - 1) ELSE (i - 1) - Max(T), steadyUs)
  BY Zenon DEF LastedAt, ChangesOf
<1>3. S \in SUBSET (1..i) /\ T \in SUBSET (1..(i - 1)) /\ i - 1 \in Nat
  BY DEF ChangesOf
<1>4. \A k \in 1..(i - 1) : k \in S <=> k \in T
  BY DEF ChangesOf
<1> HIDE DEF S, T, l
<1>5. CASE i \in S
  <2>1. PICK m \in S : m = Max(S) /\ \A y \in S : y <= m
    BY <1>3, <1>5, GreatestOf
  <2>2. m = i
    BY <1>3, <1>5, <2>1
  <2>3. LastedAt(g, read, i) = Least2(i - i, steadyUs)
    BY <1>2, <1>5, <2>1, <2>2
  <2>4. LastedAt(g, read, i) = 0
    BY <1>1, <2>3 DEF Least2
  <2> QED
    BY <1>1, <1>5, <2>4 DEF S
<1>6. CASE i \notin S
  <2>1. S = T
    <3>1. \A k \in S : k \in 1..(i - 1)
      BY <1>3, <1>6
    <3>2. \A k \in T : k \in 1..(i - 1)
      BY <1>3
    <3> QED
      BY <1>4, <3>1, <3>2
  <2>2. CASE S = {}
    <3>1. LastedAt(g, read, i) = Least2(l + i, steadyUs) /\ LastedAt(g, read, i - 1) = Least2(l + (i - 1), steadyUs)
      BY <1>2, <2>1, <2>2
    <3>2. /\ Least2(l + i, steadyUs) \in 0..steadyUs
          /\ Least2(l + i, steadyUs) = Least2(Least2(l + (i - 1), steadyUs) + 1, steadyUs)
          /\ i = 1 => Least2(l + i, steadyUs) = Least2(l + 1, steadyUs)
      BY <1>1 DEF Least2
    <3> QED
      BY <1>6, <3>1, <3>2 DEF S, l
  <2>3. CASE S # {}
    <3>1. PICK m \in S : m = Max(S) /\ \A y \in S : y <= m
      BY <1>3, <2>3, GreatestOf
    <3>2. m \in 1..(i - 1) /\ i # 1
      BY <1>3, <2>1
    <3>3. LastedAt(g, read, i) = Least2(i - m, steadyUs) /\ LastedAt(g, read, i - 1) = Least2((i - 1) - m, steadyUs)
      BY <1>2, <2>1, <2>3, <3>1
    <3>4. /\ Least2(i - m, steadyUs) \in 0..steadyUs
          /\ Least2(i - m, steadyUs) = Least2(Least2((i - 1) - m, steadyUs) + 1, steadyUs)
      BY <1>1, <3>2 DEF Least2
    <3> QED
      BY <1>6, <3>2, <3>3, <3>4 DEF S
  <2> QED
    BY <2>2, <2>3
<1> QED
  BY <1>5, <1>6

(* sample by sample, the clock of the filter has counted what has lasted   *)
ClockAt(g, read, i) ==
  LET f == GlitchRun(g, read)[i] IN
  /\ f \in GlitchFilters /\ f.on /\ f.age = LastedAt(g, read, i) /\ f.L = (g \in read[i])

LEMMA ClockRuns ==
  ASSUME GlitchInv, NEW g \in AlertGpios, glitch[g].on, g \in monitorBits, NEW n \in Nat, NEW read,
         Len(read) = n
  PROVE  \A i \in 1..n : ClockAt(g, read, i)
<1> DEFINE run == GlitchRun(g, read)
           T == {i \in 1..n : ~ ClockAt(g, read, i)}
<1>1. /\ run[0] = GlitchStart(glitch[g], g \in read[1])
      /\ \A i \in 1..n : run[i] = GlitchStep(run[i - 1], g \in read[i])
  BY GlitchRunIs
<1>2. /\ glitch[g] \in GlitchFilters /\ glitch[g].age \in 0..steadyUs /\ lasted[g] = glitch[g].age
  BY DEF GlitchInv
<1>3. steadyUs \in Nat \ {0}
  BY AlertsAssumption
<1> SUFFICES ASSUME T # {}
             PROVE  FALSE
  OBVIOUS
<1>4. T \in SUBSET Nat
  OBVIOUS
<1>5. PICK i \in T : \A y \in T : i <= y
  BY <1>4, LeastOf
<1>6. i \in 1..n /\ ~ ClockAt(g, read, i)
  OBVIOUS
<1> DEFINE f == run[i - 1]
           bit == g \in read[i]
<1>7. run[i] = GlitchStep(f, bit) /\ bit \in BOOLEAN
  BY <1>1, <1>6
<1>8. LastedAt(g, read, i) = IF i \in ChangesOf(g, read, i) THEN 0
        ELSE Least2((IF i = 1 THEN lasted[g] ELSE LastedAt(g, read, i - 1)) + 1, steadyUs)
  BY <1>6, LastedIs
<1>9. /\ f \in GlitchFilters /\ f.on /\ f.age \in -1..steadyUs
      /\ LastedAt(g, read, i) = IF bit # f.L THEN 0 ELSE Least2(f.age + 1, steadyUs)
  <2>1. CASE i = 1
    <3>1. f = GlitchStart(glitch[g], g \in read[1])
      BY <1>1, <2>1
    <3> DEFINE b == g \in read[1]
    <3>6. b \in BOOLEAN /\ f = GlitchStart(glitch[g], b)
      BY <3>1
    <3> HIDE DEF b, f
    <3>2. /\ f \in GlitchFilters /\ f.on = glitch[g].on
          /\ glitch[g].init => f = glitch[g]
          /\ ~ glitch[g].init => f.L = b /\ f.age = -1
      BY <1>2, <3>6, GlitchStarts
    <3> USE DEF b
    <3>3. i \in ChangesOf(g, read, i) <=> ~ glitch[g].init \/ (g \in read[1]) # glitch[g].L
      BY <1>6, <2>1 DEF ChangesOf
    <3>4. f.age \in -1..steadyUs
      BY <1>2, <1>3, <3>2
    <3>5. LastedAt(g, read, i) = IF bit # f.L THEN 0 ELSE Least2(f.age + 1, steadyUs)
      <4>1. CASE glitch[g].init
        <5>1. i \in ChangesOf(g, read, i) <=> bit # f.L
          BY <2>1, <3>2, <3>3, <4>1
        <5> QED
          BY <1>2, <1>8, <2>1, <3>2, <4>1, <5>1
      <4>2. CASE ~ glitch[g].init
        <5>1. f.age = -1 /\ f.L = bit /\ i \in ChangesOf(g, read, i)
          BY <2>1, <3>2, <3>3, <4>2
        <5>2. Least2(-1 + 1, steadyUs) = 0
          BY <1>3 DEF Least2
        <5> QED
          BY <1>8, <5>1, <5>2
      <4> QED
        BY <4>1, <4>2
    <3> QED
      BY <3>2, <3>4, <3>5
  <2>2. CASE i # 1
    <3>1. i - 1 \in 1..n /\ ~(i <= i - 1)
      BY <1>6, <2>2
    <3>2. ClockAt(g, read, i - 1)
      BY <1>5, <3>1
    <3>3. /\ f \in GlitchFilters /\ f.on /\ f.age = LastedAt(g, read, i - 1)
          /\ f.L = (g \in read[i - 1])
      BY <3>2, Zenon DEF ClockAt
    <3>4. i \in ChangesOf(g, read, i) <=> bit # f.L
      BY <1>6, <2>2, <3>3 DEF ChangesOf
    <3>5. i - 1 \in Nat \ {0}
      BY <3>1
    <3>6. LastedAt(g, read, i - 1) \in 0..steadyUs
      BY <3>5, LastedIs
    <3>7. f.age \in -1..steadyUs
      BY <1>3, <3>3, <3>6
    <3> HIDE DEF f, bit
    <3> QED
      BY <1>8, <2>2, <3>3, <3>4, <3>7
  <2> QED
    BY <2>1, <2>2
<1> HIDE DEF f, bit
<1> HIDE DEF run, T
<1>10. /\ run[i] \in GlitchFilters /\ run[i].on = f.on /\ run[i].L = bit
       /\ run[i].age = IF bit # f.L THEN 0 ELSE Least2(f.age + 1, steadyUs)
  <2>1. f \in GlitchFilters /\ f.age \in -1..steadyUs /\ bit \in BOOLEAN
    BY <1>7, <1>9
  <2> DEFINE h == GlitchStep(f, bit)
  <2>2. /\ h \in GlitchFilters /\ h.on = f.on /\ h.L = bit
        /\ h.age = IF bit # f.L THEN 0 ELSE Least2(f.age + 1, steadyUs)
    BY ONLY <2>1, GlitchSteps
  <2> QED
    BY <1>7, <2>2, Zenon
<1>11. ClockAt(g, read, i)
  BY <1>9, <1>10 DEF ClockAt, bit, run
<1> QED
  BY <1>6, <1>11

LEMMA ShownChangeLasted ==
  ASSUME GlitchInv, NEW g \in AlertGpios, glitch[g].on, g \in monitorBits, NEW n \in Nat, NEW read,
         Len(read) = n, NEW i \in 1..n,
         i = 1 => glitch[g].init,
         GlitchRun(g, read)[i].R # (IF i = 1 THEN glitch[g].R ELSE GlitchRun(g, read)[i - 1].R)
  PROVE  ~(LastedAt(g, read, i) < steadyUs)
<1> DEFINE run == GlitchRun(g, read)
           f == run[i - 1]
           bit == g \in read[i]
<1>1. steadyUs \in Nat \ {0} /\ LastedAt(g, read, i) \in 0..steadyUs
  BY AlertsAssumption, LastedIs
<1>2. run[i] = GlitchStep(f, bit) /\ bit \in BOOLEAN
  BY GlitchRunIs
<1>3. f \in GlitchFilters /\ f.age \in -1..steadyUs /\ run[i].R # f.R
  <2>1. CASE i = 1
    <3>1. f = GlitchStart(glitch[g], g \in read[1])
      BY <2>1, GlitchRunIs
    <3>2. glitch[g] \in GlitchFilters /\ glitch[g].age \in 0..steadyUs
      BY DEF GlitchInv
    <3> DEFINE b == g \in read[1]
    <3>4. b \in BOOLEAN /\ f = GlitchStart(glitch[g], b) /\ glitch[g].init
      BY <2>1, <3>1
    <3> HIDE DEF b, f
    <3>3. f = glitch[g]
      BY <3>2, <3>4, GlitchStarts
    <3> USE DEF f
    <3> QED
      BY <1>1, <2>1, <3>2, <3>3
  <2>2. CASE i # 1
    <3>1. i - 1 \in 1..n /\ i - 1 \in Nat \ {0}
      BY <2>2
    <3>2. ClockAt(g, read, i - 1)
      BY <3>1, ClockRuns
    <3>3. f \in GlitchFilters /\ f.age = LastedAt(g, read, i - 1)
      BY <3>2, Zenon DEF ClockAt
    <3>4. LastedAt(g, read, i - 1) \in 0..steadyUs
      BY <3>1, LastedIs
    <3>5. f.age \in -1..steadyUs
      BY <1>1, <3>3, <3>4
    <3>6. run[i].R # f.R
      BY <2>2
    <3> QED
      BY <3>3, <3>5, <3>6
  <2> QED
    BY <2>1, <2>2
<1>4. run[i].age >= steadyUs
  <2> HIDE DEF run, f, bit
  <2> QED
    BY <1>2, <1>3, GlitchSteps
<1>5. run[i].age = LastedAt(g, read, i)
  BY ClockRuns DEF ClockAt
<1> QED
  BY <1>1, <1>4, <1>5

LEMMA PassKeepsClocks ==
  ASSUME GlitchInv, NEW n \in Nat \ {0}, NEW read \in [1..n -> SUBSET AlertGpios], AlertPass(read)
  PROVE  GlitchInv'
<1>1. steadyUs \in Nat \ {0}
  BY AlertsAssumption
<1>2. /\ glitch' = [g \in AlertGpios |-> GlitchRun(g, read)[Len(read)]]
      /\ lasted' = [g \in AlertGpios |-> IF glitch[g].on THEN LastedAt(g, read, Len(read)) ELSE 0]
  BY Zenon DEF AlertPass
<1>3. read \in Seq(SUBSET AlertGpios) /\ Len(read) = n
  <2>1. read \in Seq(SUBSET AlertGpios)
    BY SeqDef
  <2>2. Len(read) \in Nat /\ DOMAIN read = 1..Len(read) /\ DOMAIN read = 1..n
    BY <2>1, LenProperties
  <2> QED
    BY <2>1, <2>2
<1>4. ASSUME NEW g \in AlertGpios
      PROVE  /\ glitch'[g] \in GlitchFilters /\ lasted'[g] \in 0..steadyUs
             /\ glitch'[g].age = lasted'[g] /\ (~ glitch'[g].on => glitch'[g].age = 0)
  <2> DEFINE f == glitch[g]
             l == LastedAt(g, read, n)
  <2>1. /\ f \in GlitchFilters /\ f.age \in 0..steadyUs /\ lasted[g] = f.age
        /\ ~ f.on => f.age = 0
    BY DEF GlitchInv
  <2>2. glitch'[g] = GlitchRun(g, read)[n] /\ lasted'[g] = IF f.on THEN l ELSE 0
    BY <1>2, <1>3
  <2>3. l \in 0..steadyUs
    BY LastedIs
  <2> HIDE DEF l
  <2>4. CASE f.on /\ g \in monitorBits
    <3>1. ClockAt(g, read, n)
      BY <1>3, <2>4, ClockRuns
    <3> QED
      BY <2>2, <2>3, <2>4, <3>1 DEF ClockAt, l
  <2>5. CASE f.on /\ g \notin monitorBits
    <3>1. GlitchRun(g, read) = [i \in 0..Len(read) |-> Idle(f, i)]
      BY <2>5 DEF GlitchRun
    <3>2. glitch'[g] = Idle(f, n)
      BY <1>3, <2>2, <3>1
    <3>3. glitch'[g] = [f EXCEPT !.age = Least2(@ + n, steadyUs)]
      BY <2>5, <3>2 DEF Idle
    <3>4. l = Least2(f.age + n, steadyUs)
      <4>1. ChangesOf(g, read, n) = {}
        BY <2>5 DEF ChangesOf
      <4> QED
        BY <2>1, <4>1 DEF l, LastedAt, ChangesOf
    <3> HIDE DEF f
    <3>5. glitch'[g] = [f EXCEPT !.age = l]
      BY <2>1, <3>3, <3>4
    <3>6. glitch'[g] = [on |-> f.on, init |-> f.init, R |-> f.R, L |-> f.L, age |-> l]
      BY <2>1, <3>5 DEF GlitchFilters
    <3> QED
      BY <2>1, <2>2, <2>3, <2>5, <3>6 DEF GlitchFilters
  <2>6. CASE ~ f.on
    <3>1. GlitchRun(g, read) = [i \in 0..Len(read) |-> Idle(f, i)]
      BY <2>6 DEF GlitchRun
    <3>2. glitch'[g] = f
      BY <1>3, <2>2, <2>6, <3>1 DEF Idle
    <3> QED
      BY <1>1, <2>1, <2>2, <2>6, <3>2
  <2> QED
    BY <2>4, <2>5, <2>6
<1>5. ~ unsteady'
  <2> DEFINE calm == Deglitched(read)
  <2>1. unsteady' <=> (unsteady \/
             \E g \in AlertGpios, i \in 1..n :
                 /\ glitch[g].on /\ glitch[g].init /\ g \in monitorBits
                 /\ (g \in calm[i]) # (IF i = 1 THEN glitch[g].R ELSE g \in calm[i - 1])
                 /\ LastedAt(g, read, i) < steadyUs)
    BY <1>3, Zenon DEF AlertPass
  <2> SUFFICES ASSUME NEW g \in AlertGpios, NEW i \in 1..n,
                      glitch[g].on, glitch[g].init, g \in monitorBits,
                      (g \in calm[i]) # (IF i = 1 THEN glitch[g].R ELSE g \in calm[i - 1])
               PROVE  ~(LastedAt(g, read, i) < steadyUs)
    BY <2>1 DEF GlitchInv
  <2>2. ASSUME NEW k \in 1..n
        PROVE  (g \in calm[k]) = GlitchRun(g, read)[k].R
    <3>1. calm[k] = {x \in AlertGpios : IF glitch[x].on /\ x \in monitorBits
                                       THEN GlitchRun(x, read)[k].R ELSE x \in read[k]}
      BY <1>3 DEF Deglitched
    <3>2. g \in calm[k] <=> GlitchRun(g, read)[k].R
      BY <3>1, Zenon
    <3>3. ClockAt(g, read, k)
      BY <1>3, ClockRuns
    <3>4. GlitchRun(g, read)[k].R \in BOOLEAN
      BY <3>3 DEF ClockAt, GlitchFilters
    <3> HIDE DEF calm
    <3> QED
      BY <3>2, <3>4
  <2> HIDE DEF calm
  <2>3. GlitchRun(g, read)[i].R # (IF i = 1 THEN glitch[g].R ELSE GlitchRun(g, read)[i - 1].R)
    <3>1. CASE i = 1
      BY <2>2, <3>1
    <3>2. CASE i # 1
      <4>1. i - 1 \in 1..n
        BY <3>2
      <4> QED
        BY <2>2, <3>2, <4>1
    <3> QED
      BY <3>1, <3>2
  <2> QED
    BY <1>3, <2>3, ShownChangeLasted
<1>6. glitch' \in [AlertGpios -> GlitchFilters] /\ lasted' \in [AlertGpios -> 0..steadyUs]
  <2>1. glitch' = [g \in AlertGpios |-> glitch'[g]] /\ lasted' = [g \in AlertGpios |-> lasted'[g]]
    BY <1>2, Zenon
  <2> QED
    BY <1>4, <2>1, Zenon
<1> QED
  BY <1>4, <1>5, <1>6 DEF GlitchInv

LEMMA FilterSet ==
  ASSUME GlitchInv, NEW g \in AlertGpios, gpioGlitchFilter(g)
  PROVE  GlitchInv'
<1> DEFINE old == glitch[g]
           f == IF old.on THEN [old EXCEPT !.on = FALSE, !.age = 0]
                ELSE [old EXCEPT !.on = TRUE, !.age = 0, !.init = FALSE]
<1>1. lasted' = [lasted EXCEPT ![g] = 0] /\ unsteady' = unsteady
  BY DEF gpioGlitchFilter, SamplesUnchanged
<1>2. glitch' = [glitch EXCEPT ![g] = f]
  BY DEF gpioGlitchFilter, GlitchInv
<1>3. old \in GlitchFilters
  BY DEF GlitchInv
<1> HIDE DEF old
<1>4. f \in GlitchFilters /\ f.age = 0
  <2>1. CASE old.on
    <3>1. f = [on |-> FALSE, init |-> old.init, R |-> old.R, L |-> old.L, age |-> 0]
      BY <1>3, <2>1 DEF GlitchFilters
    <3> HIDE DEF f
    <3> QED
      BY <1>3, <3>1 DEF GlitchFilters
  <2>2. CASE ~ old.on
    <3>1. f = [on |-> TRUE, init |-> FALSE, R |-> old.R, L |-> old.L, age |-> 0]
      BY <1>3, <2>2 DEF GlitchFilters
    <3> HIDE DEF f
    <3> QED
      BY <1>3, <3>1 DEF GlitchFilters
  <2> QED
    BY <2>1, <2>2
<1> HIDE DEF f
<1> QED
  BY <1>1, <1>2, <1>4, AlertsAssumption DEF GlitchInv

(* Whatever is monitored, set and cleared, and whatever levels are         *)
(* sampled: what a glitch filter shows of a GPIO changes only to a level   *)
(* that has lasted for as long as it asks for, but for the first sample    *)
(* that the filter sees.                                                   *)
THEOREM GlitchesAlwaysIgnored ==
  AlertsSpec => []GlitchesAreIgnored
<1>1. AlertsInit => GlitchInv
  <2> SUFFICES ASSUME AlertsInit
               PROVE  GlitchInv
    OBVIOUS
  <2>1. NoGlitchFilter \in GlitchFilters /\ NoGlitchFilter.age = 0
    BY DEF NoGlitchFilter, GlitchFilters
  <2> QED
    BY <2>1, AlertsAssumption DEF AlertsInit, GlitchInv
<1>2. GlitchInv /\ [AlertsNext]_alertVars => GlitchInv'
  <2> SUFFICES ASSUME GlitchInv, [AlertsNext]_alertVars
               PROVE  GlitchInv'
    OBVIOUS
  <2>1. CASE \E read \in Bursts : AlertPass(read)
    <3>1. PICK read \in Bursts : AlertPass(read)
      BY <2>1
    <3>2. PICK n \in 1..Burst : read \in [1..n -> SUBSET AlertGpios]
      BY DEF Bursts
    <3>3. n \in Nat \ {0}
      BY AlertsAssumption
    <3> QED
      BY <3>1, <3>2, <3>3, PassKeepsClocks
  <2>2. CASE \E g \in AlertGpios : gpioGlitchFilter(g)
    BY <2>2, FilterSet
  <2>3. CASE UNCHANGED <<glitch, lasted, unsteady>>
    BY <2>3 DEF GlitchInv
  <2>4. CASE UNCHANGED alertVars
    BY <2>3, <2>4 DEF alertVars
  <2>5. CASE EmptyPass
    BY <2>3, <2>5 DEF EmptyPass
  <2>6. CASE \E g \in AlertGpios : intGpioSetAlertFunc(g) \/ gpioSetWatchdog(g) \/ gpioNoiseFilter(g)
    BY <2>3, <2>6 DEF intGpioSetAlertFunc, gpioSetWatchdog, gpioNoiseFilter, EmissionUnchanged,
                      SamplesUnchanged
  <2>7. CASE \E bits \in SUBSET AlertGpios :
               Watch(bits) \/ AwaitChange(bits) \/ gpioSetGetSamplesFunc(bits)
    BY <2>3, <2>7 DEF Watch, AwaitChange, gpioSetGetSamplesFunc, EmissionUnchanged, SamplesUnchanged
  <2> QED
    BY <2>1, <2>2, <2>4, <2>5, <2>6, <2>7 DEF AlertsNext
<1>3. GlitchInv => GlitchesAreIgnored
  BY DEF GlitchInv, GlitchesAreIgnored
<1> QED
  BY <1>1, <1>2, <1>3, PTL DEF AlertsSpec
=============================================================================
