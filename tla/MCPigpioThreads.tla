-------------------------- MODULE MCPigpioThreads --------------------------
(* The parts of pigpio in which threads meet, side by side for TLC: the life of
   the library and its memory, scripts, notifications, samples, alerts and serial
   reads, and the calls of a client.  They share no state here, so a behaviour runs one of
   them, which `family` names, and leaves the others as they begin.  "script" is one script,
   which waits for anything; "listen", "glitch", "noise" and "wdog" are the alert
   thread with a feature of it in use.                                        *)
EXTENDS Library, DmaMemory, Scripts, Notifications, SamplingRing, Alerts, SerialRead,
        SocketLink

CONSTANT Families
VARIABLE family

threadsVars == <<family, libVars, memoryVars, scriptVars, notifyVars, ringVars, alertVars,
                 serialVars, linkVars>>

MCConfigurations == {{}, {"alert"}, {"fifo", "socket"}}
Features == {"listen", "glitch", "noise", "wdog"}
Sampled == IF family = "listen" THEN AlertGpios ELSE {1}

ThreadsInit ==
  /\ family \in Families
  /\ LibraryInit /\ (family = "library" \/ disabled = {})
  /\ MemoryInit /\ (family = "memory" \/ memAllocMode = "mailbox")
  /\ ScriptsInit /\ NotificationsInit /\ RingInit
  /\ AlertsInit /\ (family \in Features \/ reportedLevel = {})
  /\ SerialInit /\ (family = "serial" \/ rx.invert = 0)
  /\ SocketInit

\* The functions of the client libraries and of pigs, but for three that do
\* something else than they are said to do.
Misdirected == {"notify_pause", "i2c_process_call", "event_trigger"}
CallsOf(table) == {table[f] : f \in DOMAIN table \ Misdirected}
MCFunctions == CallsOf(if2Calls) \union CallsOf(ifCalls) \union CallsOf(pigsCalls)

\* Those that are left keep to what the connection relies on.
ASSUME FunctionsMatch == FunctionsAgree

\* A pass over some samples, and the calls of the feature.
FeatureNext ==
  /\ ~garbled
  /\ \/ \E n \in 1..Burst : \E read \in [1..n -> SUBSET Sampled] : AlertPass(read)
     \/ intGpioSetAlertFunc(1)
     \/ /\ family = "listen"
        /\ \/ EmptyPass
           \/ \E bits \in {{}, AlertGpios} : Watch(bits)
           \/ AwaitChange({1})
           \/ \E bits \in {{}, {2}} : gpioSetGetSamplesFunc(bits)
     \/ family = "glitch" /\ gpioGlitchFilter(1)
     \/ family = "noise" /\ gpioNoiseFilter(1)
     \/ family = "wdog" /\ gpioSetWatchdog(1)

\* Notifications of the changes of a GPIO, with a connection beside the API; and, by
\* the API alone, also of events.
Notifiers == {"notify", "monitor"}
ChangesOnly == ~emitter'.event /\ \A h \in NotifySlots : ~notify'[h].eventBits
NoConnection == \A s \in Sockets : request'[s] = IdleRequest /\ \A fd \in NotifyFds : ~Carries(s, fd)'

\* The other threads of the process use one area and one descriptor, any of which the
\* library may have had.
Highest(S) == CHOOSE x \in S : \A y \in S : y <= x
FewOthers == theirs' \subseteq {Highest(Areas)} /\ theirFds' \subseteq {Highest(MemoryFds)}

\* The memory stops once other threads map and open during a start or a stop,
\* notifications once two threads have met where nothing keeps them apart, samples
\* once the engine has come round or a tick was read too early, alerts
\* once a pass without samples has read what it may not.
ThreadsNext ==
  /\ UNCHANGED family
  /\ IF family = "library" THEN LibraryNext ELSE UNCHANGED libVars
  /\ IF family = "memory" THEN quiet /\ MemoryNext /\ FewOthers ELSE UNCHANGED memoryVars
  /\ IF family = "script" THEN ScriptsNext ELSE UNCHANGED scriptVars
  /\ \/ family = "notify" /\ ~mingled /\ NotificationsNext /\ ChangesOnly
     \/ family = "monitor" /\ ~mingled /\ NotificationsNext /\ NoConnection
     \/ family \notin Notifiers /\ UNCHANGED notifyVars
  /\ IF family = "sampling" THEN ~overrun /\ ~tickEarly /\ RingNext ELSE UNCHANGED ringVars
  /\ IF family \in Features THEN FeatureNext ELSE UNCHANGED alertVars
  /\ IF family = "serial" THEN SerialNext ELSE UNCHANGED serialVars
  /\ IF family = "calls" THEN SocketNext ELSE UNCHANGED linkVars

\* Calls under way go on and every thread is scheduled, in the part that runs.
ThreadsFairness ==
  /\ WF_libVars(family = "library" /\ (InitStage \/ AlertSeen \/ ReleaseStage \/ JoinThread))
  /\ \A t \in Interfaces : WF_libVars(family = "library" /\ LeaveSpin(t))
  /\ WF_libVars(family = "library" /\ AlertReady)
  /\ \A t \in Joined : WF_libVars(family = "library" /\ t \in cancelled /\ EndThread(t))
  /\ WF_scriptVars(family = "script" /\ ScriptThread(0))
  /\ WF_scriptVars(family = "script" /\ ThreadEnds(0))
  /\ WF_scriptVars(family = "script" /\ Delete)
  /\ WF_scriptVars(family = "script" /\ Glance(0))
  /\ WF_scriptVars(family = "script" /\ Wake(0))
  /\ WF_notifyVars(family \in Notifiers /\ ~mingled /\ Pass)
  /\ WF_notifyVars(family \in Notifiers /\ ~mingled /\ AlertStep)
  /\ WF_linkVars(family = "calls" /\ Serve)
  /\ \A t \in Clients : /\ WF_linkVars(family = "calls" /\ CallStep(t))
                         /\ SF_linkVars(family = "calls" /\ pml(t))

ThreadsSpec == ThreadsInit /\ [][ThreadsNext]_threadsVars /\ ThreadsFairness

\* A client's call; the threads of a client are alike.
Calling == LET t == CHOOSE x \in Clients : TRUE IN client[t].pc \notin {"outside", "ended"}

\* What was begun ends: gpioInitialise and gpioTerminate return, whichever stage
\* fails; gpioDeleteScript returns, wherever its script is; a notification that
\* was closed, or whose reader failed, gives its slot back; a client's call
\* returns, whatever becomes of the connection and of the threads that share it.
Unfinished == LibraryBusy \/ Deleting \/ SlotClosing \/ Calling
CallsReturn == Unfinished ~> ~Unfinished

\* And what was asked for comes about: a script that is told to stop halts.
RequestsEnd == CallsReturn /\ StopHaltsScript
=============================================================================
