------------------------------- MODULE Alerts -------------------------------
(***************************************************************************)
(* What the alert thread of pigpio.c (pthAlertThread, alertEmit) makes of  *)
(* the sampled levels: filters, compaction to the samples that differ, and *)
(* emission to alert functions, to a notification that runs, to scripts    *)
(* that wait, and to watchdogs.                                            *)
(*                                                                         *)
(* A level is the set of the GPIO that are high.  Time counts samples: one *)
(* sample lasts clockMicros.  A pass is one step; what runs between its    *)
(* parts is the subject of Notifications and Scripts.                      *)
(***************************************************************************)
EXTENDS Integers, Sequences, FiniteSets, SequencesExt

CONSTANTS
    AlertGpios,     \* 0 .. PI_MAX_USER_GPIO
    MAX_REPORT,     \* the reports emitted together
    Burst,          \* bound: the samples of a pass
    steadyUs,       \* of the filters, in samples
    activeUs,       \* of the noise filter, in samples
    timeoutUs       \* of the watchdogs, in samples

ASSUME AlertsAssumption ==
    /\ IsFiniteSet(AlertGpios)
    /\ MAX_REPORT \in Nat \ {0} /\ Burst \in Nat \ {0}
    /\ steadyUs \in Nat \ {0} /\ activeUs \in Nat /\ timeoutUs \in Nat \ {0}

VARIABLES
    alertBits,      \* the GPIO with an alert function
    watched,        \* the bits of the running notification
    waitBits,       \* the GPIO the waiting script waits for
    sampleBits,     \* gpioGetSamples.bits
    oldLevel,       \* of pthAlertThread
    reportedLevel,
    glitch, noise,  \* the filters of each GPIO
    wdog,           \* the watchdog of each GPIO: wdTick counted back from now
    masked,         \* history: the GPIO the last pass monitored
    unsure,         \* history: the GPIO whose fall may not have been told
    shown,          \* history: the last sample after the filters
    told,           \* history: the level the alert functions and the reader were told last
    since,          \* history: how long ago each GPIO last changed, after the filters
    garbled,        \* history: a pass without samples read outside the array
    repeated,       \* history: a level was told twice in a row
    misled,         \* history: a script was woken though no GPIO it waits for changed
    early,          \* history: a watchdog fired within its time of a change
    lasted,         \* history: how long the level a glitch filter reads has lasted
    unsteady        \* history: a change was shown of a level that was not steady

alertVars == <<alertBits, watched, waitBits, sampleBits, oldLevel, reportedLevel, glitch,
               noise, wdog, masked, unsure, shown, told, since, garbled, repeated, misled, early,
               lasted, unsteady>>

monitorBits == alertBits \cup watched \cup waitBits \cup sampleBits

NoGlitchFilter == [on |-> FALSE, init |-> FALSE, R |-> FALSE, L |-> FALSE, age |-> 0]
NoNoiseFilter == [on |-> FALSE, active |-> FALSE, tick1 |-> 0, left |-> 0, R |-> FALSE, L |-> FALSE]

AlertsTypeOK ==
    /\ {alertBits, watched, waitBits, sampleBits, oldLevel, reportedLevel, masked, unsure, shown,
        told.alert, told.note} \subseteq SUBSET AlertGpios
    /\ glitch \in [AlertGpios -> [on : BOOLEAN, init : BOOLEAN, R : BOOLEAN, L : BOOLEAN,
                                  age : 0 .. steadyUs]]
    /\ noise \in [AlertGpios -> [on : BOOLEAN, active : BOOLEAN, tick1 : 0 .. steadyUs,
                                 left : 0 .. activeUs, R : BOOLEAN, L : BOOLEAN]]
    /\ wdog \in [AlertGpios -> [on : BOOLEAN, age : -1 .. timeoutUs, L : BOOLEAN, fresh : BOOLEAN]]
    /\ since \in [AlertGpios -> 0 .. timeoutUs] /\ lasted \in [AlertGpios -> 0 .. steadyUs]

AlertsInit ==
    /\ alertBits = {} /\ watched = {} /\ waitBits = {} /\ sampleBits = {}
    /\ oldLevel = {} /\ masked = {} /\ unsure = {}
    /\ reportedLevel \in SUBSET AlertGpios /\ shown = reportedLevel
    /\ glitch = [g \in AlertGpios |-> NoGlitchFilter]
    /\ noise = [g \in AlertGpios |-> NoNoiseFilter]
    /\ wdog = [g \in AlertGpios |-> [on |-> FALSE, age |-> 0, L |-> FALSE, fresh |-> FALSE]]
    /\ told = [alert |-> {}, note |-> {}]
    /\ since = [g \in AlertGpios |-> timeoutUs] /\ lasted = [g \in AlertGpios |-> 0]
    /\ garbled = FALSE /\ repeated = FALSE /\ misled = FALSE /\ early = FALSE /\ unsteady = FALSE

Differ(A, B) == (A \ B) \cup (B \ A)
Least2(a, b) == IF a < b THEN a ELSE b

(***************************************************************************)
(* The filters.  Each runs over the samples of a pass, for the GPIO that   *)
(* are monitored and have the filter; then the sample shows R, the level   *)
(* reported, instead of the level read.                                    *)
(***************************************************************************)
\* (mutant: the clock of the filter does not start again)
GlitchStepOn(f, bit) ==
    LET age == Least2(f.age + 1, steadyUs) IN
    [f EXCEPT !.L = bit, !.age = age, !.R = IF age >= steadyUs THEN bit ELSE @]
\* alertGlitchFilter: R follows a level that lasted.
GlitchStep(f, bit) ==
    LET age == IF bit # f.L THEN 0 ELSE Least2(f.age + 1, steadyUs) IN
    [f EXCEPT !.L = bit, !.age = age, !.R = IF age >= steadyUs THEN bit ELSE @]

\* The first sample the filter sees is its level and starts its clock.
GlitchStart(f, bit) ==
    IF f.init THEN f ELSE [f EXCEPT !.init = TRUE, !.R = bit, !.L = bit, !.age = -1]

\* alertNoiseFilter: a change of a level that lasted opens a window in which
\* all changes are shown.
NoiseStep(f, bit) ==
    LET left == IF f.left > 0 THEN f.left - 1 ELSE 0
        tick1 == Least2(f.tick1 + 1, steadyUs)
        opens == ~ f.active /\ bit # f.L /\ tick1 >= steadyUs
    IN [f EXCEPT !.L = bit,
                 !.active = opens \/ (f.active /\ left > 0),
                 !.left = IF opens THEN activeUs ELSE left,
                 !.tick1 = IF f.active THEN (IF left = 0 THEN 0 ELSE tick1)
                           ELSE IF bit # f.L THEN 0 ELSE tick1,
                 !.R = IF opens THEN f.L ELSE @]

\* A filter whose GPIO is not monitored sees nothing, and time goes by.
Idle(f, n) == IF f.on THEN [f EXCEPT !.age = Least2(@ + n, steadyUs)] ELSE f
IdleNoise(f, n) ==
    IF f.on THEN [f EXCEPT !.tick1 = Least2(@ + n, steadyUs), !.left = IF @ > n THEN @ - n ELSE 0]
    ELSE f

\* The states a filter goes through during the pass.
GlitchRun(g, levels) ==
    LET run[i \in 0 .. Len(levels)] ==
          IF i = 0 THEN GlitchStart(glitch[g], g \in levels[1])
          ELSE GlitchStep(run[i - 1], g \in levels[i])
    IN IF glitch[g].on /\ g \in monitorBits THEN run
       ELSE [i \in 0 .. Len(levels) |-> Idle(glitch[g], i)]
NoiseRun(g, levels) ==
    LET run[i \in 0 .. Len(levels)] ==
          IF i = 0 THEN noise[g] ELSE NoiseStep(run[i - 1], g \in levels[i])
    IN IF noise[g].on /\ g \in monitorBits THEN run
       ELSE [i \in 0 .. Len(levels) |-> IdleNoise(noise[g], i)]

Deglitched(levels) ==
    [i \in 1 .. Len(levels) |-> {g \in AlertGpios :
        IF glitch[g].on /\ g \in monitorBits THEN GlitchRun(g, levels)[i].R ELSE g \in levels[i]}]
Denoised(levels) ==
    [i \in 1 .. Len(levels) |-> {g \in AlertGpios :
        IF noise[g].on /\ g \in monitorBits /\ ~ NoiseRun(g, levels)[i].active
        THEN NoiseRun(g, levels)[i].R ELSE g \in levels[i]}]

(***************************************************************************)
(* Compaction and emission                                                 *)
(***************************************************************************)
\* The samples that differ from the one before in a GPIO that is monitored.
Before(levels, i) == IF i = 1 THEN oldLevel ELSE levels[i - 1]
Changes(levels, i) == Differ(levels[i] \cap monitorBits, Before(levels, i) \cap monitorBits)
Kept(levels) == SelectSeq([i \in 1 .. Len(levels) |-> i], LAMBDA i : Changes(levels, i) # {})

\* They are emitted MAX_REPORT at a time, and what is left, even nothing, last.
Chunks(kept) ==
    [c \in 1 .. (Len(kept) \div MAX_REPORT) + 1 |->
        SubSeq(kept, (c - 1) * MAX_REPORT + 1, Least2(c * MAX_REPORT, Len(kept)))]

\* oldLevel has no level of a GPIO that was not monitored: one that was high
\* and is low in the first sample seems not to have changed.
Unsure == (unsure \cup (reportedLevel \ masked)) \cap monitorBits

\* A listener compares each sample with the one before, the first one with
\* reportedLevel, and tells of the bits that differ.
Hear(acc, level, bits) ==
    LET news == Differ(level \cap bits, acc.old) IN
    [old |-> level \cap bits,
     told |-> (acc.told \ news) \cup (level \cap news),
     twice |-> acc.twice \/ \E g \in news \ Unsure : (g \in level) = (g \in acc.told)]
Listen(chunk, levels, bits, reported, heard, changed) ==
    IF changed \cap bits = {} THEN [old |-> {}, told |-> heard, twice |-> FALSE]
    ELSE FoldLeft(LAMBDA acc, i : Hear(acc, levels[i], bits),
                  [old |-> reported \cap bits, told |-> heard, twice |-> FALSE], chunk)

\* alertWdogCheck: the last report that differs from the one before.
Rebase(w, g, chunk, levels) ==
    FoldLeft(LAMBDA acc, i :
                IF (g \in levels[i]) = acc.L THEN acc
                ELSE [acc EXCEPT !.L = g \in levels[i], !.age = -i],
             w, chunk)

\* When a GPIO that is monitored last changed, up to sample i, counted back
\* from the pass.
ChangedAt(g, levels, i) ==
    LET at == {k \in 1 .. i : IF k = 1 THEN g \in masked /\ (g \in levels[1]) # (g \in shown)
                              ELSE (g \in levels[k]) # (g \in levels[k - 1])}
    IN IF at = {} THEN -since[g] ELSE CHOOSE k \in at : \A j \in at : j <= k

\* One call of alertEmit, after the watchdogs are rebased.  In it, age is the
\* distance from wdTick to the start of the pass.
Emit(s, levels, chunk, last, eTick) ==
    LET changed == UNION {Changes(levels, i) : i \in ToSet(chunk)}
        a == Listen(chunk, levels, alertBits, s.reported, s.told.alert, changed)
        n == Listen(chunk, levels, watched, s.reported, s.told.note, changed)
        rebased == [g \in AlertGpios |->
                      IF s.wdog[g].on /\ g \in monitorBits THEN Rebase(s.wdog[g], g, chunk, levels)
                      ELSE s.wdog[g]]
        timeouts == {g \in AlertGpios : rebased[g].on /\ eTick + rebased[g].age >= timeoutUs}
        woken == changed \cap s.waits # {}
    IN [s EXCEPT
          !.reported = IF chunk = <<>> THEN @ ELSE levels[Last(chunk)],
          !.told = [alert |-> a.told, note |-> n.told],
          !.twice = @ \/ a.twice \/ n.twice,
          !.wdog = [g \in AlertGpios |->
                      IF g \in timeouts THEN [rebased[g] EXCEPT !.age = -eTick] ELSE rebased[g]],
          !.early = @ \/ \E g \in timeouts \cap monitorBits :
                            /\ rebased[g].fresh
                            /\ eTick - ChangedAt(g, levels, last) < timeoutUs,
          !.waits = IF woken THEN {} ELSE @,
          !.misled = @ \/ (/\ woken /\ s.waits \subseteq masked
                          /\ \A g \in s.waits, i \in 1 .. last :
                               (g \in levels[i]) = (g \in (IF i = 1 THEN shown ELSE levels[i - 1])))]

\* All the calls of a pass: eTick is the last report's, then the next sample's.
EmitAll(levels) ==
    LET chunks == Chunks(Kept(levels))
        n == Len(levels)
    IN FoldLeft(LAMBDA s, c :
                    IF c = Len(chunks) THEN Emit(s, levels, chunks[c], n, n + 1)
                    ELSE Emit(s, levels, chunks[c], Last(chunks[c]), Last(chunks[c])),
                [reported |-> reportedLevel, told |-> told, twice |-> FALSE, wdog |-> wdog,
                 early |-> FALSE, waits |-> waitBits, misled |-> FALSE],
                [c \in 1 .. Len(chunks) |-> c])

\* How long the level of a GPIO with a glitch filter has lasted at sample i: time
\* in which the GPIO is not monitored counts for the level it had.
LastedAt(g, read, i) ==
    LET at == {k \in 1 .. i : g \in monitorBits /\
                 IF k = 1 THEN ~ glitch[g].init \/ (g \in read[1]) # glitch[g].L
                          ELSE (g \in read[k]) # (g \in read[k - 1])}
    IN Least2(IF at = {} THEN lasted[g] + i ELSE i - Max(at), steadyUs)

\* A pass with samples.
AlertPass(read) ==
    LET calm == Deglitched(read)
        levels == Denoised(calm)
        n == Len(read)
        done == EmitAll(levels)
    IN /\ oldLevel' = levels[n] \cap monitorBits
       /\ reportedLevel' = levels[n]
       /\ shown' = levels[n] /\ masked' = monitorBits
       /\ unsure' = Unsure \ levels[n]
       /\ glitch' = [g \in AlertGpios |-> GlitchRun(g, read)[n]]
       /\ noise' = [g \in AlertGpios |-> NoiseRun(g, calm)[n]]
       /\ wdog' = [g \in AlertGpios |->
                      IF ~ wdog[g].on THEN wdog[g]
                      ELSE [done.wdog[g] EXCEPT !.age = Least2(@ + n, timeoutUs),
                                                !.fresh = /\ g \in monitorBits
                                                          /\ done.wdog[g].L = (g \in levels[n])]]
       /\ since' = [g \in AlertGpios |->
                       IF g \in monitorBits /\ wdog[g].on /\ wdog[g].fresh
                       THEN Least2(n - ChangedAt(g, levels, n), timeoutUs) ELSE timeoutUs]
       /\ lasted' = [g \in AlertGpios |-> IF glitch[g].on THEN LastedAt(g, read, n) ELSE 0]
       /\ told' = done.told
       /\ waitBits' = done.waits
       /\ repeated' = (repeated \/ done.twice)
       /\ misled' = (misled \/ done.misled)
       /\ early' = (early \/ done.early)
       /\ unsteady' = (unsteady \/
             \E g \in AlertGpios, i \in 1 .. n :
                 /\ glitch[g].on /\ glitch[g].init /\ g \in monitorBits
                 /\ (g \in calm[i]) # (IF i = 1 THEN glitch[g].R ELSE g \in calm[i - 1])
                 /\ LastedAt(g, read, i) < steadyUs)
       /\ UNCHANGED <<alertBits, watched, sampleBits, garbled>>

\* A pass before the DMA has sampled anything: the level reported is read
\* before the start of the array, and is anything.
EmptyPass ==
    /\ oldLevel' = oldLevel \cap monitorBits
    /\ \E level \in SUBSET AlertGpios : reportedLevel' = level
    /\ garbled' = TRUE /\ masked' = monitorBits /\ unsure' = Unsure
    /\ UNCHANGED <<alertBits, watched, waitBits, sampleBits, glitch, noise, wdog, shown, told,
                   since, repeated, misled, early, lasted, unsteady>>

(***************************************************************************)
(* The calls that set what is monitored                                    *)
(***************************************************************************)
SamplesUnchanged == UNCHANGED <<oldLevel, reportedLevel, masked, unsure, shown, since, garbled,
                                repeated, misled, early, unsteady>>
EmissionUnchanged == SamplesUnchanged /\ UNCHANGED lasted

\* gpioSetAlertFunc; a function starts from the level reported.
intGpioSetAlertFunc(g) ==
    /\ alertBits' = Differ(alertBits, {g})
    /\ told' = [told EXCEPT !.alert = (@ \ {g}) \cup (reportedLevel \cap {g} \cap alertBits')]
    /\ UNCHANGED <<watched, waitBits, sampleBits, glitch, noise, wdog>> /\ EmissionUnchanged

\* gpioNotifyBegin and gpioNotifyPause on the one notification.
Watch(bits) ==
    /\ watched' = bits
    /\ told' = [told EXCEPT !.note = reportedLevel \cap bits]
    /\ UNCHANGED <<alertBits, waitBits, sampleBits, glitch, noise, wdog>> /\ EmissionUnchanged

\* A script begins to wait (scrWait).
AwaitChange(bits) ==
    /\ waitBits = {} /\ waitBits' = bits
    /\ UNCHANGED <<alertBits, watched, sampleBits, glitch, noise, wdog, told>> /\ EmissionUnchanged

gpioSetGetSamplesFunc(bits) ==
    /\ sampleBits' = bits
    /\ UNCHANGED <<alertBits, watched, waitBits, glitch, noise, wdog, told>> /\ EmissionUnchanged

\* wdLBitV keeps the level of the watchdog's last report.
gpioSetWatchdog(g) ==
    /\ wdog' = [wdog EXCEPT ![g] = [@ EXCEPT !.on = ~ @, !.age = 0, !.fresh = FALSE]]
    /\ UNCHANGED <<alertBits, watched, waitBits, sampleBits, glitch, noise, told>>
    /\ EmissionUnchanged

gpioGlitchFilter(g) ==
    /\ glitch' = [glitch EXCEPT ![g] = IF @.on THEN [@ EXCEPT !.on = FALSE, !.age = 0]
                                       ELSE [@ EXCEPT !.on = TRUE, !.age = 0, !.init = FALSE]]
    /\ lasted' = [lasted EXCEPT ![g] = 0]
    /\ UNCHANGED <<alertBits, watched, waitBits, sampleBits, noise, wdog, told>> /\ SamplesUnchanged

gpioNoiseFilter(g) ==
    /\ noise' = [noise EXCEPT ![g] = [@ EXCEPT !.on = ~ noise[g].on, !.active = FALSE,
                                               !.tick1 = 0, !.left = 0]]
    /\ UNCHANGED <<alertBits, watched, waitBits, sampleBits, glitch, wdog, told>> /\ EmissionUnchanged

Bursts == UNION {[1 .. n -> SUBSET AlertGpios] : n \in 1 .. Burst}

AlertsNext ==
    \/ \E read \in Bursts : AlertPass(read)
    \/ EmptyPass
    \/ \E g \in AlertGpios : intGpioSetAlertFunc(g) \/ gpioSetWatchdog(g)
                             \/ gpioGlitchFilter(g) \/ gpioNoiseFilter(g)
    \/ \E bits \in SUBSET AlertGpios : Watch(bits) \/ AwaitChange(bits) \/ gpioSetGetSamplesFunc(bits)

AlertsSpec == AlertsInit /\ [][AlertsNext]_alertVars

-----------------------------------------------------------------------------
(***************************************************************************)
(* Properties                                                              *)
(***************************************************************************)
\* Whatever starts and stops being monitored, and however many reports a pass
\* makes, after each pass the alert functions and the reader know the level of
\* their GPIO as the filters show it, and no level is told twice in a row: but
\* for a fall in the very sample after which a GPIO begins to be monitored.
ListenersKnowTheLevel ==
    garbled \/ /\ ~ repeated
               /\ told.alert \ unsure = (shown \cap alertBits) \ unsure
               /\ told.note \ unsure = (shown \cap watched) \ unsure

\* pigpio.h:3628: a GPIO with a glitch filter shows a change only to a level
\* that lasted, against what the filter showed when it last ran: but for the
\* first sample the filter sees.
GlitchesAreIgnored == ~ unsteady

\* pigpio.h:3565: no watchdog fires within its time of a change of its GPIO,
\* once the level it compares with is the GPIO's.
WatchdogsWait == ~ early

\* A script that waits is woken by a change, if its GPIO were monitored before
\* it began to wait: one that was high and not monitored seems to rise.
ScriptsWakeOnChange == garbled \/ ~ misled

\* What the alert thread tells, and to whom, is what the samples show.
AlertsKept ==
    AlertsTypeOK /\ ListenersKnowTheLevel /\ GlitchesAreIgnored /\ WatchdogsWait /\ ScriptsWakeOnChange
=============================================================================
