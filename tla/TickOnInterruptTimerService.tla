---- MODULE TickOnInterruptTimerService ----
(***************************************************************************)
(* infra/timer/TickOnInterruptTimerService.cpp with the TimerService that  *)
(* it is (infra/timer/TimerService.cpp) and the timers that are registered *)
(* with it (infra/timer/Timer.cpp): a tick interrupt counts, and schedules *)
(* ProcessTicks on the event dispatcher when the first timer is due.       *)
(*                                                                         *)
(* The interrupt runs to its end at once, between any two accesses of the  *)
(* dispatching thread to what they share. Time is in ticks: the resolution *)
(* is 1. A uint32_t holds the values below Word, so that the tick counter  *)
(* can overflow.                                                           *)
(***************************************************************************)
EXTENDS Integers, FiniteSets, FiniteSetsExt

CONSTANTS SingleShots,  \* objects of TimerSingleShot
          Repeaters,    \* objects of TimerRepeating
          Durations,    \* arguments of Start: how long
          StartTimes,   \* arguments of Start: until when
          HalfRange,    \* numeric_limits<uint32_t>::max() / 2
          TimeMax,      \* TimePoint::max()
          MaxLatency,   \* ticks in which the dispatcher handles what is scheduled
          MaxElapsed    \* bound on the number of ticks

Timers == SingleShots \cup Repeaters
Word == 2 * HalfRange + 2

ASSUME TimersAssumption == IsFiniteSet(Timers) /\ SingleShots \cap Repeaters = {}
ASSUME BoundsAssumption == /\ HalfRange \in Nat \ {0} /\ MaxLatency \in 0 .. HalfRange
                           /\ TimeMax \in Nat /\ MaxElapsed \in 0 .. TimeMax - 1
                           /\ Durations \subseteq Nat /\ StartTimes \subseteq 0 .. TimeMax

VARIABLES
    ticksProgressed, ticksNextNotification, notificationScheduled,  \* shared with the interrupt
    scheduled,        \* ProcessTicks is on the event dispatcher
    systemTime,
    nextTrigger,      \* of the service: when the first timer is due
    updateNeeded,     \* nextTrigger has to be computed when Progressed ends
    armed,            \* timers with an action: those in scheduledTimers
    nextTriggerTime,  \* of each timer
    triggerPeriod,    \* of each repeating timer
    stage,            \* where the dispatching thread is in ProcessTicks
    amount,           \* ticks taken from ticksProgressed, not yet in systemTime
    more, reschedule, \* locals of Progressed and of ProcessTicks
    starting,         \* the call of Start in progress: its timer and its trigger time
    elapsed,          \* history: number of ticks
    latency,          \* history: ticks since notificationScheduled was set
    handled,          \* history: elapsed when the dispatching thread last armed or processed
    notBefore,        \* history: the earliest time at which each timer may expire first
    fired             \* history: the timer whose action was called last

sharedVars == <<ticksProgressed, ticksNextNotification, notificationScheduled, scheduled>>
timerVars == <<nextTrigger, updateNeeded, armed, nextTriggerTime>>
processVars == <<stage, amount, more, reschedule>>
historyVars == <<elapsed, latency, handled, notBefore, fired>>
vars == <<sharedVars, systemTime, timerVars, triggerPeriod, processVars, starting, historyVars>>

None == [timer |-> {}, time |-> 0]
Times == 0 .. TimeMax

TypeOK ==
    /\ ticksProgressed \in 0 .. Word - 1
    /\ ticksNextNotification \in 0 .. HalfRange
    /\ notificationScheduled \in BOOLEAN /\ scheduled \in BOOLEAN
    /\ systemTime \in Nat
    /\ nextTrigger \in Times /\ updateNeeded \in BOOLEAN
    /\ armed \subseteq Timers
    /\ nextTriggerTime \in [Timers -> Nat] /\ triggerPeriod \in [Timers -> Nat]
    /\ stage \in {"idle", "add", "loop", "action", "compare", "store"}
    /\ amount \in 0 .. Word - 1
    /\ more \in BOOLEAN /\ reschedule \in BOOLEAN
    /\ starting \in [timer : SUBSET Timers, time : Nat]
    /\ elapsed \in Nat /\ latency \in 0 .. MaxLatency /\ handled \in Nat
    /\ notBefore \in [Timers -> Nat] /\ fired \in SUBSET Timers

\* A variant with a mistake: the counter is allowed to overflow
TicksUntilUnlimited(time, trigger) ==
    IF trigger = TimeMax THEN Word - 1 ELSE (IF trigger > time THEN trigger - time ELSE 0) % Word

\* CalculateNextTrigger: ticks from this system time until that trigger time. The
\* number of ticks is cut off to 32 bits before it is limited.
TicksUntil(time, trigger) ==
    IF trigger = TimeMax THEN HalfRange
    ELSE Min({(IF trigger > time THEN trigger - time ELSE 0) % Word, HalfRange})

Init ==
    /\ ticksProgressed = 0
    /\ ticksNextNotification = TicksUntil(0, TimeMax)
    /\ notificationScheduled = FALSE /\ scheduled = FALSE
    /\ systemTime = 0
    /\ nextTrigger = TimeMax /\ updateNeeded = FALSE
    /\ armed = {}
    /\ nextTriggerTime = [t \in Timers |-> 0] /\ triggerPeriod = [t \in Timers |-> 0]
    /\ stage = "idle"
    /\ amount = 0
    /\ more = FALSE /\ reschedule = FALSE
    /\ starting = None
    /\ elapsed = 0 /\ latency = 0 /\ handled = 0
    /\ notBefore = [t \in Timers |-> 0] /\ fired = {}

----------------------------------------------------------------------------
(* TickOnInterruptTimerService *)

\* A variant with a mistake: ticks that are not yet processed are not counted
NowProcessed == systemTime

Now == systemTime + ticksProgressed

\* Ticks keep coming, as long as what was scheduled is handled in time
SystemTickInterrupt ==
    LET ticks == (ticksProgressed + 1) % Word
        due == ticks >= ticksNextNotification
    IN  /\ elapsed < MaxElapsed
        /\ notificationScheduled => latency < MaxLatency
        /\ ticksProgressed' = ticks
        /\ notificationScheduled' = (notificationScheduled \/ due)
        /\ scheduled' = (scheduled \/ (due /\ ~notificationScheduled))
        /\ elapsed' = elapsed + 1
        /\ latency' = IF notificationScheduled THEN latency + 1 ELSE 0
        /\ UNCHANGED <<ticksNextNotification, systemTime, timerVars, triggerPeriod, processVars, starting,
                       handled, notBefore, fired>>

----------------------------------------------------------------------------
(* TimerService *)

\* The service is inside Progressed: it computes nextTrigger when that ends
holdUpdate == stage \in {"loop", "action"}

FirstTrigger(timers, times) == Min({times[t] : t \in timers} \cup {TimeMax})

\* The service's nextTrigger changes, or not; CalculateNextTrigger when it does
NextTriggerBecomes(trigger) ==
    /\ nextTrigger' = trigger
    /\ ticksNextNotification' = IF trigger = nextTrigger THEN ticksNextNotification ELSE TicksUntil(systemTime, trigger)

\* ComputeNextTrigger, for these timers with these trigger times
ComputeNextTrigger(timers, times) ==
    IF holdUpdate THEN updateNeeded' = TRUE /\ UNCHANGED <<nextTrigger, ticksNextNotification>>
                  ELSE updateNeeded' = FALSE /\ NextTriggerBecomes(FirstTrigger(timers, times))

RegisterTimer(t, time) ==
    /\ NextTriggerBecomes(IF time < nextTrigger THEN time ELSE nextTrigger)
    /\ UNCHANGED updateNeeded

\* A variant with a mistake: a timer that is postponed may have been the first one
UpdateTriggerTimeSooner(t, time, times) ==
    IF time < nextTrigger THEN ComputeNextTrigger(armed, times)
                          ELSE UNCHANGED <<nextTrigger, updateNeeded, ticksNextNotification>>

UpdateTriggerTime(t, time, times) ==
    IF nextTrigger = nextTriggerTime[t] \/ time < nextTrigger
    THEN ComputeNextTrigger(armed, times)
    ELSE UNCHANGED <<nextTrigger, updateNeeded, ticksNextNotification>>

UnregisterTimer(t) ==
    IF nextTriggerTime[t] = nextTrigger
    THEN ComputeNextTrigger(armed \ {t}, nextTriggerTime)
    ELSE UNCHANGED <<nextTrigger, updateNeeded, ticksNextNotification>>

----------------------------------------------------------------------------
(* Timer *)

SetNextTriggerTime(t, time) ==
    LET times == [nextTriggerTime EXCEPT ![t] = time]
    IN  /\ nextTriggerTime' = times
        /\ armed' = armed \cup {t}
        /\ IF t \in armed THEN UpdateTriggerTime(t, time, times) ELSE RegisterTimer(t, time)

CancelTimer(t) ==
    /\ armed' = armed \ {t}
    /\ nextTriggerTime' = [nextTriggerTime EXCEPT ![t] = 0]
    /\ IF t \in armed THEN UnregisterTimer(t)
                      ELSE UNCHANGED <<nextTrigger, updateNeeded, ticksNextNotification>>

\* Calls on timers come from actions on the dispatcher and from timers' own actions
MayCall == stage \in {"idle", "action"} /\ starting = None

Cancel(t) ==
    /\ MayCall
    /\ t \in armed
    /\ CancelTimer(t)
    /\ UNCHANGED <<ticksProgressed, notificationScheduled, scheduled, systemTime, triggerPeriod, processVars,
                   starting, historyVars>>

\* Start with a duration: the trigger time is computed, and set later. A duration
\* that is too long leaves a single shot timer as it is.
StartDuration(t, duration) ==
    /\ MayCall
    /\ t \in SingleShots => Now + 1 < TimeMax - duration
    /\ t \in Repeaters => duration > 0
    /\ triggerPeriod' = [triggerPeriod EXCEPT ![t] = IF t \in Repeaters THEN duration ELSE @]
    /\ starting' = [timer |-> {t}, time |-> Now + duration + 1]
    /\ notBefore' = [notBefore EXCEPT ![t] = elapsed + duration + 1]
    /\ UNCHANGED <<sharedVars, systemTime, timerVars, processVars, elapsed, latency, handled, fired>>

\* Start with a time point that is out of range
StartNever(t, time) ==
    /\ MayCall
    /\ t \in SingleShots
    /\ time >= TimeMax - 1
    /\ CancelTimer(t)
    /\ UNCHANGED <<ticksProgressed, notificationScheduled, scheduled, systemTime, triggerPeriod, processVars,
                   starting, historyVars>>

\* Start with a time point, which may lie in the past
StartTime(t, time) ==
    /\ MayCall
    /\ t \in SingleShots
    /\ time < TimeMax - 1
    /\ starting' = [timer |-> {t}, time |-> time + 1]
    /\ notBefore' = [notBefore EXCEPT ![t] = time + 1]
    /\ UNCHANGED <<sharedVars, systemTime, timerVars, triggerPeriod, processVars, elapsed, latency, handled, fired>>

StartDone ==
    /\ \E t \in starting.timer : SetNextTriggerTime(t, starting.time)
    /\ starting' = None
    /\ handled' = elapsed
    /\ UNCHANGED <<ticksProgressed, notificationScheduled, scheduled, systemTime, triggerPeriod, processVars,
                   elapsed, latency, notBefore, fired>>

----------------------------------------------------------------------------
(* ProcessTicks, on the event dispatcher *)

TakeTicks ==
    /\ stage = "idle" /\ starting = None
    /\ scheduled
    /\ scheduled' = FALSE
    /\ amount' = ticksProgressed
    /\ ticksProgressed' = 0
    /\ stage' = "add"
    /\ UNCHANGED <<ticksNextNotification, notificationScheduled, systemTime, timerVars, triggerPeriod,
                   more, reschedule, starting, historyVars>>

\* TimeProgressed
AddTime ==
    /\ stage = "add"
    /\ systemTime' = systemTime + amount
    /\ amount' = 0
    /\ more' = TRUE
    /\ stage' = "loop"
    /\ UNCHANGED <<sharedVars, timerVars, triggerPeriod, reschedule, starting, historyVars>>

Expired == {t \in armed : nextTriggerTime[t] <= systemTime}

\* A variant with a mistake: the next period starts now
NextPeriodFromNow(t) == Max({Now, nextTriggerTime[t]}) + triggerPeriod[t]

\* The end of the period that is now in progress
NextPeriod(t) ==
    LET now == Max({Now, nextTriggerTime[t]})
    IN  now - ((now - nextTriggerTime[t]) % triggerPeriod[t]) + triggerPeriod[t]

\* One turn of the loop in Progressed: the earliest of the expired timers is
\* cancelled or started again, and its action is called
Expire(t) ==
    /\ stage = "loop" /\ more
    /\ t \in Expired
    /\ \A u \in Expired : nextTriggerTime[t] <= nextTriggerTime[u]
    /\ more' = (Cardinality(Expired) > 1)
    /\ IF t \in SingleShots THEN CancelTimer(t) ELSE SetNextTriggerTime(t, NextPeriod(t))
    /\ stage' = "action"
    /\ fired' = {t}
    /\ UNCHANGED <<ticksProgressed, notificationScheduled, scheduled, systemTime, triggerPeriod, amount, reschedule,
                   starting, elapsed, latency, handled, notBefore>>

ActionDone ==
    /\ stage = "action" /\ starting = None
    /\ stage' = "loop"
    /\ UNCHANGED <<sharedVars, systemTime, timerVars, triggerPeriod, amount, more, reschedule, starting, historyVars>>

\* The end of Progressed, and the NextTriggerChanged after it
ProgressedDone ==
    /\ stage = "loop"
    /\ more => Expired = {}
    /\ nextTrigger' = IF updateNeeded THEN FirstTrigger(armed, nextTriggerTime) ELSE nextTrigger
    /\ updateNeeded' = FALSE
    /\ ticksNextNotification' = TicksUntil(systemTime, nextTrigger')
    /\ more' = FALSE
    /\ stage' = "compare"
    /\ UNCHANGED <<ticksProgressed, notificationScheduled, scheduled, systemTime, armed, nextTriggerTime, triggerPeriod,
                   amount, reschedule, starting, historyVars>>

CompareTicks ==
    /\ stage = "compare"
    /\ reschedule' = (ticksProgressed >= ticksNextNotification)
    /\ stage' = "store"
    /\ UNCHANGED <<sharedVars, systemTime, timerVars, triggerPeriod, amount, more, starting, historyVars>>

\* A variant with a mistake: the flag is left set
StoreScheduledOnly ==
    /\ stage = "store"
    /\ scheduled' = reschedule
    /\ reschedule' = FALSE
    /\ latency' = 0
    /\ handled' = elapsed
    /\ stage' = "idle"
    /\ UNCHANGED <<ticksProgressed, ticksNextNotification, notificationScheduled, systemTime, timerVars, triggerPeriod,
                   amount, more, starting, elapsed, notBefore, fired>>

StoreScheduled ==
    /\ stage = "store"
    /\ notificationScheduled' = reschedule
    /\ scheduled' = reschedule
    /\ reschedule' = FALSE
    /\ latency' = 0
    /\ handled' = elapsed
    /\ stage' = "idle"
    /\ UNCHANGED <<ticksProgressed, ticksNextNotification, systemTime, timerVars, triggerPeriod,
                   amount, more, starting, elapsed, notBefore, fired>>

ProcessTicks == \/ TakeTicks \/ AddTime \/ \E t \in Timers : Expire(t)
                \/ ActionDone \/ ProgressedDone \/ CompareTicks \/ StoreScheduled

----------------------------------------------------------------------------
Next == \/ SystemTickInterrupt
        \/ \E t \in Timers : Cancel(t)
        \/ \E t \in Timers, duration \in Durations : StartDuration(t, duration)
        \/ \E t \in Timers, time \in StartTimes : StartTime(t, time) \/ StartNever(t, time)
        \/ StartDone
        \/ ProcessTicks

Spec == Init /\ [][Next]_vars

----------------------------------------------------------------------------
(* Properties *)

\* No tick is lost, and none is counted twice: what the interrupt counted is in
\* systemTime, about to be added to it, or still in ticksProgressed, which never
\* overflows, even when no timer is armed.
TicksConserved == TypeOK /\ systemTime + amount + ticksProgressed = elapsed

\* The service's nextTrigger is that of the first timer, however timers are started,
\* restarted and cancelled, from other actions or while Progressed walks through them.
NextTriggerInv ==
    \/ nextTrigger = FirstTrigger(armed, nextTriggerTime)
    \/ updateNeeded /\ holdUpdate

\* A timer that is due waits no longer than until the next tick: while the dispatcher
\* is idle and nothing is scheduled, it became due since the dispatcher last looked.
\* This ties the counters that the interrupt compares to the timers' trigger times.
DueIsNotified ==
    stage = "idle" /\ starting = None /\ ~scheduled =>
        \A t \in armed : nextTriggerTime[t] <= elapsed => handled = elapsed

\* No timer expires before its time, counting the tick in progress when it was started.
NeverEarly == [][stage = "loop" /\ stage' = "action" => \A t \in fired' : notBefore[t] <= elapsed]_vars

\* A repeating timer stays in phase: however late it is handled, it expires at whole
\* periods after it was started.
InPhase ==
    \A t \in armed \cap Repeaters : t \notin starting.timer =>
        /\ nextTriggerTime[t] >= notBefore[t]
        /\ (nextTriggerTime[t] - notBefore[t]) % triggerPeriod[t] = 0

\* When ProcessTicks ends, a timer that became due in the meantime has been scheduled.
DueIsRescheduled ==
    [][stage = "store" /\ stage' = "idle" => scheduled' \/ \A t \in armed : nextTriggerTime[t] > elapsed]_vars
====
