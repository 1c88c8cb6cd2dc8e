---- MODULE TickOnInterruptTimerServiceProofs ----
(***************************************************************************)
(* Proofs about TickOnInterruptTimerService, for any timers, durations and *)
(* start times, any width of the tick counter, and any number of ticks.    *)
(***************************************************************************)
EXTENDS TickOnInterruptTimerService, FiniteSetsExt, WellFoundedInduction, TLAPS

----------------------------------------------------------------------------
(* Integers *)

\* Every nonempty set of natural numbers has a least element.
LEMMA LeastNatural ==
    ASSUME NEW T, T \subseteq Nat, T # {}
    PROVE  \E x \in T : \A y \in T : x <= y
<1> DEFINE R == OpToRel(<, Nat)
           Less(x, y) == <<x, y>> \in R
<1>1. IsWellFoundedOn(R, Nat)
  BY NatLessThanWellFounded
<1>2. \A x, y \in Nat : x < y => Less(x, y)
  BY DEF OpToRel
<1> HIDE DEF R
<1>3. \E x \in T : \A y \in T : ~Less(y, x)
  BY <1>1, WFMin
<1> HIDE DEF Less
<1>4. PICK x \in T : \A y \in T : ~Less(y, x)
  BY <1>3
<1>5. ASSUME NEW y \in T PROVE x <= y
  <2>1. ~(y < x)
    BY <1>2, <1>4
  <2> QED
    BY <2>1
<1> QED
  BY <1>5

\* Min of a nonempty set of natural numbers is its least element.
LEMMA MinOfNaturals ==
    ASSUME NEW S, S \subseteq Nat, S # {}
    PROVE  Min(S) \in S /\ \A x \in S : Min(S) <= x
<1>1. PICK m \in S : \A x \in S : m <= x
  BY LeastNatural
<1> QED
  BY <1>1 DEF Min

----------------------------------------------------------------------------
(* Arithmetic *)

\* A multiple of p leaves no remainder.
LEMMA ProductModulo ==
    ASSUME NEW p \in Nat \ {0}, NEW k \in Nat
    PROVE  (p * k) % p = 0
<1> DEFINE m == p * k
           q == m \div p
           r == m % p
<1>1. m \in Nat /\ m = p * k
  OBVIOUS
<1>2. q \in Int /\ r \in 0 .. p - 1 /\ m = p * q + r
  <2> HIDE DEF m
  <2> QED
    BY <1>1
<1> HIDE DEF m, q, r
<1>3. r = p * (k - q)
  BY <1>1, <1>2
<1>4. CASE k - q >= 1
  <2>1. p * (k - q) >= p
    BY <1>2, <1>4
  <2> QED
    BY <1>2, <1>3, <2>1
<1>5. CASE k - q <= 0 - 1
  <2>1. p * (k - q) < 0
    BY <1>2, <1>5
  <2> QED
    BY <1>2, <1>3, <2>1
<1>6. CASE k - q = 0
  BY <1>3, <1>6 DEF m, r
<1> QED
  BY <1>2, <1>4, <1>5, <1>6

\* A multiple of p plus a multiple of p is a multiple of p, and so is a number from which
\* its remainder is taken.
LEMMA Multiples ==
    ASSUME NEW a \in Nat, NEW b \in Nat, NEW p \in Nat \ {0}, a % p = 0
    PROVE  /\ (a + (b - (b % p)) + p) % p = 0
           /\ b % p \in 0 .. p - 1
           /\ b - (b % p) \in Nat
<1>1. /\ b % p \in 0 .. p - 1 /\ a = p * (a \div p) /\ a \div p \in Nat
      /\ b = p * (b \div p) + (b % p) /\ b \div p \in Int
  OBVIOUS
<1>2. b - (b % p) = p * (b \div p)
  BY <1>1
<1>3. b - (b % p) \in Nat
  BY <1>1
<1> DEFINE k == (a \div p) + (b \div p) + 1
<1>4. b \div p \in Nat
  OBVIOUS
<1>5. k \in Nat /\ a + (b - (b % p)) + p = p * k
  BY <1>1, <1>2, <1>4
<1> HIDE DEF k
<1>6. (p * k) % p = 0
  BY <1>5, ProductModulo
<1> QED
  BY <1>1, <1>3, <1>5, <1>6

\* The greater of two numbers.
LEMMA MaxOfTwo ==
    ASSUME NEW x \in Nat, NEW y \in Nat
    PROVE  Max({x, y}) = IF x >= y THEN x ELSE y
  BY DEF Max

\* The smaller of two numbers.
LEMMA MinOfTwo ==
    ASSUME NEW x \in Nat, NEW y \in Nat
    PROVE  Min({x, y}) = IF x <= y THEN x ELSE y
  BY DEF Min

\* The ticks until a trigger time fit in the counter's lower half; they are not cut off
\* when it is that near.
LEMMA TicksUntilFacts ==
    ASSUME NEW time \in Nat, NEW trigger \in Nat
    PROVE  /\ TicksUntil(time, trigger) \in 0 .. HalfRange
           /\ \A n \in 0 .. HalfRange + 1 :
                 trigger # TimeMax /\ trigger <= time + n => TicksUntil(time, trigger) <= n
<1> DEFINE d == IF trigger > time THEN trigger - time ELSE 0
<1>1. d \in Nat /\ Word \in Nat \ {0} /\ HalfRange \in Nat /\ Word = 2 * HalfRange + 2
  BY BoundsAssumption DEF Word
<1>2. d % Word \in Nat
  BY <1>1
<1>3. Min({d % Word, HalfRange}) = IF d % Word <= HalfRange THEN d % Word ELSE HalfRange
  BY <1>1, <1>2, MinOfTwo
<1>4. TicksUntil(time, trigger) = IF trigger = TimeMax THEN HalfRange ELSE Min({d % Word, HalfRange})
  BY DEF TicksUntil
<1>5. ASSUME NEW n \in 0 .. HalfRange + 1, trigger <= time + n
      PROVE  d % Word <= n
  <2>1. d <= n /\ d < Word
    BY <1>1, <1>5
  <2>2. d % Word = d
    BY <1>1, <2>1
  <2> QED
    BY <2>1, <2>2
<1> DEFINE m == d % Word
           u == TicksUntil(time, trigger)
<1>6. /\ m \in Nat /\ HalfRange \in Nat
      /\ u = IF trigger = TimeMax THEN HalfRange ELSE IF m <= HalfRange THEN m ELSE HalfRange
  BY <1>1, <1>2, <1>3, <1>4
<1>7. \A n \in 0 .. HalfRange + 1 : trigger <= time + n => m <= n
  BY <1>5
<1> HIDE DEF m, u
<1>8. u \in 0 .. HalfRange
  BY <1>6
<1>9. \A n \in 0 .. HalfRange + 1 : trigger # TimeMax /\ trigger <= time + n => u <= n
  BY <1>6, <1>7
<1> QED
  BY <1>8, <1>9 DEF u

\* FirstTrigger is the least of the timers' trigger times and of the greatest time point,
\* and nothing else is.
LEMMA FirstTriggerFacts ==
    ASSUME NEW timers \in SUBSET Timers, NEW times \in [Timers -> Nat]
    PROVE  /\ FirstTrigger(timers, times) \in Times
           /\ \A t \in timers : FirstTrigger(timers, times) <= times[t]
           /\ FirstTrigger(timers, times) = TimeMax \/ \E t \in timers : FirstTrigger(timers, times) = times[t]
           /\ \A x \in Times : (\A t \in timers : x <= times[t]) /\ (x = TimeMax \/ \E t \in timers : x = times[t])
                                  => x = FirstTrigger(timers, times)
<1> DEFINE S == {times[t] : t \in timers} \cup {TimeMax}
           f == FirstTrigger(timers, times)
<1>1. TimeMax \in Nat /\ S \subseteq Nat /\ S # {} /\ TimeMax \in S
  BY BoundsAssumption
<1>2. f = Min(S)
  BY DEF FirstTrigger
<1>3. f \in S /\ \A x \in S : f <= x
  <2> HIDE DEF f, S
  <2> QED
    BY <1>1, <1>2, MinOfNaturals
<1> HIDE DEF f
<1>4. f \in Nat /\ f <= TimeMax /\ \A t \in timers : f <= times[t]
  BY <1>1, <1>3
<1>5. f = TimeMax \/ \E t \in timers : f = times[t]
  BY <1>3
<1>6. f \in Times
  BY <1>1, <1>4 DEF Times
<1>7. ASSUME NEW x \in Times, \A t \in timers : x <= times[t], x = TimeMax \/ \E t \in timers : x = times[t]
      PROVE  x = f
  <2>1. x \in Nat /\ x <= TimeMax
    BY <1>1 DEF Times
  <2>2. f <= x
    BY <1>4, <1>7
  <2>3. x <= f
    BY <1>5, <1>7, <2>1
  <2> QED
    BY <1>4, <2>1, <2>2, <2>3
<1> QED
  BY <1>4, <1>5, <1>6, <1>7 DEF f

----------------------------------------------------------------------------
(* The inductive invariant *)

\* Ticks that ProcessTicks has taken are in amount until it adds them.
CountInv ==
    /\ systemTime + amount + ticksProgressed = elapsed
    /\ stage # "add" => amount = 0
    /\ elapsed <= MaxElapsed

\* ProcessTicks is scheduled or running exactly when the flag is set. The counter has
\* counted since ProcessTicks took its ticks, or up to the notification, and at most
\* MaxLatency beyond it.
NotifyInv ==
    /\ notificationScheduled <=> scheduled \/ stage # "idle"
    /\ scheduled => stage = "idle"
    /\ stage # "idle" => ticksProgressed <= latency
    /\ scheduled => ticksProgressed <= HalfRange + 1 + latency
    /\ ~notificationScheduled => ticksProgressed <= HalfRange

\* Outside of Progressed, the interrupt waits for as many ticks as there are until
\* nextTrigger.
TargetInv == ~holdUpdate => ticksNextNotification = TicksUntil(systemTime, nextTrigger)

\* Start sets the time that it has computed, and is only called where timers may be.
StartInv ==
    /\ starting = None \/ \E t \in Timers : starting.timer = {t}
    /\ stage \notin {"idle", "action"} => starting = None
    /\ \A t \in starting.timer : starting.time = notBefore[t] /\ (t \in Repeaters => triggerPeriod[t] > 0)

\* An armed timer is not to expire before the time it was started for; a repeating one
\* stays a whole number of periods away from it.
ArmedInv ==
    \A t \in armed \ starting.timer :
        /\ notBefore[t] <= nextTriggerTime[t]
        /\ t \in Repeaters => triggerPeriod[t] > 0 /\ (nextTriggerTime[t] - notBefore[t]) % triggerPeriod[t] = 0

\* While nothing is scheduled, the first timer became due since the dispatcher last looked.
DueInv == stage = "idle" /\ ~scheduled /\ nextTrigger <= elapsed => handled = elapsed

IInv == /\ TypeOK /\ CountInv /\ NotifyInv /\ NextTriggerInv /\ TargetInv
        /\ StartInv /\ ArmedInv /\ DueInv

----------------------------------------------------------------------------
(* What timers and the service do to nextTrigger *)

\* FirstTrigger only depends on the timers that it is about.
LEMMA FirstTriggerAgree ==
    ASSUME NEW timers, NEW times, NEW others, \A t \in timers : times[t] = others[t]
    PROVE  FirstTrigger(timers, times) = FirstTrigger(timers, others)
<1>1. {times[t] : t \in timers} = {others[t] : t \in timers}
  OBVIOUS
<1> QED
  BY <1>1 DEF FirstTrigger

\* nextTrigger is that of these timers or is going to be, and the interrupt waits for it.
Recomputed(timers, times) ==
    /\ nextTrigger' \in Times /\ ticksNextNotification' \in 0 .. HalfRange
    /\ nextTrigger' = FirstTrigger(timers, times) \/ (updateNeeded' /\ holdUpdate)
    /\ ~holdUpdate => ticksNextNotification' = TicksUntil(systemTime, nextTrigger')

\* CalculateNextTrigger is called when nextTrigger changes.
LEMMA BecomesFacts ==
    ASSUME TypeOK, TargetInv, NEW trigger \in Times, NextTriggerBecomes(trigger)
    PROVE  /\ nextTrigger' = trigger /\ ticksNextNotification' \in 0 .. HalfRange
           /\ ~holdUpdate => ticksNextNotification' = TicksUntil(systemTime, nextTrigger')
<1>1. trigger \in Nat
  BY DEF Times
<1>2. TicksUntil(systemTime, trigger) \in 0 .. HalfRange
  BY <1>1, TicksUntilFacts DEF TypeOK
<1> QED
  BY <1>2 DEF TypeOK, TargetInv, NextTriggerBecomes

\* ComputeNextTrigger, held or not.
LEMMA ComputeFacts ==
    ASSUME TypeOK, TargetInv, NEW timers \in SUBSET Timers, NEW times \in [Timers -> Nat],
           ComputeNextTrigger(timers, times)
    PROVE  Recomputed(timers, times) /\ updateNeeded' \in BOOLEAN
<1>1. CASE holdUpdate
  BY <1>1 DEF ComputeNextTrigger, Recomputed, TypeOK
<1>2. CASE ~holdUpdate
  <2>1. updateNeeded' = FALSE /\ NextTriggerBecomes(FirstTrigger(timers, times))
    BY <1>2 DEF ComputeNextTrigger
  <2>2. FirstTrigger(timers, times) \in Times
    BY FirstTriggerFacts
  <2> QED
    BY <2>1, <2>2, BecomesFacts DEF Recomputed
<1> QED
  BY <1>1, <1>2

\* Nothing is computed when the first trigger time cannot have changed.
LEMMA KeptFacts ==
    ASSUME TypeOK, TargetInv, NextTriggerInv, NEW timers, NEW times,
           UNCHANGED <<nextTrigger, updateNeeded, ticksNextNotification>>,
           nextTrigger = FirstTrigger(armed, nextTriggerTime) => nextTrigger = FirstTrigger(timers, times)
    PROVE  Recomputed(timers, times) /\ updateNeeded' \in BOOLEAN
  BY DEF Recomputed, TypeOK, TargetInv, NextTriggerInv

\* A timer is started, or restarted, however its new time relates to the first trigger time.
LEMMA SetNextTriggerTimeFacts ==
    ASSUME TypeOK, TargetInv, NextTriggerInv, NEW t \in Timers, NEW time \in Nat,
           SetNextTriggerTime(t, time)
    PROVE  /\ armed' = armed \cup {t} /\ nextTriggerTime' = [nextTriggerTime EXCEPT ![t] = time]
           /\ nextTriggerTime' \in [Timers -> Nat]
           /\ Recomputed(armed', nextTriggerTime') /\ updateNeeded' \in BOOLEAN
<1> DEFINE times == [nextTriggerTime EXCEPT ![t] = time]
           old == FirstTrigger(armed, nextTriggerTime)
           new == armed \cup {t}
<1>1. /\ armed \in SUBSET Timers /\ nextTriggerTime \in [Timers -> Nat] /\ times \in [Timers -> Nat]
      /\ times[t] = time /\ \A u \in Timers \ {t} : times[u] = nextTriggerTime[u]
      /\ new \in SUBSET Timers /\ nextTrigger \in Times
  BY DEF TypeOK
<1>2. armed' = new /\ nextTriggerTime' = times
  BY DEF SetNextTriggerTime
<1>3. /\ old \in Times /\ \A u \in armed : old <= nextTriggerTime[u]
      /\ old = TimeMax \/ \E u \in armed : old = nextTriggerTime[u]
      /\ \A x \in Times : (\A u \in new : x <= times[u]) /\ (x = TimeMax \/ \E u \in new : x = times[u])
                             => x = FirstTrigger(new, times)
  BY <1>1, FirstTriggerFacts
<1>4. /\ TimeMax \in Nat /\ old \in Nat /\ old <= TimeMax /\ nextTrigger \in Nat /\ nextTrigger <= TimeMax
      /\ \A x \in Nat : x <= TimeMax => x \in Times
  BY <1>1, <1>3, BoundsAssumption DEF Times
<1> HIDE DEF times, new, old
<1>5. ASSUME t \in armed
      PROVE  Recomputed(armed', nextTriggerTime') /\ updateNeeded' \in BOOLEAN
  <2>1. new = armed /\ UpdateTriggerTime(t, time, times)
    BY <1>5 DEF SetNextTriggerTime, new, times
  <2>2. CASE nextTrigger = nextTriggerTime[t] \/ time < nextTrigger
    BY <2>1, <2>2, <1>1, <1>2, ComputeFacts DEF UpdateTriggerTime
  <2>3. CASE ~(nextTrigger = nextTriggerTime[t] \/ time < nextTrigger)
    <3>1. UNCHANGED <<nextTrigger, updateNeeded, ticksNextNotification>>
      BY <2>1, <2>3 DEF UpdateTriggerTime
    <3>2. ASSUME nextTrigger = old PROVE nextTrigger = FirstTrigger(new, times)
      <4>1. \A u \in new : nextTrigger <= times[u]
        BY <3>2, <2>1, <2>3, <1>1, <1>3, <1>4
      <4>2. nextTrigger = TimeMax \/ \E u \in new : nextTrigger = times[u]
        BY <3>2, <2>1, <2>3, <1>1, <1>3
      <4> QED
        BY <4>1, <4>2, <1>1, <1>3
    <3> QED
      BY <3>1, <3>2, <1>1, <1>2, KeptFacts DEF old
  <2> QED
    BY <2>2, <2>3
<1>6. ASSUME t \notin armed
      PROVE  Recomputed(armed', nextTriggerTime') /\ updateNeeded' \in BOOLEAN
  <2> DEFINE x == IF time < nextTrigger THEN time ELSE nextTrigger
  <2>1. NextTriggerBecomes(x) /\ updateNeeded' = updateNeeded
    BY <1>6 DEF SetNextTriggerTime, RegisterTimer
  <2>2. x \in Times /\ x \in Nat /\ x <= time /\ x <= nextTrigger
    BY <1>4
  <2>3. ASSUME nextTrigger = old PROVE x = FirstTrigger(new, times)
    <3>1. \A u \in new : x <= times[u]
      <4>1. \A u \in armed : x <= nextTriggerTime[u]
        BY <2>2, <2>3, <1>1, <1>3, <1>4
      <4> QED
        BY <4>1, <2>2, <1>1, <1>6 DEF new
    <3>2. x = TimeMax \/ \E u \in new : x = times[u]
      BY <2>3, <1>1, <1>3, <1>6 DEF new
    <3> QED
      BY <3>1, <3>2, <2>2, <1>3
  <2> HIDE DEF x
  <2>4. /\ nextTrigger' = x /\ ticksNextNotification' \in 0 .. HalfRange
        /\ ~holdUpdate => ticksNextNotification' = TicksUntil(systemTime, nextTrigger')
    BY <2>1, <2>2, BecomesFacts
  <2>5. nextTrigger' = FirstTrigger(new, times) \/ (updateNeeded' /\ holdUpdate)
    BY <2>1, <2>3, <2>4 DEF NextTriggerInv, old
  <2>6. updateNeeded' \in BOOLEAN
    BY <2>1 DEF TypeOK
  <2> QED
    BY <1>1, <1>2, <2>2, <2>4, <2>5, <2>6 DEF Recomputed
<1> QED
  BY <1>1, <1>2, <1>5, <1>6 DEF times, new

\* A timer is cancelled, whether it was the first one, armed at all, or neither. The first
\* trigger time does not become sooner.
LEMMA CancelTimerFacts ==
    ASSUME TypeOK, TargetInv, NextTriggerInv, NEW t \in Timers, CancelTimer(t)
    PROVE  /\ armed' = armed \ {t} /\ nextTriggerTime' = [nextTriggerTime EXCEPT ![t] = 0]
           /\ nextTriggerTime' \in [Timers -> Nat]
           /\ Recomputed(armed', nextTriggerTime') /\ updateNeeded' \in BOOLEAN
           /\ ~holdUpdate => nextTrigger <= nextTrigger'
<1> DEFINE times == [nextTriggerTime EXCEPT ![t] = 0]
           old == FirstTrigger(armed, nextTriggerTime)
           new == armed \ {t}
           first == FirstTrigger(new, nextTriggerTime)
<1>1. /\ armed \in SUBSET Timers /\ nextTriggerTime \in [Timers -> Nat] /\ times \in [Timers -> Nat]
      /\ \A u \in Timers \ {t} : times[u] = nextTriggerTime[u]
      /\ new \in SUBSET Timers /\ nextTrigger \in Times
  BY DEF TypeOK
<1>2. armed' = new /\ nextTriggerTime' = times
  BY DEF CancelTimer
<1>3. /\ old \in Times /\ \A u \in armed : old <= nextTriggerTime[u]
      /\ old = TimeMax \/ \E u \in armed : old = nextTriggerTime[u]
      /\ \A x \in Times : (\A u \in new : x <= nextTriggerTime[u]) /\ (x = TimeMax \/ \E u \in new : x = nextTriggerTime[u])
                             => x = first
      /\ first \in Times /\ (first = TimeMax \/ \E u \in new : first = nextTriggerTime[u])
  BY <1>1, FirstTriggerFacts
<1>4. first = FirstTrigger(new, times)
  <2>1. \A u \in new : nextTriggerTime[u] = times[u]
    BY <1>1
  <2> QED
    BY <2>1, FirstTriggerAgree
<1>5. old <= first
  BY <1>3, BoundsAssumption DEF Times
<1> HIDE DEF times, new, old, first
<1>6. ASSUME t \in armed /\ nextTriggerTime[t] = nextTrigger
      PROVE  Recomputed(armed', nextTriggerTime') /\ updateNeeded' \in BOOLEAN
  <2>1. ComputeNextTrigger(new, nextTriggerTime)
    BY <1>6 DEF CancelTimer, UnregisterTimer, new
  <2>2. Recomputed(new, nextTriggerTime) /\ updateNeeded' \in BOOLEAN
    BY <2>1, <1>1, ComputeFacts
  <2> QED
    BY <2>2, <1>2, <1>4 DEF Recomputed, first
<1>7. ASSUME ~(t \in armed /\ nextTriggerTime[t] = nextTrigger)
      PROVE  Recomputed(armed', nextTriggerTime') /\ updateNeeded' \in BOOLEAN
  <2>1. UNCHANGED <<nextTrigger, updateNeeded, ticksNextNotification>>
    BY <1>7 DEF CancelTimer, UnregisterTimer
  <2>2. ASSUME nextTrigger = old PROVE nextTrigger = FirstTrigger(new, times)
    <3>1. \A u \in new : nextTrigger <= nextTriggerTime[u]
      BY <2>2, <1>3 DEF new
    <3>2. nextTrigger = TimeMax \/ \E u \in new : nextTrigger = nextTriggerTime[u]
      BY <2>2, <1>3, <1>7 DEF new
    <3> QED
      BY <3>1, <3>2, <1>1, <1>3, <1>4
  <2> QED
    BY <2>1, <2>2, <1>2, KeptFacts DEF old
<1>8. ASSUME ~holdUpdate PROVE nextTrigger <= nextTrigger'
  <2>1. nextTrigger = old
    BY <1>8 DEF NextTriggerInv, old
  <2>2. nextTrigger' = first
    BY <1>2, <1>4, <1>6, <1>7, <1>8 DEF Recomputed
  <2> QED
    BY <2>1, <2>2, <1>5
<1> QED
  BY <1>1, <1>2, <1>6, <1>7, <1>8 DEF times, new

\* The parts of the invariant about nextTrigger in the next state.
LEMMA TriggerNext ==
    ASSUME nextTrigger' = FirstTrigger(armed', nextTriggerTime') \/ (updateNeeded' /\ holdUpdate'),
           ~holdUpdate' => ticksNextNotification' = TicksUntil(systemTime', nextTrigger')
    PROVE  NextTriggerInv' /\ TargetInv'
  BY DEF NextTriggerInv, TargetInv, FirstTrigger, TicksUntil, Word, Min

----------------------------------------------------------------------------
(* The steps *)

\* The bounds in a form that the provers can use.
LEMMA Bounds ==
    /\ HalfRange \in Nat \ {0} /\ MaxLatency \in Nat /\ MaxLatency <= HalfRange
    /\ TimeMax \in Nat /\ MaxElapsed \in Nat /\ MaxElapsed < TimeMax
    /\ Word \in Nat /\ Word = 2 * HalfRange + 2
    /\ Durations \subseteq Nat /\ StartTimes \subseteq Nat
  BY BoundsAssumption DEF Word

\* The interrupt: the counter does not overflow, and a timer that has become due is noticed.
LEMMA TickStep ==
    ASSUME IInv, SystemTickInterrupt
    PROVE  IInv'
<1> DEFINE due == ticksProgressed + 1 >= ticksNextNotification
<1>1. TypeOK /\ CountInv /\ NotifyInv /\ NextTriggerInv /\ TargetInv /\ StartInv /\ ArmedInv /\ DueInv
  BY DEF IInv
<1>2. /\ ticksProgressed \in Nat /\ ticksNextNotification \in 0 .. HalfRange /\ systemTime \in Nat
      /\ amount \in Nat /\ elapsed \in Nat /\ latency \in 0 .. MaxLatency /\ nextTrigger \in Nat
  BY <1>1, Bounds DEF TypeOK, Times
<1>3. stage # "idle" => notificationScheduled
  BY <1>1 DEF NotifyInv
<1>4. ticksProgressed + 1 <= Word - 1
  <2>1. CASE notificationScheduled
    <3>1. latency < MaxLatency
      BY <2>1 DEF SystemTickInterrupt
    <3>2. ticksProgressed <= HalfRange + 1 + latency
      <4>1. scheduled \/ stage # "idle"
        BY <2>1, <1>1 DEF NotifyInv
      <4>2. CASE scheduled
        BY <4>2, <1>1 DEF NotifyInv
      <4>3. CASE stage # "idle"
        <5>1. ticksProgressed <= latency
          BY <4>3, <1>1 DEF NotifyInv
        <5> QED
          BY <5>1, <1>2, Bounds
      <4> QED
        BY <4>1, <4>2, <4>3
    <3> QED
      BY <3>1, <3>2, <1>2, Bounds
  <2>2. CASE ~notificationScheduled
    <3>1. ticksProgressed <= HalfRange
      BY <2>2, <1>1 DEF NotifyInv
    <3> QED
      BY <3>1, <1>2, Bounds
  <2> QED
    BY <2>1, <2>2
<1>5. (ticksProgressed + 1) % Word = ticksProgressed + 1
  BY <1>2, <1>4, Bounds
<1>6. /\ ticksProgressed' = ticksProgressed + 1 /\ elapsed < MaxElapsed /\ elapsed' = elapsed + 1
      /\ notificationScheduled => latency < MaxLatency
      /\ latency' = IF notificationScheduled THEN latency + 1 ELSE 0
      /\ notificationScheduled' = (notificationScheduled \/ due)
      /\ scheduled' = (scheduled \/ (due /\ ~notificationScheduled))
  BY <1>5 DEF SystemTickInterrupt
<1>7. /\ UNCHANGED <<ticksNextNotification, systemTime, nextTrigger, updateNeeded, armed, nextTriggerTime>>
      /\ UNCHANGED <<triggerPeriod, stage, amount, more, reschedule, starting, handled, notBefore, fired>>
  BY DEF SystemTickInterrupt, timerVars, processVars
<1>8. ~notificationScheduled /\ ~due => ticksProgressed' < ticksNextNotification
  BY <1>2, <1>6
<1> HIDE DEF due
<1>9. TypeOK'
  <2>1. notificationScheduled' \in BOOLEAN /\ scheduled' \in BOOLEAN
    BY <1>6
  <2>2. ticksProgressed' \in 0 .. Word - 1 /\ elapsed' \in Nat /\ latency' \in 0 .. MaxLatency
    BY <1>2, <1>4, <1>6, Bounds
  <2> QED
    BY <1>1, <1>7, <2>1, <2>2 DEF TypeOK, Times, Timers, Word
<1>10. CountInv'
  BY <1>1, <1>2, <1>6, <1>7, Bounds DEF CountInv
<1>11. NotifyInv'
  <2>1. /\ notificationScheduled' <=> scheduled' \/ stage' # "idle"
        /\ scheduled' => stage' = "idle"
    BY <1>1, <1>6, <1>7 DEF NotifyInv
  <2>2. stage' # "idle" => ticksProgressed' <= latency'
    BY <1>1, <1>2, <1>3, <1>6, <1>7 DEF NotifyInv
  <2>3. scheduled' => ticksProgressed' <= HalfRange + 1 + latency'
    <3>1. CASE scheduled
      <4>1. notificationScheduled /\ ticksProgressed <= HalfRange + 1 + latency
        BY <3>1, <1>1 DEF NotifyInv
      <4>2. latency' = latency + 1
        BY <4>1, <1>6
      <4> QED
        BY <4>1, <4>2, <1>2, <1>6, Bounds
    <3>2. CASE ~notificationScheduled
      <4>1. ticksProgressed <= HalfRange /\ latency' = 0
        BY <3>2, <1>1, <1>6 DEF NotifyInv
      <4> QED
        BY <4>1, <1>2, <1>6, Bounds
    <3>3. CASE ~scheduled /\ notificationScheduled
      BY <3>3, <1>6
    <3> QED
      BY <3>1, <3>2, <3>3
  <2>4. ~notificationScheduled' => ticksProgressed' <= HalfRange
    <3>1. ~notificationScheduled' => ticksProgressed' < ticksNextNotification
      BY <1>6, <1>8
    <3> QED
      BY <3>1, <1>2, <1>6, Bounds
  <2> QED
    BY <2>1, <2>2, <2>3, <2>4 DEF NotifyInv
<1>12. NextTriggerInv' /\ TargetInv'
  BY <1>1, <1>7, TriggerNext DEF NextTriggerInv, TargetInv, holdUpdate
<1>13. StartInv' /\ ArmedInv'
  BY <1>1, <1>7 DEF StartInv, ArmedInv, None, Timers
<1>14. DueInv'
  <2> SUFFICES ASSUME stage = "idle", ~scheduled', nextTrigger <= elapsed + 1 PROVE FALSE
    BY <1>6, <1>7 DEF DueInv
  <2>1. ~scheduled /\ ~notificationScheduled /\ ~due
    BY <1>1, <1>6 DEF NotifyInv
  <2>2. ticksProgressed + 1 < ticksNextNotification /\ ticksProgressed <= HalfRange
    BY <2>1, <1>1, <1>6, <1>8 DEF NotifyInv
  <2>3. ticksNextNotification = TicksUntil(systemTime, nextTrigger)
    BY <1>1 DEF TargetInv, holdUpdate
  <2>4. systemTime + ticksProgressed = elapsed
    BY <1>1, <1>2 DEF CountInv
  <2>5. nextTrigger # TimeMax /\ nextTrigger <= systemTime + (ticksProgressed + 1)
    BY <2>4, <1>2, <1>6, Bounds
  <2>6. ticksProgressed + 1 \in 0 .. HalfRange + 1
    BY <2>2, <1>2, Bounds
  <2>7. TicksUntil(systemTime, nextTrigger) <= ticksProgressed + 1
    BY <2>5, <2>6, <1>2, TicksUntilFacts
  <2> QED
    BY <2>2, <2>3, <2>7, <1>2
<1> QED
  BY <1>9, <1>10, <1>11, <1>12, <1>13, <1>14 DEF IInv

\* A timer is cancelled, explicitly or because it would never expire.
LEMMA CancelStep ==
    ASSUME IInv, NEW t \in Timers, MayCall, CancelTimer(t),
           UNCHANGED <<ticksProgressed, notificationScheduled, scheduled, systemTime, triggerPeriod, processVars,
                       starting, historyVars>>
    PROVE  IInv'
<1>1. TypeOK /\ CountInv /\ NotifyInv /\ NextTriggerInv /\ TargetInv /\ StartInv /\ ArmedInv /\ DueInv
  BY DEF IInv
<1>2. /\ armed' = armed \ {t} /\ nextTriggerTime' = [nextTriggerTime EXCEPT ![t] = 0]
      /\ nextTriggerTime' \in [Timers -> Nat]
      /\ Recomputed(armed', nextTriggerTime') /\ updateNeeded' \in BOOLEAN
      /\ ~holdUpdate => nextTrigger <= nextTrigger'
  BY <1>1, CancelTimerFacts
<1>3. /\ UNCHANGED <<ticksProgressed, notificationScheduled, scheduled, systemTime, triggerPeriod, stage, amount, more>>
      /\ UNCHANGED <<reschedule, starting, elapsed, latency, handled, notBefore, fired>>
  BY DEF processVars, historyVars
<1>4. nextTrigger' \in Times /\ ticksNextNotification' \in 0 .. HalfRange
  BY <1>2 DEF Recomputed
<1>5. TypeOK'
  BY <1>1, <1>2, <1>3, <1>4 DEF TypeOK, Times, Timers, Word
<1>6. CountInv' /\ NotifyInv'
  BY <1>1, <1>3 DEF CountInv, NotifyInv
<1>7. NextTriggerInv' /\ TargetInv'
  BY <1>2, <1>3, TriggerNext DEF Recomputed, holdUpdate
<1>8. StartInv'
  BY <1>1, <1>3 DEF StartInv, None, Timers
<1>9. ArmedInv'
  <2>1. \A u \in armed' : u \in armed /\ nextTriggerTime'[u] = nextTriggerTime[u]
    BY <1>1, <1>2 DEF TypeOK
  <2> QED
    BY <1>1, <1>3, <2>1 DEF ArmedInv
<1>10. DueInv'
  <2> SUFFICES ASSUME stage = "idle", ~scheduled, nextTrigger' <= elapsed PROVE handled = elapsed
    BY <1>3 DEF DueInv
  <2>1. nextTrigger <= nextTrigger'
    BY <1>2 DEF holdUpdate
  <2>2. nextTrigger <= elapsed
    BY <2>1, <1>1, <1>4 DEF TypeOK, Times
  <2> QED
    BY <2>2, <1>1 DEF DueInv
<1> QED
  BY <1>5, <1>6, <1>7, <1>8, <1>9, <1>10 DEF IInv

\* Start computes the time at which the timer is to expire, which the interrupt may overtake
\* before it is set.
LEMMA StartStep ==
    ASSUME IInv, NEW t \in Timers, NEW time \in Nat, NEW period \in Nat, MayCall,
           starting' = [timer |-> {t}, time |-> time],
           notBefore' = [notBefore EXCEPT ![t] = time],
           triggerPeriod' = [triggerPeriod EXCEPT ![t] = period],
           t \in Repeaters => period > 0,
           UNCHANGED <<sharedVars, systemTime, timerVars, processVars, elapsed, latency, handled, fired>>
    PROVE  IInv'
<1>1. TypeOK /\ CountInv /\ NotifyInv /\ NextTriggerInv /\ TargetInv /\ StartInv /\ ArmedInv /\ DueInv
  BY DEF IInv
<1>2. /\ UNCHANGED <<ticksProgressed, ticksNextNotification, notificationScheduled, scheduled, systemTime>>
      /\ UNCHANGED <<nextTrigger, updateNeeded, armed, nextTriggerTime>>
      /\ UNCHANGED <<stage, amount, more, reschedule, elapsed, latency, handled, fired>>
  BY DEF sharedVars, timerVars, processVars
<1>3. starting = None /\ stage \in {"idle", "action"}
  BY DEF MayCall
<1>4. /\ starting'.timer = {t} /\ starting'.time = time
      /\ starting' \in [timer : SUBSET Timers, time : Nat]
  OBVIOUS
<1>5. /\ notBefore' \in [Timers -> Nat] /\ triggerPeriod' \in [Timers -> Nat]
      /\ notBefore'[t] = time /\ triggerPeriod'[t] = period
      /\ \A u \in Timers \ {t} : notBefore'[u] = notBefore[u] /\ triggerPeriod'[u] = triggerPeriod[u]
  BY <1>1 DEF TypeOK
<1>6. TypeOK'
  BY <1>1, <1>2, <1>4, <1>5 DEF TypeOK, Times, Timers, Word
<1>7. CountInv' /\ NotifyInv' /\ DueInv'
  BY <1>1, <1>2 DEF CountInv, NotifyInv, DueInv
<1>8. NextTriggerInv' /\ TargetInv'
  BY <1>1, <1>2, TriggerNext DEF NextTriggerInv, TargetInv, holdUpdate
<1>9. StartInv'
  BY <1>2, <1>3, <1>4, <1>5 DEF StartInv, Timers
<1>10. ArmedInv'
  <2>1. ASSUME NEW u \in armed \ {t}
        PROVE  /\ notBefore'[u] <= nextTriggerTime[u]
               /\ u \in Repeaters => /\ triggerPeriod'[u] > 0
                                     /\ (nextTriggerTime[u] - notBefore'[u]) % triggerPeriod'[u] = 0
    <3>1. u \in Timers \ {t} /\ u \in armed \ starting.timer
      BY <1>1, <1>3 DEF TypeOK, None
    <3> QED
      BY <3>1, <1>1, <1>5 DEF ArmedInv
  <2> QED
    BY <2>1, <1>2, <1>4 DEF ArmedInv
<1> QED
  BY <1>6, <1>7, <1>8, <1>9, <1>10 DEF IInv

\* Start with a duration counts from the present tick.
LEMMA StartDurationStep ==
    ASSUME IInv, NEW t \in Timers, NEW duration \in Durations, StartDuration(t, duration)
    PROVE  IInv'
<1>1. TypeOK /\ CountInv /\ MayCall
  BY DEF IInv, StartDuration
<1>2. amount = 0 /\ Now = elapsed /\ elapsed \in Nat /\ duration \in Nat
  BY <1>1, Bounds DEF CountInv, MayCall, TypeOK, Now
<1> DEFINE time == elapsed + duration + 1
           period == IF t \in Repeaters THEN duration ELSE triggerPeriod[t]
<1>3. time \in Nat /\ period \in Nat
  BY <1>1, <1>2 DEF TypeOK
<1>4. triggerPeriod' = [triggerPeriod EXCEPT ![t] = period]
  BY <1>1 DEF StartDuration, TypeOK
<1>5. /\ starting' = [timer |-> {t}, time |-> time] /\ notBefore' = [notBefore EXCEPT ![t] = time]
      /\ t \in Repeaters => period > 0
      /\ UNCHANGED <<sharedVars, systemTime, timerVars, processVars, elapsed, latency, handled, fired>>
  BY <1>2 DEF StartDuration
<1> HIDE DEF time, period
<1> QED
  BY <1>1, <1>3, <1>4, <1>5, StartStep

\* Start with a time point.
LEMMA StartTimeStep ==
    ASSUME IInv, NEW t \in Timers, NEW time \in StartTimes, StartTime(t, time)
    PROVE  IInv'
<1> DEFINE period == triggerPeriod[t]
<1>1. TypeOK /\ MayCall /\ t \notin Repeaters
  BY TimersAssumption DEF IInv, StartTime
<1>2. time + 1 \in Nat /\ period \in Nat
  BY <1>1, Bounds DEF TypeOK
<1>3. triggerPeriod' = [triggerPeriod EXCEPT ![t] = period]
  BY <1>1 DEF StartTime, TypeOK
<1>4. /\ starting' = [timer |-> {t}, time |-> time + 1] /\ notBefore' = [notBefore EXCEPT ![t] = time + 1]
      /\ UNCHANGED <<sharedVars, systemTime, timerVars, processVars, elapsed, latency, handled, fired>>
  BY DEF StartTime
<1> HIDE DEF period
<1> QED
  BY <1>1, <1>2, <1>3, <1>4, StartStep

\* The timer is set to the time that was computed.
LEMMA StartDoneStep ==
    ASSUME IInv, StartDone
    PROVE  IInv'
<1>1. TypeOK /\ CountInv /\ NotifyInv /\ NextTriggerInv /\ TargetInv /\ StartInv /\ ArmedInv
  BY DEF IInv
<1> DEFINE time == starting.time
<1>2. PICK t \in starting.timer : SetNextTriggerTime(t, time)
  BY DEF StartDone
<1>3. /\ t \in Timers /\ time \in Nat /\ starting.timer = {t}
      /\ time = notBefore[t] /\ (t \in Repeaters => triggerPeriod[t] > 0)
  BY <1>1 DEF TypeOK, StartInv, None
<1>4. /\ armed' = armed \cup {t} /\ nextTriggerTime' = [nextTriggerTime EXCEPT ![t] = time]
      /\ nextTriggerTime' \in [Timers -> Nat]
      /\ Recomputed(armed', nextTriggerTime') /\ updateNeeded' \in BOOLEAN
  BY <1>1, <1>2, <1>3, SetNextTriggerTimeFacts
<1>5. /\ UNCHANGED <<ticksProgressed, notificationScheduled, scheduled, systemTime, triggerPeriod, stage, amount, more>>
      /\ UNCHANGED <<reschedule, elapsed, latency, notBefore, fired>>
      /\ starting' = None /\ handled' = elapsed
  BY DEF StartDone, processVars
<1>6. nextTrigger' \in Times /\ ticksNextNotification' \in 0 .. HalfRange
  BY <1>4 DEF Recomputed
<1>7. armed' \subseteq Timers /\ starting' \in [timer : SUBSET Timers, time : Nat] /\ starting'.timer = {}
  BY <1>1, <1>3, <1>4, <1>5 DEF TypeOK, None
<1>8. TypeOK'
  BY <1>1, <1>4, <1>5, <1>6, <1>7 DEF TypeOK, Times, Timers, Word
<1>9. CountInv' /\ NotifyInv' /\ DueInv'
  BY <1>1, <1>5 DEF CountInv, NotifyInv, DueInv
<1>10. NextTriggerInv' /\ TargetInv'
  BY <1>4, <1>5, TriggerNext DEF Recomputed, holdUpdate
<1>11. StartInv'
  BY <1>5, <1>7 DEF StartInv, None
<1>12. ArmedInv'
  <2>1. ASSUME NEW u \in armed'
        PROVE  /\ notBefore[u] <= nextTriggerTime'[u]
               /\ u \in Repeaters => /\ triggerPeriod[u] > 0
                                     /\ (nextTriggerTime'[u] - notBefore[u]) % triggerPeriod[u] = 0
    <3>1. CASE u = t
      <4>1. nextTriggerTime'[u] = notBefore[u] /\ notBefore[u] \in Nat /\ triggerPeriod[u] \in Nat
        BY <3>1, <1>1, <1>3, <1>4 DEF TypeOK
      <4>2. nextTriggerTime'[u] - notBefore[u] = 0
        BY <4>1
      <4> QED
        BY <3>1, <4>1, <4>2, <1>3
    <3>2. CASE u # t
      <4>1. u \in armed \ starting.timer /\ nextTriggerTime'[u] = nextTriggerTime[u]
        BY <3>2, <1>1, <1>3, <1>4 DEF TypeOK
      <4> QED
        BY <4>1, <1>1 DEF ArmedInv
    <3> QED
      BY <3>1, <3>2
  <2> QED
    BY <2>1, <1>5, <1>7 DEF ArmedInv
<1> QED
  BY <1>8, <1>9, <1>10, <1>11, <1>12 DEF IInv

\* However late a repeating timer is handled, it is next due after a whole number of periods.
LEMMA NextPeriodFacts ==
    ASSUME IInv, stage = "loop", NEW t \in armed, t \in Repeaters
    PROVE  /\ NextPeriod(t) \in Nat /\ notBefore[t] <= NextPeriod(t) /\ triggerPeriod[t] > 0
           /\ (NextPeriod(t) - notBefore[t]) % triggerPeriod[t] = 0
<1> DEFINE now == Max({Now, nextTriggerTime[t]})
           p == triggerPeriod[t]
           a == nextTriggerTime[t] - notBefore[t]
           b == now - nextTriggerTime[t]
<1>1. TypeOK /\ StartInv /\ ArmedInv /\ t \in Timers
  BY DEF IInv, TypeOK
<1>2. t \in armed \ starting.timer
  BY <1>1 DEF StartInv, None
<1>3. /\ nextTriggerTime[t] \in Nat /\ notBefore[t] \in Nat /\ p \in Nat \ {0} /\ Now \in Nat
      /\ notBefore[t] <= nextTriggerTime[t] /\ a % p = 0
  BY <1>1, <1>2, Bounds DEF TypeOK, ArmedInv, Now
<1>4. now \in Nat /\ now >= nextTriggerTime[t]
  <2>1. now = IF Now >= nextTriggerTime[t] THEN Now ELSE nextTriggerTime[t]
    BY <1>3, MaxOfTwo
  <2> HIDE DEF now
  <2> QED
    BY <2>1, <1>3
<1>5. NextPeriod(t) = now - (b % p) + p
  BY DEF NextPeriod
<1> HIDE DEF now
<1>6. a \in Nat /\ b \in Nat
  BY <1>3, <1>4
<1>7. now = notBefore[t] + a + b
  BY <1>3, <1>4
<1> HIDE DEF a, b, p
<1>8. (a + (b - (b % p)) + p) % p = 0 /\ b - (b % p) \in Nat /\ b % p \in 0 .. p - 1
  <2>1. a \in Nat /\ b \in Nat /\ p \in Nat \ {0} /\ a % p = 0
    BY <1>3, <1>6
  <2> QED
    BY ONLY <2>1, Multiples, Zenon
<1> DEFINE m == b % p
           c == a + (b - m) + p
<1>9. c \in Nat /\ NextPeriod(t) = notBefore[t] + c /\ c % p = 0
  <2>1. m \in Nat /\ b - m \in Nat
    BY <1>3, <1>8
  <2>2. c % p = 0
    BY <1>8
  <2>3. NextPeriod(t) = now - m + p
    BY <1>5
  <2> HIDE DEF m
  <2>4. p \in Nat /\ notBefore[t] \in Nat
    BY <1>3
  <2>5. c \in Nat
    BY <1>6, <2>1, <2>4
  <2>6. NextPeriod(t) = notBefore[t] + c
    BY <1>6, <1>7, <2>1, <2>3, <2>4
  <2> QED
    BY <2>2, <2>5, <2>6
<1> HIDE DEF c, m
<1>10. NextPeriod(t) \in Nat /\ notBefore[t] <= NextPeriod(t) /\ NextPeriod(t) - notBefore[t] = c
  BY <1>3, <1>9
<1> QED
  BY <1>3, <1>9, <1>10 DEF p

\* A timer expires: it is cancelled or started again.
LEMMA ExpireStep ==
    ASSUME IInv, NEW t \in Timers, Expire(t)
    PROVE  IInv'
<1>1. TypeOK /\ CountInv /\ NotifyInv /\ NextTriggerInv /\ TargetInv /\ StartInv /\ ArmedInv
  BY DEF IInv
<1>2. /\ stage = "loop" /\ stage' = "action" /\ t \in armed /\ fired' = {t}
      /\ UNCHANGED <<ticksProgressed, notificationScheduled, scheduled, systemTime, triggerPeriod, amount>>
      /\ UNCHANGED <<reschedule, starting, elapsed, latency, handled, notBefore>>
  BY DEF Expire, Expired
<1>3. starting = None /\ starting.timer = {} /\ more' \in BOOLEAN /\ holdUpdate /\ holdUpdate'
  BY <1>1, <1>2 DEF StartInv, None, Expire, holdUpdate
<1>4. /\ armed' \subseteq armed /\ nextTriggerTime' \in [Timers -> Nat]
      /\ \A u \in armed' \ {t} : nextTriggerTime'[u] = nextTriggerTime[u]
      /\ t \in armed' => t \in Repeaters /\ nextTriggerTime'[t] = NextPeriod(t)
      /\ Recomputed(armed', nextTriggerTime') /\ updateNeeded' \in BOOLEAN
  <2>1. CASE t \in SingleShots
    <3>1. CancelTimer(t)
      BY <2>1 DEF Expire
    <3>2. /\ armed' = armed \ {t} /\ nextTriggerTime' = [nextTriggerTime EXCEPT ![t] = 0]
          /\ nextTriggerTime' \in [Timers -> Nat]
          /\ Recomputed(armed', nextTriggerTime') /\ updateNeeded' \in BOOLEAN
      BY <3>1, <1>1, CancelTimerFacts
    <3> QED
      BY <3>2, <1>1 DEF TypeOK
  <2>2. CASE t \notin SingleShots
    <3>1. SetNextTriggerTime(t, NextPeriod(t)) /\ t \in Repeaters
      BY <2>2 DEF Expire, Timers
    <3>2. NextPeriod(t) \in Nat
      BY <3>1, <1>2, NextPeriodFacts
    <3>3. /\ armed' = armed \cup {t} /\ nextTriggerTime' = [nextTriggerTime EXCEPT ![t] = NextPeriod(t)]
          /\ nextTriggerTime' \in [Timers -> Nat]
          /\ Recomputed(armed', nextTriggerTime') /\ updateNeeded' \in BOOLEAN
      BY <3>1, <3>2, <1>1, SetNextTriggerTimeFacts
    <3> QED
      BY <3>1, <3>3, <1>1, <1>2 DEF TypeOK
  <2> QED
    BY <2>1, <2>2
<1>5. nextTrigger' \in Times /\ ticksNextNotification' \in 0 .. HalfRange
  BY <1>4 DEF Recomputed
<1>6. TypeOK'
  <2>1. armed' \subseteq Timers /\ fired' \in SUBSET Timers
    BY <1>1, <1>2, <1>4 DEF TypeOK
  <2> QED
    BY <1>1, <1>2, <1>3, <1>4, <1>5, <2>1 DEF TypeOK, Times, Timers, Word
<1>7. CountInv' /\ NotifyInv' /\ DueInv'
  BY <1>1, <1>2 DEF CountInv, NotifyInv, DueInv
<1>8. NextTriggerInv' /\ TargetInv'
  BY <1>3, <1>4, TriggerNext DEF Recomputed
<1>9. StartInv'
  BY <1>2, <1>3 DEF StartInv, None
<1>10. ArmedInv'
  <2>1. ASSUME NEW u \in armed'
        PROVE  /\ notBefore[u] <= nextTriggerTime'[u]
               /\ u \in Repeaters => /\ triggerPeriod[u] > 0
                                     /\ (nextTriggerTime'[u] - notBefore[u]) % triggerPeriod[u] = 0
    <3>1. CASE u = t
      BY <3>1, <1>2, <1>4, NextPeriodFacts
    <3>2. CASE u # t
      BY <3>2, <1>1, <1>3, <1>4 DEF ArmedInv
    <3> QED
      BY <3>1, <3>2
  <2> QED
    BY <2>1, <1>2, <1>3 DEF ArmedInv
<1> QED
  BY <1>6, <1>7, <1>8, <1>9, <1>10 DEF IInv

\* ProcessTicks takes what was counted.
LEMMA TakeTicksStep ==
    ASSUME IInv, TakeTicks
    PROVE  IInv'
<1>1. TypeOK /\ CountInv /\ NotifyInv /\ NextTriggerInv /\ TargetInv /\ StartInv /\ ArmedInv
  BY DEF IInv
<1>2. /\ stage = "idle" /\ stage' = "add" /\ scheduled /\ amount' = ticksProgressed /\ ticksProgressed' = 0
      /\ starting = None /\ scheduled' = FALSE
      /\ UNCHANGED <<ticksNextNotification, notificationScheduled, systemTime, nextTrigger, updateNeeded, armed>>
      /\ UNCHANGED <<nextTriggerTime, triggerPeriod, more, reschedule, starting, elapsed, latency, handled>>
      /\ UNCHANGED <<notBefore, fired>>
  BY DEF TakeTicks, timerVars, historyVars
<1>3. 0 \in 0 .. Word - 1 /\ latency \in Nat /\ ticksProgressed \in Nat /\ systemTime \in Nat
  BY <1>1, Bounds DEF TypeOK
<1>4. TypeOK'
  BY <1>1, <1>2, <1>3 DEF TypeOK, Times, Timers, Word
<1>5. CountInv'
  BY <1>1, <1>2, <1>3 DEF CountInv
<1>6. NotifyInv'
  <2>1. notificationScheduled /\ notificationScheduled'
    BY <1>1, <1>2 DEF NotifyInv
  <2>2. ticksProgressed' <= latency'
    BY <1>2, <1>3
  <2> QED
    BY <1>2, <2>1, <2>2 DEF NotifyInv
<1>7. NextTriggerInv' /\ TargetInv'
  BY <1>1, <1>2, TriggerNext DEF NextTriggerInv, TargetInv, holdUpdate
<1>8. StartInv' /\ ArmedInv' /\ DueInv'
  BY <1>1, <1>2 DEF StartInv, ArmedInv, DueInv, None, Timers
<1> QED
  BY <1>4, <1>5, <1>6, <1>7, <1>8 DEF IInv

\* TimeProgressed adds it to the system time.
LEMMA AddTimeStep ==
    ASSUME IInv, AddTime
    PROVE  IInv'
<1>1. TypeOK /\ CountInv /\ NotifyInv /\ NextTriggerInv /\ StartInv /\ ArmedInv
  BY DEF IInv
<1>2. /\ stage = "add" /\ stage' = "loop" /\ systemTime' = systemTime + amount /\ amount' = 0 /\ more' = TRUE
      /\ UNCHANGED <<ticksProgressed, ticksNextNotification, notificationScheduled, scheduled>>
      /\ UNCHANGED <<nextTrigger, updateNeeded, armed, nextTriggerTime, triggerPeriod, reschedule>>
      /\ UNCHANGED <<starting, elapsed, latency, handled, notBefore, fired>>
  BY DEF AddTime, sharedVars, timerVars, historyVars
<1>3. 0 \in 0 .. Word - 1 /\ amount \in Nat /\ ticksProgressed \in Nat /\ systemTime \in Nat
  BY <1>1, Bounds DEF TypeOK
<1>4. TypeOK'
  <2>1. systemTime' \in Nat /\ amount' \in 0 .. Word - 1
    BY <1>2, <1>3
  <2>2. more' \in BOOLEAN
    BY <1>2
  <2> QED
    BY <1>1, <1>2, <2>1, <2>2 DEF TypeOK, Times, Timers, Word
<1>5. CountInv'
  BY <1>1, <1>2, <1>3 DEF CountInv
<1>6. NotifyInv'
  BY <1>1, <1>2 DEF NotifyInv
<1>7. NextTriggerInv' /\ TargetInv'
  BY <1>1, <1>2, TriggerNext DEF NextTriggerInv, holdUpdate
<1>8. StartInv' /\ ArmedInv' /\ DueInv'
  BY <1>1, <1>2 DEF StartInv, ArmedInv, DueInv, None, Timers
<1> QED
  BY <1>4, <1>5, <1>6, <1>7, <1>8 DEF IInv

\* A timer's action returns.
LEMMA ActionDoneStep ==
    ASSUME IInv, ActionDone
    PROVE  IInv'
<1>1. TypeOK /\ CountInv /\ NotifyInv /\ NextTriggerInv /\ StartInv /\ ArmedInv
  BY DEF IInv
<1>2. /\ stage = "action" /\ stage' = "loop" /\ starting = None
      /\ UNCHANGED <<ticksProgressed, ticksNextNotification, notificationScheduled, scheduled, systemTime>>
      /\ UNCHANGED <<nextTrigger, updateNeeded, armed, nextTriggerTime, triggerPeriod, amount, more, reschedule>>
      /\ UNCHANGED <<starting, elapsed, latency, handled, notBefore, fired>>
  BY DEF ActionDone, sharedVars, timerVars, historyVars
<1>3. TypeOK'
  BY <1>1, <1>2 DEF TypeOK, Times, Timers, Word
<1>4. CountInv' /\ NotifyInv'
  BY <1>1, <1>2 DEF CountInv, NotifyInv
<1>5. NextTriggerInv' /\ TargetInv'
  BY <1>1, <1>2, TriggerNext DEF NextTriggerInv, holdUpdate
<1>6. StartInv' /\ ArmedInv' /\ DueInv'
  BY <1>1, <1>2 DEF StartInv, ArmedInv, DueInv, None, Timers
<1> QED
  BY <1>3, <1>4, <1>5, <1>6 DEF IInv

\* Progressed ends with the computation that was held, if one was needed.
LEMMA ProgressedDoneStep ==
    ASSUME IInv, ProgressedDone
    PROVE  IInv'
<1>1. TypeOK /\ CountInv /\ NotifyInv /\ NextTriggerInv /\ StartInv /\ ArmedInv
  BY DEF IInv
<1>2. /\ stage = "loop" /\ stage' = "compare" /\ updateNeeded' = FALSE /\ more' = FALSE
      /\ nextTrigger' = IF updateNeeded THEN FirstTrigger(armed, nextTriggerTime) ELSE nextTrigger
      /\ ticksNextNotification' = TicksUntil(systemTime, nextTrigger')
      /\ UNCHANGED <<ticksProgressed, notificationScheduled, scheduled, systemTime, armed, nextTriggerTime>>
      /\ UNCHANGED <<triggerPeriod, amount, reschedule, starting, elapsed, latency, handled, notBefore, fired>>
  BY DEF ProgressedDone, historyVars
<1>3. nextTrigger' = FirstTrigger(armed, nextTriggerTime)
  BY <1>1, <1>2 DEF NextTriggerInv
<1>4. nextTrigger' \in Times /\ ticksNextNotification' \in 0 .. HalfRange
  <2>1. nextTrigger' \in Times
    BY <1>1, <1>3, FirstTriggerFacts DEF TypeOK
  <2>2. nextTrigger' \in Nat
    BY <2>1 DEF Times
  <2> QED
    BY <1>1, <1>2, <2>1, <2>2, TicksUntilFacts DEF TypeOK
<1>5. TypeOK'
  <2>1. updateNeeded' \in BOOLEAN /\ more' \in BOOLEAN
    BY <1>2
  <2> QED
    BY <1>1, <1>2, <1>4, <2>1 DEF TypeOK, Times, Timers, Word
<1>6. CountInv' /\ NotifyInv'
  BY <1>1, <1>2 DEF CountInv, NotifyInv
<1>7. NextTriggerInv' /\ TargetInv'
  BY <1>2, <1>3, TriggerNext
<1>8. StartInv' /\ ArmedInv' /\ DueInv'
  BY <1>1, <1>2 DEF StartInv, ArmedInv, DueInv, None, Timers
<1> QED
  BY <1>5, <1>6, <1>7, <1>8 DEF IInv

\* ProcessTicks looks whether it is due again.
LEMMA CompareTicksStep ==
    ASSUME IInv, CompareTicks
    PROVE  IInv'
<1>1. TypeOK /\ CountInv /\ NotifyInv /\ NextTriggerInv /\ TargetInv /\ StartInv /\ ArmedInv
  BY DEF IInv
<1>2. /\ stage = "compare" /\ stage' = "store" /\ reschedule' \in BOOLEAN
      /\ UNCHANGED <<ticksProgressed, ticksNextNotification, notificationScheduled, scheduled, systemTime>>
      /\ UNCHANGED <<nextTrigger, updateNeeded, armed, nextTriggerTime, triggerPeriod, amount, more>>
      /\ UNCHANGED <<starting, elapsed, latency, handled, notBefore, fired>>
  BY DEF CompareTicks, sharedVars, timerVars, historyVars
<1>3. TypeOK'
  BY <1>1, <1>2 DEF TypeOK, Times, Timers, Word
<1>4. CountInv' /\ NotifyInv'
  BY <1>1, <1>2 DEF CountInv, NotifyInv
<1>5. NextTriggerInv' /\ TargetInv'
  BY <1>1, <1>2, TriggerNext DEF NextTriggerInv, TargetInv, holdUpdate
<1>6. StartInv' /\ ArmedInv' /\ DueInv'
  BY <1>1, <1>2 DEF StartInv, ArmedInv, DueInv, None, Timers
<1> QED
  BY <1>3, <1>4, <1>5, <1>6 DEF IInv

\* ... and stores the outcome, although ticks may have come in between.
LEMMA StoreScheduledStep ==
    ASSUME IInv, StoreScheduled
    PROVE  IInv'
<1>1. TypeOK /\ CountInv /\ NotifyInv /\ NextTriggerInv /\ TargetInv /\ StartInv /\ ArmedInv
  BY DEF IInv
<1>2. /\ stage = "store" /\ stage' = "idle" /\ notificationScheduled' = reschedule /\ scheduled' = reschedule
      /\ reschedule' = FALSE /\ latency' = 0 /\ handled' = elapsed
      /\ UNCHANGED <<ticksProgressed, ticksNextNotification, systemTime, nextTrigger, updateNeeded, armed>>
      /\ UNCHANGED <<nextTriggerTime, triggerPeriod, amount, more, starting, elapsed, notBefore, fired>>
  BY DEF StoreScheduled, timerVars
<1>3. TypeOK'
  <2>1. notificationScheduled' \in BOOLEAN /\ scheduled' \in BOOLEAN /\ reschedule' \in BOOLEAN
    BY <1>1, <1>2 DEF TypeOK
  <2>2. latency' \in 0 .. MaxLatency /\ handled' \in Nat
    BY <1>1, <1>2, Bounds DEF TypeOK
  <2> QED
    BY <1>1, <1>2, <2>1, <2>2 DEF TypeOK, Times, Timers, Word
<1>4. CountInv'
  BY <1>1, <1>2 DEF CountInv
<1>5. NotifyInv'
  <2>1. ticksProgressed' <= HalfRange /\ ticksProgressed' <= HalfRange + 1 + latency'
    <3>1. ticksProgressed <= latency
      BY <1>1, <1>2 DEF NotifyInv
    <3> QED
      BY <3>1, <1>1, <1>2, Bounds DEF TypeOK
  <2>2. notificationScheduled' <=> scheduled' \/ stage' # "idle"
    BY <1>2
  <2> QED
    BY <1>2, <2>1, <2>2 DEF NotifyInv
<1>6. NextTriggerInv' /\ TargetInv'
  BY <1>1, <1>2, TriggerNext DEF NextTriggerInv, TargetInv, holdUpdate
<1>7. StartInv' /\ ArmedInv' /\ DueInv'
  BY <1>1, <1>2 DEF StartInv, ArmedInv, DueInv, None, Timers
<1> QED
  BY <1>3, <1>4, <1>5, <1>6, <1>7 DEF IInv

\* Nothing happens.
LEMMA StutterStep ==
    ASSUME IInv, UNCHANGED vars
    PROVE  IInv'
<1>1. TypeOK /\ CountInv /\ NotifyInv /\ NextTriggerInv /\ TargetInv /\ StartInv /\ ArmedInv /\ DueInv
  BY DEF IInv
<1>2. /\ UNCHANGED <<ticksProgressed, ticksNextNotification, notificationScheduled, scheduled, systemTime>>
      /\ UNCHANGED <<nextTrigger, updateNeeded, armed, nextTriggerTime, triggerPeriod>>
      /\ UNCHANGED <<stage, amount, more, reschedule, starting, elapsed, latency, handled, notBefore, fired>>
  BY DEF vars, sharedVars, timerVars, processVars, historyVars
<1>3. TypeOK'
  BY <1>1, <1>2 DEF TypeOK, Times, Timers, Word
<1>4. CountInv' /\ NotifyInv' /\ DueInv'
  BY <1>1, <1>2 DEF CountInv, NotifyInv, DueInv
<1>5. NextTriggerInv' /\ TargetInv'
  BY <1>1, <1>2, TriggerNext DEF NextTriggerInv, TargetInv, holdUpdate
<1>6. StartInv' /\ ArmedInv'
  BY <1>1, <1>2 DEF StartInv, ArmedInv, None, Timers
<1> QED
  BY <1>3, <1>4, <1>5, <1>6 DEF IInv

----------------------------------------------------------------------------
(* The theorems *)

\* The service begins without timers, waiting for as long as the counter allows.
LEMMA InvInit ==
    ASSUME Init
    PROVE  IInv
<1>1. /\ ticksProgressed = 0 /\ ticksNextNotification = TicksUntil(0, TimeMax) /\ systemTime = 0
      /\ nextTrigger = TimeMax /\ armed = {} /\ stage = "idle" /\ amount = 0 /\ elapsed = 0
      /\ latency = 0 /\ handled = 0 /\ starting = None /\ fired = {}
      /\ nextTriggerTime = [t \in Timers |-> 0] /\ triggerPeriod = [t \in Timers |-> 0]
      /\ notBefore = [t \in Timers |-> 0]
  BY DEF Init
<1>2. /\ notificationScheduled = FALSE /\ scheduled = FALSE /\ updateNeeded = FALSE
      /\ more = FALSE /\ reschedule = FALSE
  BY DEF Init
<1>3. TypeOK
  <2>1. /\ 0 \in 0 .. Word - 1 /\ 0 \in 0 .. MaxLatency /\ TimeMax \in Times
        /\ TicksUntil(0, TimeMax) \in 0 .. HalfRange
    BY Bounds, TicksUntilFacts DEF Times
  <2>2. /\ notificationScheduled \in BOOLEAN /\ scheduled \in BOOLEAN /\ updateNeeded \in BOOLEAN
        /\ more \in BOOLEAN /\ reschedule \in BOOLEAN
    BY <1>2
  <2>3. None \in [timer : SUBSET Timers, time : Nat]
    BY DEF None
  <2>4. [t \in Timers |-> 0] \in [Timers -> Nat]
    OBVIOUS
  <2> QED
    BY <1>1, <2>1, <2>2, <2>3, <2>4 DEF TypeOK
<1>4. CountInv /\ DueInv
  BY <1>1, Bounds DEF CountInv, DueInv
<1>5. NotifyInv
  BY <1>1, <1>2, Bounds DEF NotifyInv
<1>6. NextTriggerInv
  <2>1. TimeMax \in Times
    BY Bounds DEF Times
  <2>2. FirstTrigger({}, nextTriggerTime) = TimeMax
    BY <1>3, <2>1, FirstTriggerFacts DEF TypeOK
  <2> QED
    BY <1>1, <2>2 DEF NextTriggerInv
<1>7. TargetInv
  BY <1>1 DEF TargetInv
<1>8. StartInv /\ ArmedInv
  BY <1>1 DEF StartInv, ArmedInv, None
<1> QED
  BY <1>3, <1>4, <1>5, <1>6, <1>7, <1>8 DEF IInv

\* Every step of the interrupt and of the dispatching thread keeps the invariant.
LEMMA InvStep ==
    ASSUME IInv, [Next]_vars
    PROVE  IInv'
<1>1. CASE SystemTickInterrupt
  BY <1>1, TickStep
<1>2. ASSUME NEW t \in Timers, Cancel(t) PROVE IInv'
  BY <1>2, CancelStep DEF Cancel
<1>3. ASSUME NEW t \in Timers, NEW duration \in Durations, StartDuration(t, duration) PROVE IInv'
  BY <1>3, StartDurationStep
<1>4. ASSUME NEW t \in Timers, NEW time \in StartTimes, StartTime(t, time) PROVE IInv'
  BY <1>4, StartTimeStep
<1>5. ASSUME NEW t \in Timers, NEW time \in StartTimes, StartNever(t, time) PROVE IInv'
  BY <1>5, CancelStep DEF StartNever
<1>6. CASE StartDone
  BY <1>6, StartDoneStep
<1>7. CASE ProcessTicks
  BY <1>7, TakeTicksStep, AddTimeStep, ExpireStep, ActionDoneStep, ProgressedDoneStep, CompareTicksStep,
     StoreScheduledStep DEF ProcessTicks
<1>8. CASE UNCHANGED vars
  BY <1>8, StutterStep
<1> QED
  BY <1>1, <1>2, <1>3, <1>4, <1>5, <1>6, <1>7, <1>8 DEF Next

\* The invariant holds in every state.
THEOREM Invariant == Spec => []IInv
<1>1. Init => IInv
  BY InvInit
<1>2. IInv /\ [Next]_vars => IInv'
  BY InvStep
<1> QED
  BY <1>1, <1>2, PTL DEF Spec

\* No tick is lost or counted twice, and the tick counter never overflows as long as the
\* dispatcher handles ProcessTicks within half of its range.
THEOREM TicksAreConserved == Spec => []TicksConserved
<1>1. IInv => TicksConserved
  BY DEF IInv, CountInv, TicksConserved
<1> QED
  BY <1>1, Invariant, PTL

\* However timers are started, restarted and cancelled, nextTrigger is that of the first one.
THEOREM FirstIsNext == Spec => []NextTriggerInv
<1>1. IInv => NextTriggerInv
  BY DEF IInv
<1> QED
  BY <1>1, Invariant, PTL

\* A timer that is due waits no longer than until the next tick.
THEOREM DueTimersNotified == Spec => []DueIsNotified
<1>1. IInv => DueIsNotified
  <2> SUFFICES ASSUME IInv, stage = "idle", ~scheduled, NEW t \in armed, nextTriggerTime[t] <= elapsed
               PROVE  handled = elapsed
    BY DEF DueIsNotified
  <2>1. TypeOK /\ NextTriggerInv /\ DueInv
    BY DEF IInv
  <2>2. nextTrigger = FirstTrigger(armed, nextTriggerTime)
    BY <2>1 DEF NextTriggerInv, holdUpdate
  <2>3. nextTrigger <= nextTriggerTime[t] /\ nextTrigger \in Nat /\ nextTriggerTime[t] \in Nat /\ elapsed \in Nat
    BY <2>1, <2>2, FirstTriggerFacts DEF TypeOK, Times
  <2>4. nextTrigger <= elapsed
    BY <2>3
  <2> QED
    BY <2>1, <2>4 DEF DueInv
<1> QED
  BY <1>1, Invariant, PTL

\* A repeating timer expires at whole periods after it was started, however late it is handled.
THEOREM RepeatersInPhase == Spec => []InPhase
<1>1. IInv => InPhase
  <2> SUFFICES ASSUME IInv, NEW t \in armed \cap Repeaters, t \notin starting.timer
               PROVE  /\ nextTriggerTime[t] >= notBefore[t]
                      /\ (nextTriggerTime[t] - notBefore[t]) % triggerPeriod[t] = 0
    BY DEF InPhase
  <2>1. TypeOK /\ ArmedInv /\ t \in Timers
    BY DEF IInv, TypeOK
  <2>2. notBefore[t] <= nextTriggerTime[t] /\ (nextTriggerTime[t] - notBefore[t]) % triggerPeriod[t] = 0
    BY <2>1 DEF ArmedInv
  <2>3. notBefore[t] \in Nat /\ nextTriggerTime[t] \in Nat
    BY <2>1 DEF TypeOK
  <2>4. nextTriggerTime[t] >= notBefore[t]
    BY <2>2, <2>3
  <2> QED
    BY <2>2, <2>4
<1> QED
  BY <1>1, Invariant, PTL

\* No timer's action is called before the time for which the timer was started.
THEOREM NoneExpiresEarly == Spec => NeverEarly
<1>1. ASSUME IInv, [Next]_vars, stage = "loop", stage' = "action"
      PROVE  \A t \in fired' : notBefore[t] <= elapsed
  <2>1. TypeOK /\ CountInv /\ StartInv /\ ArmedInv
    BY <1>1 DEF IInv
  <2>2. \E t \in Timers : Expire(t)
    BY <1>1 DEF Next, ProcessTicks, SystemTickInterrupt, Cancel, StartDuration, StartTime, StartNever, StartDone,
                TakeTicks, AddTime, ActionDone, ProgressedDone, CompareTicks, StoreScheduled, MayCall,
                processVars, vars
  <2>3. PICK t \in Timers : Expire(t)
    BY <2>2
  <2>4. fired' = {t} /\ t \in armed /\ nextTriggerTime[t] <= systemTime
    BY <2>3 DEF Expire, Expired
  <2>5. t \in armed \ starting.timer
    BY <1>1, <2>1, <2>4 DEF StartInv, None
  <2>6. notBefore[t] <= nextTriggerTime[t]
    BY <2>1, <2>5 DEF ArmedInv
  <2>7. systemTime <= elapsed
    BY <2>1, Bounds DEF CountInv, TypeOK
  <2>8. /\ notBefore[t] \in Nat /\ nextTriggerTime[t] \in Nat /\ systemTime \in Nat /\ elapsed \in Nat
    BY <2>1 DEF TypeOK
  <2>9. notBefore[t] <= elapsed
    BY <2>4, <2>6, <2>7, <2>8
  <2> QED
    BY <2>4, <2>9
<1>2. IInv /\ [Next]_vars
        => [stage = "loop" /\ stage' = "action" => \A t \in fired' : notBefore[t] <= elapsed]_vars
  BY <1>1
<1> QED
  BY <1>2, Invariant, PTL DEF Spec, NeverEarly
====
