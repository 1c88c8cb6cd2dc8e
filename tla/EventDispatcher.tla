---- MODULE EventDispatcher ----
(***************************************************************************)
(* infra/event/EventDispatcher.cpp with the Idle and RequestExecution of   *)
(* infra/event/EventDispatcherThreadAware.cpp: a ring of slots, filled by  *)
(* any number of threads (and by the running action itself) without a      *)
(* lock, and emptied by the one thread that is in Run().                   *)
(*                                                                         *)
(* Every access to shared memory is a step of its own, except where two    *)
(* consecutive ones cannot be told apart by another thread.                *)
(***************************************************************************)
EXTENDS Integers, Sequences, FiniteSets

CONSTANTS Threads,        \* threads that call Schedule, other than the dispatching one
          Dispatcher,     \* the thread in Run(); it calls Schedule from inside an action
          Actions,        \* what is scheduled
          None,           \* an empty infra::Function
          Size,           \* scheduledActions.size()
          MaxOutstanding  \* most actions the application has outstanding at once

ASSUME SizeAssumption == Size \in Nat \ {0}
ASSUME CallersAssumption == IsFiniteSet(Threads) /\ Dispatcher \notin Threads
ASSUME OutstandingAssumption == MaxOutstanding \in Nat
ASSUME NoneAssumption == None \notin Actions

Callers == Threads \cup {Dispatcher}
Slots == 0 .. Size - 1

VARIABLES
    first,        \* first[s]: the action in slot s
    second,       \* second[s]: slot s is ready to be executed (atomic)
    pushIndex,    \* scheduledActionsPushIndex (atomic)
    popIndex,     \* scheduledActionsPopIndex
    minCapacity,  \* plain memory, written by every caller
    ready,        \* the flag that Idle waits for, guarded by the mutex
    stage,        \* stage[c]: where caller c is in Schedule
    index,        \* index[c]: caller c's local pushIndex
    action,       \* action[c]: the argument of caller c's Schedule
    lowest,       \* lowest[c]: the value caller c is about to store in minCapacity
    runStage,     \* where the dispatcher is in Run
    running,      \* the action that the dispatcher executes, or None
    aborted,      \* a really_assert has failed: the program has stopped
    pending       \* history: actions whose slot is reserved, not yet started

callerVars == <<stage, index, action, lowest>>
runVars == <<popIndex, runStage, running>>
vars == <<first, second, pushIndex, popIndex, minCapacity, ready, stage, index,
          action, lowest, runStage, running, aborted, pending>>

CallerStages == {"idle", "reserve", "fill", "check", "flag", "measure", "store", "request"}
RunStages == {"try", "execute", "clear", "advance", "idle", "waiting"}

TypeOK ==
    /\ first \in [Slots -> Actions \cup {None}]
    /\ second \in [Slots -> BOOLEAN]
    /\ pushIndex \in Slots
    /\ popIndex \in Slots
    /\ minCapacity \in 1 .. Size
    /\ ready \in BOOLEAN
    /\ stage \in [Callers -> CallerStages]
    /\ index \in [Callers -> Slots]
    /\ action \in [Callers -> Actions \cup {None}]
    /\ lowest \in [Callers -> 1 .. Size]
    /\ runStage \in RunStages
    /\ running \in Actions \cup {None}
    /\ aborted \in BOOLEAN
    /\ pending \in Seq(Actions)

Init ==
    /\ first = [s \in Slots |-> None]
    /\ second = [s \in Slots |-> FALSE]
    /\ pushIndex = 0
    /\ popIndex = 0
    /\ minCapacity = Size
    /\ ready = FALSE
    /\ stage = [c \in Callers |-> "idle"]
    /\ index = [c \in Callers |-> 0]
    /\ action = [c \in Callers |-> None]
    /\ lowest = [c \in Callers |-> Size]
    /\ runStage = "try"
    /\ running = None
    /\ aborted = FALSE
    /\ pending = <<>>

----------------------------------------------------------------------------
(* Schedule *)

\* The slot after s, cyclically
NextSlot(s) == (s + 1) % Size

\* The slot of the executing action stays taken until its flag is cleared
BusySlots == IF runStage \in {"execute", "clear"} THEN 1 ELSE 0
Reserving == {c \in Callers : stage[c] = "reserve"}
Outstanding == Len(pending) + BusySlots + Cardinality(Reserving)

\* The queue is given a size that suffices for the application: no call is made
\* when MaxOutstanding actions are outstanding. The dispatcher's own calls
\* are made by the action that it is executing. The call starts by
\* reading the push index.
CallSchedule(c, a) ==
    /\ stage[c] = "idle"
    /\ c = Dispatcher => runStage = "execute"
    /\ Outstanding < MaxOutstanding
    /\ action' = [action EXCEPT ![c] = a]
    /\ index' = [index EXCEPT ![c] = pushIndex]
    /\ stage' = [stage EXCEPT ![c] = "reserve"]
    /\ UNCHANGED <<first, second, pushIndex, minCapacity, ready, lowest, runVars, aborted, pending>>

\* A variant with a mistake: the index is advanced without comparing it
ReservesAlways(c) == TRUE

\* Whether compare_exchange_weak finds the value that the caller has read
Reserves(c) == pushIndex = index[c]

\* compare_exchange_weak succeeds: the slot is this caller's
Reserve(c) ==
    /\ stage[c] = "reserve"
    /\ Reserves(c)
    /\ pushIndex' = NextSlot(pushIndex)
    /\ pending' = Append(pending, action[c])
    /\ stage' = [stage EXCEPT ![c] = "fill"]
    /\ UNCHANGED <<first, second, minCapacity, ready, index, action, lowest, runVars, aborted>>

\* compare_exchange_weak fails and reloads the index (a spurious failure
\* reloads the same value, which changes nothing)
RetryReserve(c) ==
    /\ stage[c] = "reserve"
    /\ ~Reserves(c)
    /\ index' = [index EXCEPT ![c] = pushIndex]
    /\ UNCHANGED <<first, second, pushIndex, minCapacity, ready, stage, action, lowest, runVars, aborted, pending>>

FillSlot(c) ==
    /\ stage[c] = "fill"
    /\ first' = [first EXCEPT ![index[c]] = action[c]]
    /\ stage' = [stage EXCEPT ![c] = "check"]
    /\ UNCHANGED <<second, pushIndex, minCapacity, ready, index, action, lowest, runVars, aborted, pending>>

\* really_assert that the slot was free
CheckSlotFree(c) ==
    /\ stage[c] = "check"
    /\ aborted' = second[index[c]]
    /\ stage' = [stage EXCEPT ![c] = "flag"]
    /\ UNCHANGED <<first, second, pushIndex, minCapacity, ready, index, action, lowest, runVars, pending>>

FlagSlot(c) ==
    /\ stage[c] = "flag"
    /\ second' = [second EXCEPT ![index[c]] = TRUE]
    /\ stage' = [stage EXCEPT ![c] = "measure"]
    /\ UNCHANGED <<first, pushIndex, minCapacity, ready, index, action, lowest, runVars, aborted, pending>>

FreeSlots(pop, push) == ((Size + pop - push - 1) % Size) + 1

\* The minimum is read, and written back later: minCapacity is plain memory
MeasureCapacity(c) ==
    /\ stage[c] = "measure"
    /\ LET capacity == FreeSlots(popIndex, index[c])
       IN  lowest' = [lowest EXCEPT ![c] = IF capacity < minCapacity THEN capacity ELSE minCapacity]
    /\ stage' = [stage EXCEPT ![c] = "store"]
    /\ UNCHANGED <<first, second, pushIndex, minCapacity, ready, index, action, runVars, aborted, pending>>

\* ... followed by really_assert(minCapacity >= 1)
StoreCapacity(c) ==
    /\ stage[c] = "store"
    /\ minCapacity' = lowest[c]
    /\ aborted' = ~(minCapacity' >= 1)
    /\ stage' = [stage EXCEPT ![c] = "request"]
    /\ UNCHANGED <<first, second, pushIndex, ready, index, action, lowest, runVars, pending>>

\* The flag is set and the condition notified with the mutex held: a waiting
\* dispatcher goes back to testing the flag. Schedule returns, and its locals
\* (reset here to the values of Init) are gone.
RequestExecution(c) ==
    /\ stage[c] = "request"
    /\ ready' = TRUE
    /\ runStage' = IF runStage = "waiting" THEN "idle" ELSE runStage
    /\ stage' = [stage EXCEPT ![c] = "idle"]
    /\ action' = [action EXCEPT ![c] = None]
    /\ index' = [index EXCEPT ![c] = 0]
    /\ lowest' = [lowest EXCEPT ![c] = Size]
    /\ UNCHANGED <<first, second, pushIndex, popIndex, minCapacity, running, aborted, pending>>

CallerStep(c) == \/ Reserve(c)
                 \/ RetryReserve(c)
                 \/ FillSlot(c)
                 \/ CheckSlotFree(c)
                 \/ FlagSlot(c)
                 \/ MeasureCapacity(c)
                 \/ StoreCapacity(c)
                 \/ RequestExecution(c)

----------------------------------------------------------------------------
(* Run: ExecuteAllActions, then Idle, for ever *)

\* The front slot is flagged: its action is called
StartAction ==
    /\ runStage = "try"
    /\ second[popIndex]
    /\ running' = first[popIndex]
    /\ pending' = IF pending = <<>> THEN pending ELSE Tail(pending)
    /\ runStage' = "execute"
    /\ UNCHANGED <<first, second, pushIndex, popIndex, minCapacity, ready, callerVars, aborted>>

NoAction ==
    /\ runStage = "try"
    /\ ~second[popIndex]
    /\ runStage' = "idle"
    /\ UNCHANGED <<first, second, pushIndex, popIndex, minCapacity, ready, callerVars, running, aborted, pending>>

\* The action returns (or throws), and the destructor of ExceptionSafePop
\* empties the slot, releases it and moves on
EndAction ==
    /\ runStage = "execute"
    /\ stage[Dispatcher] = "idle"
    /\ running' = None
    /\ first' = [first EXCEPT ![popIndex] = None]
    /\ runStage' = "clear"
    /\ UNCHANGED <<second, pushIndex, popIndex, minCapacity, ready, callerVars, aborted, pending>>

\* A variant with a mistake: the flag is left set
ClearFlagForgotten ==
    /\ runStage = "clear"
    /\ runStage' = "advance"
    /\ UNCHANGED <<first, second, pushIndex, popIndex, minCapacity, ready, callerVars, running, aborted, pending>>

ClearFlag ==
    /\ runStage = "clear"
    /\ second' = [second EXCEPT ![popIndex] = FALSE]
    /\ runStage' = "advance"
    /\ UNCHANGED <<first, pushIndex, popIndex, minCapacity, ready, callerVars, running, aborted, pending>>

AdvancePop ==
    /\ runStage = "advance"
    /\ popIndex' = NextSlot(popIndex)
    /\ runStage' = "try"
    /\ UNCHANGED <<first, second, pushIndex, minCapacity, ready, callerVars, running, aborted, pending>>

\* A variant with a mistake: Idle sleeps without testing the flag
IdleUntested ==
    /\ runStage = "idle"
    /\ ready' = FALSE
    /\ runStage' = "waiting"
    /\ UNCHANGED <<first, second, pushIndex, popIndex, minCapacity, callerVars, running, aborted, pending>>

\* Idle takes the mutex and tests the flag; it goes to sleep, or consumes it
Idle ==
    /\ runStage = "idle"
    /\ ready' = FALSE
    /\ runStage' = IF ready THEN "try" ELSE "waiting"
    /\ UNCHANGED <<first, second, pushIndex, popIndex, minCapacity, callerVars, running, aborted, pending>>

\* A condition variable may wake up without having been notified
SpuriousWakeUp ==
    /\ runStage = "waiting"
    /\ runStage' = "idle"
    /\ UNCHANGED <<first, second, pushIndex, popIndex, minCapacity, ready, callerVars, running, aborted, pending>>

RunStep == StartAction \/ NoAction \/ EndAction \/ ClearFlag \/ AdvancePop \/ Idle

----------------------------------------------------------------------------
Next ==
    /\ ~aborted
    /\ \/ \E c \in Callers, a \in Actions : CallSchedule(c, a)
       \/ \E c \in Callers : CallerStep(c)
       \/ RunStep
       \/ SpuriousWakeUp

\* Threads are scheduled fairly, and an action that has been started ends:
\* actions are short and do not block.
Fairness == /\ \A c \in Callers : WF_vars(~aborted /\ CallerStep(c))
            /\ WF_vars(~aborted /\ RunStep)

Spec == Init /\ [][Next]_vars
FairSpec == Spec /\ Fairness

----------------------------------------------------------------------------
(* Properties *)

\* As long as no more than Size actions are outstanding, neither really_assert
\* of Schedule fails: a reserved slot is free when it is flagged, in
\* every interleaving of the callers with each other and with the pop.
AssertsHold == ~aborted

\* The i-th slot, counting cyclically from s
Ahead(s, i) == IF s + i < Size THEN s + i ELSE s + i - Size

\* The slot of the oldest action that is not yet started
Front == IF runStage \in {"execute", "clear", "advance"} THEN Ahead(popIndex, 1) ELSE popIndex

Filling(c) == stage[c] \in {"fill", "check", "flag"}

\* The pending actions occupy the slots from the front up to the push index,
\* in the order in which their slots were reserved, and there is room for
\* all of them, for the calls that are about to reserve, and for the one executing.
WindowInv ==
    /\ Outstanding <= MaxOutstanding
    /\ pushIndex = Ahead(Front, Len(pending))

\* The slot of a pending action holds that action with its flag set, or belongs
\* to the one caller that is still filling it.
PendingInv ==
    \A i \in 1 .. Len(pending) :
        LET s == Ahead(Front, i - 1)
        IN  \/ second[s] /\ first[s] = pending[i]
            \/ ~second[s] /\ \E c \in Callers : Filling(c) /\ index[c] = s

\* A caller that fills a slot fills that of its own action, alone, before the
\* slot is flagged.
FillingInv ==
    \A c \in Callers : Filling(c) =>
        /\ ~second[index[c]]
        /\ stage[c] \in {"check", "flag"} => first[index[c]] = action[c]
        /\ \E i \in 1 .. Len(pending) : index[c] = Ahead(Front, i - 1) /\ pending[i] = action[c]
        /\ \A d \in Callers \ {c} : Filling(d) => index[d] # index[c]

\* A flagged slot is that of the executing action or that of a pending one.
FlaggedInv ==
    \A s \in Slots : second[s] =>
        \/ BusySlots = 1 /\ s = popIndex
        \/ \E i \in 1 .. Len(pending) : s = Ahead(Front, i - 1)

\* What runs is what was scheduled: never an empty function, and never twice.
RunningInv ==
    /\ running # None <=> runStage = "execute"
    /\ BusySlots = 1 => second[popIndex]

\* A call of Schedule in progress has an action.
CallInv == \A c \in Callers : stage[c] # "idle" => action[c] \in Actions

\* The ring buffer's invariant: why no interleaving loses, duplicates or
\* overwrites a scheduled action.
RingInv == WindowInv /\ PendingInv /\ FillingInv /\ FlaggedInv /\ RunningInv /\ CallInv

\* The dispatcher implements a first-in first-out queue: actions run one at a
\* time, in the order in which Schedule reserved their slots, each exactly once,
\* and every one of them is eventually run: no wake-up is lost between
\* RequestExecution and Idle.
Queue == INSTANCE ActionQueue WITH queue <- pending, Capacity <- Size
ImplementsQueue == Queue!Spec

\* With more actions outstanding than there are slots, really_assert(!second)
\* in Schedule stops the program before an action is lost. It is evaluated after
\* the slot has been overwritten, so a pop in between makes it pass with an empty
\* function in a flagged slot.
OverflowIsCaught == runStage = "execute" => running # None
====
