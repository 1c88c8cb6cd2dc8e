------------------------------ MODULE MCThreads ------------------------------
(* The classes of osal that threads are made of, and the pointers that they     *)
(* share objects with, for TLC. They have nothing to do with each other: what   *)
(* they do together is an interleaving of what each does alone. So each         *)
(* behaviour is one scenario, in which one of them is used and the others stay  *)
(* as they were initially.                                                      *)
EXTENDS StdLock

CONSTANTS t1, t2, t3, o1, o2, s1, s2, s3, w1, w2

VARIABLES
    scenario,
    lock, condition, mMutex, mWaitingFront, mWaitingBack, entries, waiters, queue, crash,
    objects, tasks, threadCrash,
    sharedPtrCount, weakPtrCount, allocatable, object, generation, pointer, destructing,
    scheduled, running, executed

waitVars == <<lock, condition, mMutex, mWaitingFront, mWaitingBack, entries, waiters, queue, crash>>
threadVars == <<objects, tasks, threadCrash>>
pointerVars == <<sharedPtrCount, weakPtrCount, allocatable, object, generation, pointer, destructing,
                 scheduled, running, executed>>
mcVars == <<scenario, vars, waitVars, threadVars, pointerVars>>

\* Three threads, so that the list has a first, a last and one in between, wait for ever
\* or give up at once.
Wait == INSTANCE ConditionVariable WITH
    Threads <- {t1, t2, t3}, TickBits <- 2, MaxDue <- 0, Conduct <- {}, threads <- waiters

\* Two do so with every freedom that the interface gives.
WaitAny == INSTANCE ConditionVariable WITH
    Threads <- {t1, t2}, TickBits <- 2, MaxDue <- 1, Conduct <- {"unlocked", "for", "until"}, threads <- waiters

\* Two threads, for what happens in the end.
WaitFair == INSTANCE ConditionVariable WITH
    Threads <- {t1, t2}, TickBits <- 2, MaxDue <- 1, Conduct <- {}, threads <- waiters

\* Threads are joined or detached, on FreeRTOS.
Joined == INSTANCE StdThread WITH
    Objects <- {o1, o2}, Tasks <- {t1, t2}, Port <- "FreeRTOS", Conduct <- {"detach", "join"},
    crash <- threadCrash

\* The same with objects that are moved and tasks that are preempted, on either kernel.
JoinedAny == INSTANCE StdThread WITH
    Objects <- {o1, o2}, Tasks <- {t1, t2}, Port <- "FreeRTOS",
    Conduct <- {"detach", "join", "move", "preempt"}, crash <- threadCrash
JoinedX == INSTANCE StdThread WITH
    Objects <- {o1, o2}, Tasks <- {t1, t2}, Port <- "ThreadX",
    Conduct <- {"detach", "join", "move", "preempt"}, crash <- threadCrash

Pointer == INSTANCE SharedPtr WITH
    SharedPtrs <- {s1, s2, s3}, WeakPtrs <- {w1, w2}, MaxGenerations <- 3, MaxScheduled <- 2,
    AssignFromWeakPtr <- FALSE

ASSUME /\ Wait!Assumptions /\ WaitAny!Assumptions /\ WaitFair!Assumptions
       /\ Joined!Assumptions /\ JoinedAny!Assumptions /\ JoinedX!Assumptions
       /\ Assumptions /\ Pointer!Assumptions

MCInit ==
    /\ scenario \in {"wait", "waitAny", "waitFair", "thread", "threadAny", "threadX", "lock", "pointer"}
    /\ IF scenario = "wait" THEN Wait!Init ELSE WaitFair!Init
    /\ Joined!Init
    /\ Init
    /\ Pointer!Init

OnlyWait(name, step) == scenario = name /\ step /\ UNCHANGED <<scenario, threadVars, vars, pointerVars>>
OnlyThread(name, step) == scenario = name /\ step /\ UNCHANGED <<scenario, waitVars, vars, pointerVars>>
OnlyLock(step) == scenario = "lock" /\ step /\ UNCHANGED <<scenario, waitVars, threadVars, pointerVars>>
OnlyPointer(step) == scenario = "pointer" /\ step /\ UNCHANGED <<scenario, waitVars, threadVars, vars>>

MCNext ==
    \/ OnlyWait("wait", Wait!Next)
    \/ OnlyWait("waitAny", WaitAny!Next)
    \/ OnlyWait("waitFair", WaitFair!Next)
    \/ OnlyThread("thread", Joined!Next)
    \/ OnlyThread("threadAny", JoinedAny!Next)
    \/ OnlyThread("threadX", JoinedX!Next)
    \/ OnlyLock(Next)
    \/ OnlyPointer(Pointer!Next)

\* What FairSpec of ConditionVariable and StdThread says.
MCFairness ==
    /\ SF_mcVars(OnlyWait("waitFair", ~crash /\ WaitFair!Tick))
    /\ \A t \in {t1, t2} : /\ SF_mcVars(OnlyWait("waitFair", ~crash /\ WaitFair!Step(t)))
                           /\ SF_mcVars(OnlyWait("waitFair", ~crash /\ WaitFair!Unlock(t)))
                           /\ WF_mcVars(OnlyThread("thread", ~threadCrash /\ Joined!TaskStep(t)))
    /\ \A o \in {o1, o2} :
          /\ WF_mcVars(OnlyThread("thread", ~threadCrash /\ Joined!OwnerStep(o)))
          /\ SF_mcVars(OnlyThread("thread", ~threadCrash /\ (Joined!Join(o) \/ Joined!Detach(o))))

MCSpec == MCInit /\ [][MCNext]_mcVars /\ MCFairness

-----------------------------------------------------------------------------
(* Properties; NoneHeldWhileWaiting is that of StdLock. *)

\* A condition variable's list holds the threads that wait, in the order in which they came; a thread
\* is told no_timeout exactly when it was notified, so that no notification is lost on one that gives
\* up at the same time; nobody waits longer than was asked for, and nobody uses the entry of a thread
\* that has gone on. Of std::lock and std::try_lock: a thread for which they succeed has what TriedHeld says.
WaitersServed ==
    /\ TypeOK /\ TriedHeld
    /\ scenario = "wait" => Wait!TypeOK /\ Wait!ListInOrder /\ Wait!NeverCrashes
    /\ scenario = "waitAny" => WaitAny!TypeOK
    /\ scenario \in {"wait", "waitAny", "waitFair"} => WaitFair!NotifiedOrTimeout
    /\ scenario = "waitFair" => WaitFair!TypeOK /\ WaitFair!WaitsNoLonger /\ WaitFair!NeverCrashes

\* What two sides share is deleted once, and only when neither needs it any more: the data of a thread,
\* which its task and the one that joins or detaches both hold, and the object of a SharedPtr, also when
\* its destructor, or an action that was scheduled with a WeakPtr, copies and releases pointers to it.
DeletedOnce ==
    /\ Joined!TypeOK /\ Joined!DeletedOnce /\ Joined!WorkCompleted
    /\ scenario = "thread" => Joined!NeverCrashes
    /\ Pointer!TypeOK /\ Pointer!CountsInv /\ Pointer!ObjectExists /\ Pointer!NoReuse

\* A thread that was notified goes on, and so does one that has a time to give up; every task
\* and its data are deleted in the end.
ThreadsEnd ==
    /\ scenario = "waitFair" => WaitFair!WaitEnds
    /\ scenario = "thread" => Joined!Reclaimed
=============================================================================
