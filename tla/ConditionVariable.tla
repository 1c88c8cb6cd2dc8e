------------------------- MODULE ConditionVariable -------------------------
(***************************************************************************)
(* osal/freertos_std_thread/stdcondition_variable.hpp: a condition         *)
(* variable made of a list of entries, one on the stack of each thread     *)
(* that waits, each with a binary semaphore.  (That of                     *)
(* osal/threadx_std_thread is the same but for names.)                     *)
(*                                                                         *)
(* A step is what a thread does between two operations on semaphores.      *)
(* Threads share one mutex, `lock', and the condition that it protects;    *)
(* mMutex is the condition variable's own.                                 *)
(***************************************************************************)
EXTENDS Integers, Sequences, SequencesExt, FiniteSetsExt

CONSTANTS
    Threads,
    TickBits,       \* the width of portTickType
    MaxDue,         \* bound: ticks until a deadline
    None,
    Conduct         \* what threads may do

ThreadsAssumption == None \notin Threads
BoundAssumption == TickBits \in Nat /\ MaxDue \in Nat /\ MaxDue < 2 ^ TickBits - 1

(***************************************************************************)
(* "unlocked": notify without holding the mutex                            *)
(* "for":      wait_for with a predicate                                   *)
(* "until":    wait_until with a predicate                                 *)
(***************************************************************************)
ConductAssumption == Conduct \subseteq {"unlocked", "for", "until"}

Assumptions == ThreadsAssumption /\ BoundAssumption /\ ConductAssumption

VARIABLES
    lock,           \* the thread that holds the mutex
    condition,      \* what predicates look at
    mMutex, mWaitingFront, mWaitingBack,
    entries,        \* the WaitingEntry of each thread
    threads,        \* where each thread is, and its arguments and locals
    queue,          \* history: the threads that were added and not notified or timed out
    crash           \* an entry is used that is not there any more

vars == <<lock, condition, mMutex, mWaitingFront, mWaitingBack, entries, threads, queue, crash>>
list == <<mWaitingFront, mWaitingBack, entries, queue, crash>>

Forever == 2 ^ TickBits - 1         \* portMAX_DELAY

Entry == [alive: BOOLEAN, given: BOOLEAN, next: Threads \cup {None}, previous: Threads \cup {None}]
Gone == [alive |-> FALSE, given |-> FALSE, next |-> None, previous |-> None]

Thread ==
    [pc: {"idle", "running", "push", "unlock", "take", "relock", "late", "return", "give", "pop"},
     duration: 0 .. MaxDue,         \* of wait_for
     due: {Forever} \cup -1 .. MaxDue,   \* ticks until the thread is to give up; -1: too late
     left: 0 .. Forever,            \* ticks until xSemaphoreTake gives up
     predicate: {"no", "for", "until"},
     timeout: BOOLEAN,
     all: BOOLEAN,                  \* notify_all
     notified: BOOLEAN]             \* history: since it was added

TypeOK ==
    /\ lock \in Threads \cup {None}
    /\ condition \in BOOLEAN
    /\ mMutex \in Threads \cup {None}
    /\ mWaitingFront \in Threads \cup {None}
    /\ mWaitingBack \in Threads \cup {None}
    /\ entries \in [Threads -> Entry]
    /\ threads \in [Threads -> Thread]
    /\ queue \in Seq(Threads)
    /\ crash \in BOOLEAN

Rest(pc) ==
    [pc |-> pc, duration |-> 0, due |-> Forever, left |-> Forever, predicate |-> "no",
     timeout |-> FALSE, all |-> FALSE, notified |-> FALSE]

Init ==
    /\ lock = None
    /\ condition = FALSE
    /\ mMutex = None
    /\ mWaitingFront = None
    /\ mWaitingBack = None
    /\ entries = [t \in Threads |-> Gone]
    /\ threads = [t \in Threads |-> Rest("idle")]
    /\ queue = <<>>
    /\ crash = FALSE

At(t, pc) == threads[t].pc = pc
Go(t, pc) == threads' = [threads EXCEPT ![t].pc = pc]

---------------------------------------------------------------------------
(* What threads do with the mutex *)

Lock(t) ==
    /\ At(t, "idle")
    /\ lock = None
    /\ lock' = t
    /\ Go(t, "running")
    /\ UNCHANGED <<condition, mMutex, list>>

\* The condition may be changed by the thread that has the mutex, before it lets it go
Unlock(t) ==
    /\ At(t, "running")
    /\ lock' = None
    /\ condition' \in BOOLEAN
    /\ Go(t, "idle")
    /\ UNCHANGED <<mMutex, list>>

---------------------------------------------------------------------------
(* wait, wait_for and wait_until *)

\* The conversion of a duration to portTickType
Ticks(d) == d % (2 ^ TickBits)

\* The entry of a thread, with an empty semaphore, after it has called wait_for_impl
WaitForImpl(t, thread, left) ==
    /\ entries' = [entries EXCEPT ![t] = [Gone EXCEPT !.alive = TRUE]]
    /\ threads' = [threads EXCEPT ![t] =
         [thread EXCEPT !.pc = "push", !.left = left, !.notified = FALSE, !.timeout = FALSE]]

\* wait, with or without a predicate, which is not true
Wait(t) ==
    /\ At(t, "running")
    /\ \E predicate \in {"no", "until"} :
          /\ predicate = "until" => ~condition
          /\ WaitForImpl(t, [threads[t] EXCEPT !.predicate = predicate, !.due = Forever], Forever)
    /\ UNCHANGED <<lock, condition, mMutex, mWaitingFront, mWaitingBack, queue, crash>>

\* wait_for and wait_until
WaitUntil(t) ==
    /\ At(t, "running")
    /\ \E d \in 0 .. MaxDue,
          predicate \in {"no"} \cup (Conduct \cap {"for", "until"}) :
          /\ predicate # "no" => ~condition
          /\ WaitForImpl(t, [threads[t] EXCEPT !.predicate = predicate, !.due = d, !.duration = d], Ticks(d))
    /\ UNCHANGED <<lock, condition, mMutex, mWaitingFront, mWaitingBack, queue, crash>>

\* The links after pushFront
Linked(t) ==
    IF mWaitingFront = None THEN [entries EXCEPT ![t].previous = None, ![t].next = None]
    ELSE [entries EXCEPT ![mWaitingFront].next = t, ![t].previous = mWaitingFront, ![t].next = None]

PushFront(t) ==
    /\ At(t, "push")
    /\ mMutex = None
    /\ entries' = Linked(t)
    /\ mWaitingFront' = t
    /\ mWaitingBack' = IF mWaitingFront = None THEN t ELSE mWaitingBack
    /\ queue' = Append(queue, t)
    /\ crash' = (mWaitingFront # None /\ ~entries[mWaitingFront].alive)
    /\ Go(t, "unlock")
    /\ UNCHANGED <<lock, condition, mMutex>>

UnlockToWait(t) ==
    /\ At(t, "unlock")
    /\ lock' = None
    /\ Go(t, "take")
    /\ UNCHANGED <<condition, mMutex, list>>

\* xSemaphoreTake succeeds
Take(t) ==
    /\ At(t, "take")
    /\ entries[t].given
    /\ entries' = [entries EXCEPT ![t].given = FALSE]
    /\ Go(t, "relock")
    /\ UNCHANGED <<lock, condition, mMutex, mWaitingFront, mWaitingBack, queue, crash>>

\* xSemaphoreTake fails
GiveUp(t) ==
    /\ At(t, "take")
    /\ ~entries[t].given
    /\ threads[t].left = 0
    /\ threads' = [threads EXCEPT ![t].pc = "relock", ![t].timeout = TRUE]
    /\ UNCHANGED <<lock, condition, mMutex, list>>

Relock(t) ==
    /\ At(t, "relock")
    /\ lock = None
    /\ lock' = t
    /\ Go(t, IF threads[t].timeout THEN "late" ELSE "return")
    /\ UNCHANGED <<condition, mMutex, list>>

\* A variant with a mistake: the neighbours keep their links
Unlinked(t) == entries

\* The links after erase
Erased(t) ==
    [u \in Threads |->
        [entries[u] EXCEPT !.previous = IF entries[t].next = u THEN entries[t].previous ELSE @,
                           !.next = IF entries[t].previous = u THEN entries[t].next ELSE @]]

\* After a timeout the semaphore is tried again, with the list locked
Late(t) ==
    /\ At(t, "late")
    /\ mMutex = None
    /\ \/ /\ entries[t].given
          /\ entries' = [entries EXCEPT ![t].given = FALSE]
          /\ threads' = [threads EXCEPT ![t].pc = "return", ![t].timeout = FALSE]
          /\ UNCHANGED <<mWaitingFront, mWaitingBack, queue>>
       \/ /\ ~entries[t].given
          /\ entries' = Erased(t)
          /\ mWaitingFront' = IF mWaitingFront = t THEN entries[t].previous ELSE mWaitingFront
          /\ mWaitingBack' = IF mWaitingBack = t THEN entries[t].next ELSE mWaitingBack
          /\ queue' = Remove(queue, t)
          /\ Go(t, "return")
    /\ UNCHANGED <<lock, condition, mMutex, crash>>

\* With a predicate that is not true, and no timeout, the thread waits again
Again(t) == threads[t].predicate # "no" /\ ~condition /\ ~threads[t].timeout

\* The time that is left, when a thread waits again
Remaining(t) ==
    IF threads[t].due = Forever THEN Forever
    ELSE IF threads[t].predicate = "for" THEN Ticks(threads[t].duration)
    ELSE Ticks(threads[t].due)

Return(t) ==
    /\ At(t, "return")
    /\ IF Again(t) THEN WaitForImpl(t, threads[t], Remaining(t))
       ELSE entries' = [entries EXCEPT ![t] = Gone] /\ threads' = [threads EXCEPT ![t] = Rest("running")]
    /\ UNCHANGED <<lock, condition, mMutex, mWaitingFront, mWaitingBack, queue, crash>>

---------------------------------------------------------------------------
(* notify_one and notify_all *)

Done(t) == threads' = [threads EXCEPT ![t] = Rest(IF lock = t THEN "running" ELSE "idle")]

Notify(t) ==
    /\ At(t, "running") \/ (At(t, "idle") /\ "unlocked" \in Conduct)
    /\ mMutex = None
    /\ mMutex' = t
    /\ \E all \in BOOLEAN : threads' = [threads EXCEPT ![t].pc = "give", ![t].all = all]
    /\ UNCHANGED <<lock, condition, list>>

\* A variant with a mistake: with nobody to notify, the list stays locked
GiveKeeping(t) ==
    /\ At(t, "give")
    /\ IF mWaitingBack = None
       THEN Done(t) /\ UNCHANGED <<entries, crash>>
       ELSE /\ entries' = [entries EXCEPT ![mWaitingBack].given = TRUE]
            /\ threads' = [threads EXCEPT ![t].pc = "pop", ![mWaitingBack].notified = TRUE]
            /\ crash' = ~entries[mWaitingBack].alive
    /\ UNCHANGED <<lock, condition, mMutex, mWaitingFront, mWaitingBack, queue>>

Give(t) ==
    /\ At(t, "give")
    /\ IF mWaitingBack = None
       THEN /\ mMutex' = None
            /\ Done(t)
            /\ UNCHANGED <<entries, crash>>
       ELSE /\ entries' = [entries EXCEPT ![mWaitingBack].given = TRUE]
            /\ threads' = [threads EXCEPT ![t].pc = "pop", ![mWaitingBack].notified = TRUE]
            /\ crash' = ~entries[mWaitingBack].alive
            /\ UNCHANGED mMutex
    /\ UNCHANGED <<lock, condition, mWaitingFront, mWaitingBack, queue>>

\* The front after popBack, when `next' is at the back
FrontAfterPop(next) == IF next = None THEN None ELSE mWaitingFront

PopBack(t) ==
    /\ At(t, "pop")
    /\ LET next == entries[mWaitingBack].next
       IN  /\ mWaitingBack' = next
           /\ mWaitingFront' = FrontAfterPop(next)
           /\ entries' = IF next = None THEN entries ELSE [entries EXCEPT ![next].previous = None]
           /\ crash' = (~entries[mWaitingBack].alive \/ (next # None /\ ~entries[next].alive))
    /\ queue' = Tail(queue)
    /\ IF threads[t].all THEN Go(t, "give") /\ UNCHANGED mMutex
       ELSE Done(t) /\ mMutex' = None
    /\ UNCHANGED <<lock, condition>>

---------------------------------------------------------------------------
\* A thread that has a deadline waits, for the semaphore or for the mutex after that
TimePasses(t) ==
    /\ threads[t].due # Forever
    /\ At(t, "take") \/ (threads[t].pc \in {"relock", "late", "return"} /\ threads[t].due # -1)

Tick ==
    /\ \E t \in Threads : TimePasses(t)
    /\ \A t \in Threads : At(t, "take") => threads[t].left # 0
    /\ threads' = [t \in Threads |->
         IF ~TimePasses(t) THEN threads[t]
         ELSE [threads[t] EXCEPT !.left = IF At(t, "take") /\ @ # Forever THEN @ - 1 ELSE @,
                                 !.due = IF @ = -1 THEN @ ELSE @ - 1]]
    /\ UNCHANGED <<lock, condition, mMutex, list>>

Step(t) ==
    \/ PushFront(t) \/ UnlockToWait(t) \/ Take(t) \/ GiveUp(t) \/ Relock(t) \/ Late(t) \/ Return(t)
    \/ Give(t) \/ PopBack(t)

Next ==
    /\ ~crash
    /\ \/ Tick
       \/ \E t \in Threads : Lock(t) \/ Unlock(t) \/ Wait(t) \/ WaitUntil(t) \/ Notify(t) \/ Step(t)

Spec == Init /\ [][Next]_vars

\* Threads run, the kernel gives the mutex to each thread that waits for it in
\* the end, and a thread that has it lets it go; time passes.
FairSpec ==
    /\ Spec
    /\ SF_vars(Next /\ Tick)
    /\ \A t \in Threads : /\ SF_vars(Next /\ Step(t))
                          /\ SF_vars(Next /\ Unlock(t))

---------------------------------------------------------------------------
(* Properties *)

\* Entries are used, through the list, only while the thread that has them on
\* its stack waits.
NeverCrashes == ~crash

\* Between notifications the linked list holds the threads that wait and were not
\* notified, in the order in which they came.
ListInOrder ==
    (\A t \in Threads : ~At(t, "pop")) /\ ~crash =>
        /\ queue = <<>> => mWaitingBack = None /\ mWaitingFront = None
        /\ queue # <<>> => mWaitingBack = Head(queue) /\ mWaitingFront = Last(queue)
        /\ \A i \in DOMAIN queue :
              /\ entries[queue[i]].alive /\ ~entries[queue[i]].given
              /\ entries[queue[i]].next = IF i = Len(queue) THEN None ELSE queue[i + 1]
              /\ entries[queue[i]].previous = IF i = 1 THEN None ELSE queue[i - 1]

\* A thread that waits returns no_timeout exactly when it was notified: no
\* notification is lost on a thread that times out at the same time.
NotifiedOrTimeout ==
    \A t \in Threads : At(t, "return") => (threads[t].timeout <=> ~threads[t].notified)

\* A thread does not wait longer than it was told to.
WaitsNoLonger ==
    \A t \in Threads :
        At(t, "take") /\ threads[t].due # Forever => threads[t].left <= Max({threads[t].due, 0})

\* A thread that is notified goes on, and so does one that has a time to give up.
WaitEnds ==
    \A t \in Threads :
        /\ At(t, "take") /\ threads[t].notified ~> At(t, "running") \/ At(t, "push")
        /\ At(t, "take") /\ threads[t].left # Forever ~> At(t, "running") \/ At(t, "push")
=============================================================================
