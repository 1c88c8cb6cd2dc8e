----------------------------- MODULE StdThread -----------------------------
(***************************************************************************)
(* osal/freertos_std_thread/stdthread.hpp and                              *)
(* osal/threadx_std_thread/stdthread.hpp: std::thread on two kernels.      *)
(*                                                                         *)
(* The thread object and the task share a ThreadData, which the last of    *)
(* them deletes.  What is done while joinMutex is locked is one step; the  *)
(* condition variable is modelled as far as join needs it: its list has    *)
(* at most one entry, which is on the stack of the thread that joins.      *)
(***************************************************************************)
EXTENDS Integers

CONSTANTS
    Objects,        \* objects of class thread
    Tasks,          \* tasks of the kernel, with their ThreadData
    Port,           \* "FreeRTOS" or "ThreadX"
    None,
    Conduct         \* what is done with thread objects, and how tasks are scheduled

TasksAssumption == None \notin Tasks
PortAssumption == Port \in {"FreeRTOS", "ThreadX"}

(***************************************************************************)
(* "move":    thread objects are moved                                     *)
(* "detach":  thread objects are detached                                  *)
(* "join":    thread objects are joined                                    *)
(* "preempt": a thread that join wakes runs on before the task does        *)
(***************************************************************************)
ConductAssumption == Conduct \subseteq {"move", "detach", "join", "preempt"}

Assumptions == TasksAssumption /\ PortAssumption /\ ConductAssumption

VARIABLES
    objects,        \* mThreadId and mThreadData of each object, and where its owner is
    tasks,          \* where each task is, and its ThreadData
    crash           \* an entry, a ThreadData or a stack is used that is not there

vars == <<objects, tasks, crash>>

Object == [id: Tasks \cup {None}, data: Tasks \cup {None}, pc: {"idle", "wait", "kill", "delete"}]

Task ==
    [pc: {"none", "work", "lock", "free", "notify", "pop", "end", "suspended", "terminated", "gone"},
     worked: BOOLEAN,               \* workerFunction has returned
     data: BOOLEAN,                 \* its ThreadData exists
     referenceCount: 0 .. 2,
     deleteByThreadFunction: BOOLEAN,
     entry: BOOLEAN,                \* an entry is in the list of the condition variable
     given: BOOLEAN,                \* its semaphore
     freed: 0 .. 2, deleted: 0 .. 2]    \* history: how often the data and the task are

TypeOK ==
    /\ objects \in [Objects -> Object]
    /\ tasks \in [Tasks -> Task]
    /\ crash \in BOOLEAN

Init ==
    /\ objects = [o \in Objects |-> [id |-> None, data |-> None, pc |-> "idle"]]
    /\ tasks = [t \in Tasks |->
         [pc |-> "none", worked |-> FALSE, data |-> FALSE, referenceCount |-> 0,
          deleteByThreadFunction |-> FALSE, entry |-> FALSE, given |-> FALSE, freed |-> 0, deleted |-> 0]]
    /\ crash = FALSE

---------------------------------------------------------------------------
(* The task *)

\* threadFunction, after workerFunction has returned
Work(t) ==
    /\ tasks[t].pc = "work"
    /\ tasks' = [tasks EXCEPT ![t] = [@ EXCEPT !.pc = "lock", !.worked = TRUE]]
    /\ UNCHANGED <<objects, crash>>

\* A variant with a mistake: the task takes itself for the last
CountedLast(task) == [task EXCEPT !.referenceCount = @ - 1, !.pc = "free"]
\* The task lets go of the data, with joinMutex locked
Uncounted(task) ==
    IF task.referenceCount = 1 THEN [task EXCEPT !.referenceCount = 0, !.pc = "free"]
    ELSE [task EXCEPT !.referenceCount = @ - 1, !.pc = "notify", !.deleteByThreadFunction = FALSE]

LetGo(t) ==
    /\ tasks[t].pc = "lock"
    /\ crash' = ~tasks[t].data
    /\ tasks' = [tasks EXCEPT ![t] = Uncounted(@)]
    /\ UNCHANGED objects

Freed(task) == [task EXCEPT !.data = FALSE, !.freed = @ + 1]

FreeByTask(t) ==
    /\ tasks[t].pc = "free"
    /\ tasks' = [tasks EXCEPT ![t] = [Freed(@) EXCEPT !.pc = "end"]]
    /\ UNCHANGED <<objects, crash>>

\* notify_all: the semaphore of the entry is given
NotifyAll(t) ==
    /\ tasks[t].pc = "notify"
    /\ crash' = ~tasks[t].data
    /\ tasks' = [tasks EXCEPT ![t] = [@ EXCEPT !.pc = IF tasks[t].entry THEN "pop" ELSE "end",
                                              !.given = tasks[t].entry]]
    /\ UNCHANGED objects

\* notify_all: the entry is taken from the list
Pop(t) ==
    /\ tasks[t].pc = "pop"
    /\ crash' = (~tasks[t].data \/ ~\E o \in Objects : objects[o].id = t /\ objects[o].pc = "wait")
    /\ tasks' = [tasks EXCEPT ![t] = [@ EXCEPT !.pc = "end", !.entry = FALSE]]
    /\ UNCHANGED objects

\* The end of threadFunction on FreeRTOS; referenceCount says which way it went
EndFreeRtos(t) ==
    /\ Port = "FreeRTOS"
    /\ tasks[t].pc = "end"
    /\ \/ /\ ~tasks[t].data /\ tasks[t].deleteByThreadFunction
          /\ tasks' = [tasks EXCEPT ![t] = [@ EXCEPT !.pc = "gone", !.deleted = tasks[t].deleted + 1]]
       \/ /\ tasks[t].data \/ ~tasks[t].deleteByThreadFunction
          /\ tasks' = [tasks EXCEPT ![t].pc = "suspended"]
    /\ UNCHANGED <<objects, crash>>

\* On ThreadX the task terminates itself, which does not return; its TX_THREAD and
\* its stack are in the data
EndThreadX(t) ==
    /\ Port = "ThreadX"
    /\ tasks[t].pc = "end"
    /\ crash' = ~tasks[t].data
    /\ tasks' = [tasks EXCEPT ![t].pc = "terminated"]
    /\ UNCHANGED objects

---------------------------------------------------------------------------
(* The object *)

Create(o, t) ==
    /\ objects[o].pc = "idle" /\ objects[o].id = None
    /\ tasks[t].pc = "none"
    /\ objects' = [objects EXCEPT ![o] = [@ EXCEPT !.id = t, !.data = t]]
    /\ tasks' = [tasks EXCEPT ![t] = [@ EXCEPT !.pc = "work", !.data = TRUE, !.referenceCount = 2,
                                              !.deleteByThreadFunction = TRUE]]
    /\ UNCHANGED crash

\* swap, by which an object that is not joinable takes over from another
Move(o, p) ==
    /\ "move" \in Conduct
    /\ objects[o].pc = "idle" /\ objects[p].pc = "idle"
    /\ objects[o].id = None /\ objects[p].id # None
    /\ objects' = [objects EXCEPT ![o].id = objects[p].id, ![p].id = None,
                                  ![o].data = IF Port = "ThreadX" THEN objects[p].data ELSE @,
                                  ![p].data = IF Port = "ThreadX" THEN objects[o].data ELSE @]
    /\ UNCHANGED <<tasks, crash>>

\* The task is deleted, by another: at any place on FreeRTOS, and on ThreadX only
\* when it has terminated
Killed(task) ==
    IF Port = "FreeRTOS" \/ task.pc = "terminated" THEN [task EXCEPT !.pc = "gone", !.deleted = @ + 1]
    ELSE task

\* vTaskDelete, unless the task does that itself
KillUnlessItself(task) == IF task.deleteByThreadFunction THEN task ELSE Killed(task)

\* join, up to the wait; an object that does not have the data of its task uses
\* what is not there
Join(o) ==
    /\ objects[o].pc = "idle" /\ objects[o].id # None /\ "join" \in Conduct
    /\ \/ /\ objects[o].data # objects[o].id
          /\ crash' = TRUE
          /\ UNCHANGED <<objects, tasks>>
       \/ /\ objects[o].data = objects[o].id
          /\ LET t == objects[o].id
             IN  \/ /\ tasks[t].referenceCount > 1
                    /\ tasks' = [tasks EXCEPT ![t] = [@ EXCEPT !.deleteByThreadFunction = FALSE, !.entry = TRUE]]
                    /\ objects' = [objects EXCEPT ![o].pc = "wait"]
                 \/ /\ tasks[t].referenceCount <= 1
                    /\ objects' = [objects EXCEPT ![o].pc = "kill"]
                    /\ UNCHANGED tasks
          /\ UNCHANGED crash

\* condition.wait returns
Woken(o) ==
    /\ objects[o].pc = "wait"
    /\ tasks[objects[o].id].given
    /\ "preempt" \in Conduct \/ tasks[objects[o].id].pc # "pop"
    /\ objects' = [objects EXCEPT ![o].pc = "kill"]
    /\ UNCHANGED <<tasks, crash>>

\* join, after the wait
Kill(o) ==
    /\ objects[o].pc = "kill"
    /\ LET task == tasks[objects[o].id]
       IN  tasks' = [tasks EXCEPT ![objects[o].id] =
               KillUnlessItself([task EXCEPT !.referenceCount = task.referenceCount - 1])]
    /\ objects' = [objects EXCEPT ![o].pc = "delete"]
    /\ UNCHANGED crash

\* delete mThreadData, in join and in detach
Delete(o) ==
    /\ objects[o].pc = "delete"
    /\ tasks' = [tasks EXCEPT ![objects[o].id] = Freed(@)]
    /\ objects' = [objects EXCEPT ![o] = [id |-> None, data |-> None, pc |-> "idle"]]
    /\ UNCHANGED crash

Detach(o) ==
    /\ objects[o].pc = "idle" /\ objects[o].id # None /\ "detach" \in Conduct
    /\ LET t == objects[o].id
           last == tasks[t].referenceCount = 1
           task == [tasks[t] EXCEPT !.referenceCount = @ - 1]
       IN  \/ /\ objects[o].data # t
              /\ crash' = TRUE
              /\ UNCHANGED <<objects, tasks>>
           \/ /\ objects[o].data = t
              /\ tasks' = [tasks EXCEPT ![t] = IF last THEN KillUnlessItself(task) ELSE task]
              /\ objects' = [objects EXCEPT ![o] = IF last THEN [@ EXCEPT !.pc = "delete"]
                                                   ELSE [id |-> None, data |-> None, pc |-> "idle"]]
              /\ UNCHANGED crash

---------------------------------------------------------------------------
TaskStep(t) ==
    \/ Work(t) \/ LetGo(t) \/ FreeByTask(t) \/ NotifyAll(t) \/ Pop(t) \/ EndFreeRtos(t) \/ EndThreadX(t)
OwnerStep(o) == Woken(o) \/ Kill(o) \/ Delete(o)

Next ==
    /\ ~crash
    /\ \/ \E t \in Tasks : TaskStep(t)
       \/ \E o \in Objects : \/ OwnerStep(o) \/ Join(o) \/ Detach(o)
                             \/ \E t \in Tasks : Create(o, t)
                             \/ \E p \in Objects : Move(o, p)

Spec == Init /\ [][Next]_vars

\* The kernel runs every task, functions of tasks return, and each object is
\* joined or detached in the end, as its destructor wants.
FairSpec ==
    /\ Spec
    /\ \A t \in Tasks : WF_vars(Next /\ TaskStep(t))
    /\ \A o \in Objects : WF_vars(Next /\ OwnerStep(o)) /\ SF_vars(Next /\ (Join(o) \/ Detach(o)))

---------------------------------------------------------------------------
(* Properties *)

\* The task and the thread that joins or detaches use data, entries and stacks
\* only while they are there.
NeverCrashes == ~crash

\* The function of a task has returned before the task is deleted, and before
\* join returns.
WorkCompleted ==
    /\ \A t \in Tasks : tasks[t].pc = "gone" => tasks[t].worked
    /\ \A o \in Objects : objects[o].pc \in {"kill", "delete"} => tasks[objects[o].id].worked

\* Data and tasks are deleted once, and only when neither side needs them: of
\* the two sides exactly the last one does it.
DeletedOnce ==
    \A t \in Tasks : /\ tasks[t].freed <= 1 /\ tasks[t].deleted <= 1
                     /\ tasks[t].freed = 1 => tasks[t].referenceCount = 0

\* Every task that was created is deleted in the end, and so is its data.
Reclaimed == \A t \in Tasks : tasks[t].pc # "none" ~> tasks[t].freed = 1 /\ tasks[t].deleted = 1
=============================================================================
