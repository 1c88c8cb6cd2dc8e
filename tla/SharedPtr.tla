---- MODULE SharedPtr ----
(***************************************************************************)
(* infra/util/SharedPtr.cpp, SharedPtr.hpp and SharedOptional.hpp: an      *)
(* object in a SharedOptional, the SharedPtrs and WeakPtrs to it, and      *)
(* EventDispatcherWithWeakPtr, which keeps a WeakPtr with an action.       *)
(*                                                                         *)
(* All of it runs on one thread, the one that dispatches events. The       *)
(* object's destructor runs in the middle of releasing the last SharedPtr, *)
(* and does whatever it likes with the other pointers meanwhile.           *)
(***************************************************************************)
EXTENDS Integers, Sequences, FiniteSets

CONSTANTS SharedPtrs, WeakPtrs,   \* the variables of either type
          MaxGenerations,    \* bound: how often an object is made
          MaxScheduled,      \* bound: actions on the event dispatcher
          AssignFromWeakPtr  \* whether SharedPtr::operator=(const WeakPtr&) is used

Assumptions ==
    /\ IsFiniteSet(SharedPtrs) /\ IsFiniteSet(WeakPtrs) /\ SharedPtrs \cap WeakPtrs = {}
    /\ MaxGenerations \in Nat /\ MaxScheduled \in Nat /\ AssignFromWeakPtr \in BOOLEAN

Pointers == SharedPtrs \cup WeakPtrs

VARIABLES
    sharedPtrCount, weakPtrCount,   \* SharedPtrControl
    allocatable,      \* SharedOptional: a new object may be made
    object,           \* SharedOptional: the object exists
    generation,       \* history: the number of the object
    pointer,          \* whether each variable is null, shared or weak, and the number of the object that it was made for
    destructing,      \* the destructor is running
    scheduled,        \* the WeakPtrs of the scheduled actions
    running,          \* the SharedPtr of the action that is running
    executed          \* the first action is executed, but not destroyed

controlVars == <<sharedPtrCount, weakPtrCount, allocatable, object, destructing>>
vars == <<controlVars, generation, pointer, scheduled, running, executed>>

Null == [kind |-> "null", of |-> 0]
Shared(g) == [kind |-> "shared", of |-> g]
Weak(g) == [kind |-> "weak", of |-> g]
Pointer == {Null} \cup {Shared(g) : g \in 1 .. MaxGenerations} \cup {Weak(g) : g \in 1 .. MaxGenerations}

TypeOK ==
    /\ sharedPtrCount \in Nat /\ weakPtrCount \in Nat
    /\ allocatable \in BOOLEAN /\ object \in BOOLEAN /\ destructing \in 0 .. MaxGenerations
    /\ generation \in 0 .. MaxGenerations
    /\ pointer \in [Pointers -> Pointer]
    /\ \A p \in Pointers : pointer[p].kind # IF p \in SharedPtrs THEN "weak" ELSE "shared"
    /\ scheduled \in Seq(Pointer) /\ running \in Pointer /\ executed \in BOOLEAN

Init ==
    /\ sharedPtrCount = 0 /\ weakPtrCount = 0
    /\ allocatable = TRUE /\ object = FALSE /\ destructing = 0
    /\ generation = 0
    /\ pointer = [p \in Pointers |-> Null]
    /\ scheduled = <<>> /\ running = Null /\ executed = FALSE

----------------------------------------------------------------------------
(* SharedPtrControl *)

SharedRefs(x) == IF x.kind = "shared" THEN 1 ELSE 0
WeakRefs(x) == IF x.kind = "null" THEN 0 ELSE 1

\* SharedPtr::Reset: what the pointer gets is referenced before what it had is released. When that was
\* the last SharedPtr, the destructor runs before the weak count follows.
Replace(old, new) ==
    LET shared == sharedPtrCount + SharedRefs(new) - SharedRefs(old)
        last == old.kind = "shared" /\ shared = 0
    IN  /\ sharedPtrCount' = shared
        /\ destructing' = destructing + (IF last THEN 1 ELSE 0)
        /\ weakPtrCount' = weakPtrCount + WeakRefs(new) - (IF last THEN 0 ELSE WeakRefs(old))
        /\ allocatable' = (allocatable \/ (WeakRefs(old) > 0 /\ weakPtrCount' = 0))
        /\ UNCHANGED object

\* WeakPtr::Reset: what the pointer had is released first. Assigning a WeakPtr to itself is not modelled.
ReplaceWeak(old, new) ==
    /\ weakPtrCount' = weakPtrCount - WeakRefs(old) + WeakRefs(new)
    /\ allocatable' = (allocatable \/ (WeakRefs(old) > 0 /\ weakPtrCount - WeakRefs(old) = 0))
    /\ UNCHANGED <<sharedPtrCount, object, destructing>>

\* The destructor ends: Destruct and Deallocate of SharedOptional. What onAllocatable does is a step of its own.
Destructed ==
    /\ destructing > 0
    /\ destructing' = destructing - 1
    /\ object' = FALSE
    /\ weakPtrCount' = weakPtrCount - 1
    /\ allocatable' = (allocatable \/ weakPtrCount' = 0)
    /\ UNCHANGED <<sharedPtrCount, generation, pointer, scheduled, running, executed>>

----------------------------------------------------------------------------
(* SharedOptional, SharedPtr and WeakPtr *)

\* SharedOptional::Emplace, which asserts allocatable
Emplace(p) ==
    /\ p \in SharedPtrs /\ allocatable /\ generation < MaxGenerations /\ pointer[p] = Null
    /\ allocatable' = FALSE /\ object' = TRUE
    /\ generation' = generation + 1
    /\ pointer' = [pointer EXCEPT ![p] = Shared(generation + 1)]
    /\ sharedPtrCount' = sharedPtrCount + 1 /\ weakPtrCount' = weakPtrCount + 1
    /\ UNCHANGED <<destructing, scheduled, running, executed>>

\* The pointer variable p is given a value
Assign(p, value) ==
    /\ IF p \in SharedPtrs THEN Replace(pointer[p], value) ELSE ReplaceWeak(pointer[p], value)
    /\ pointer' = [pointer EXCEPT ![p] = value]
    /\ UNCHANGED <<generation, scheduled, running, executed>>

\* SharedPtr::SharedPtr(const WeakPtr&), and WeakPtr::lock
Lock(x) == IF x.kind = "null" \/ sharedPtrCount = 0 THEN Null ELSE Shared(x.of)

\* SharedPtr::operator=(const WeakPtr&): it does not ask Expired
ResetFromWeakPtr(x) == IF x.kind = "null" THEN Null ELSE Shared(x.of)

Copy(p, q) == p # q /\ (p \in SharedPtrs) = (q \in SharedPtrs) /\ Assign(p, pointer[q])
MakeWeak(p, q) == p \in WeakPtrs /\ pointer[q].kind = "shared" /\ Assign(p, Weak(pointer[q].of))
LockWeak(p, q) == p \in SharedPtrs /\ pointer[q].kind = "weak" /\ Assign(p, Lock(pointer[q]))
AssignWeak(p, q) ==
    AssignFromWeakPtr /\ p \in SharedPtrs /\ pointer[q].kind = "weak" /\ Assign(p, ResetFromWeakPtr(pointer[q]))
Clear(p) == pointer[p] # Null /\ Assign(p, Null)

----------------------------------------------------------------------------
(* EventDispatcherWithWeakPtr *)

Schedule(p) ==
    /\ pointer[p] # Null /\ Len(scheduled) < MaxScheduled
    /\ scheduled' = Append(scheduled, Weak(pointer[p].of))
    /\ ReplaceWeak(Null, Weak(pointer[p].of))
    /\ UNCHANGED <<generation, pointer, running, executed>>

\* The first action starts, with a SharedPtr of its own; there is none when the object is gone
ExecuteFirstAction ==
    /\ scheduled # <<>> /\ running = Null /\ ~executed /\ destructing = 0
    /\ running' = Lock(Head(scheduled))
    /\ executed' = (running' = Null)
    /\ Replace(Null, running')
    /\ UNCHANGED <<generation, pointer, scheduled>>

\* The action ends, and its SharedPtr is released
ActionReturns ==
    /\ running # Null /\ destructing = 0
    /\ Replace(running, Null)
    /\ running' = Null /\ executed' = TRUE
    /\ UNCHANGED <<generation, pointer, scheduled>>

\* ExceptionSafePop: the action and its WeakPtr are destroyed
PopAction ==
    /\ executed /\ destructing = 0
    /\ ReplaceWeak(Head(scheduled), Null)
    /\ scheduled' = Tail(scheduled) /\ executed' = FALSE
    /\ UNCHANGED <<generation, pointer, running>>

Next ==
    \/ \E p \in Pointers : Emplace(p) \/ Clear(p) \/ Schedule(p)
    \/ \E p, q \in Pointers : Copy(p, q) \/ MakeWeak(p, q) \/ LockWeak(p, q) \/ AssignWeak(p, q)
    \/ Destructed
    \/ ExecuteFirstAction
    \/ ActionReturns
    \/ PopAction

Spec == Init /\ [][Next]_vars

----------------------------------------------------------------------------
(* Properties *)

\* Everything that refers to the object, and how many there are of a kind
Refs == {pointer[p] : p \in Pointers} \cup {scheduled[i] : i \in 1 .. Len(scheduled)} \cup {running}
CountOf(kind) == Cardinality({p \in Pointers : pointer[p].kind = kind})
               + Cardinality({i \in 1 .. Len(scheduled) : scheduled[i].kind = kind})
               + Cardinality({r \in {running} : r.kind = kind})

\* The counts are right at every moment, also while the destructor runs and copies, locks or releases
\* pointers: the asserts that they are not 0 when they are decreased never fail.
CountsInv ==
    /\ sharedPtrCount = CountOf("shared")
    /\ weakPtrCount = CountOf("shared") + CountOf("weak") + destructing

\* An object exists as long as there is a SharedPtr to it, in particular while a scheduled action runs
\* with it, and its destructor runs only once
ObjectExists ==
    /\ \A r \in Refs : r.kind = "shared" => object /\ destructing = 0 /\ r.of = generation
    /\ destructing <= 1

\* The memory is used for a new object only when no WeakPtr to the old one is left: a WeakPtr never
\* comes to life again, and a scheduled action never gets another object than it was scheduled with.
NoReuse ==
    /\ allocatable = (weakPtrCount = 0)
    /\ \A r \in Refs : r.kind # "null" => r.of = generation
====
