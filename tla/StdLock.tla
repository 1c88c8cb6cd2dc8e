------------------------------ MODULE StdLock ------------------------------
(***************************************************************************)
(* osal/freertos_std_thread/stdmutex.hpp: std::lock and std::try_lock,     *)
(* which lock several mutexes without a deadlock, and unique_lock, which   *)
(* they use.  (osal/threadx_std_thread/stdmutex.hpp has the same.)         *)
(*                                                                         *)
(* A step locks, tries or unlocks one mutex.  A thread that has what it    *)
(* asked for unlocks all of it.                                            *)
(***************************************************************************)
EXTENDS Integers, Sequences, SequencesExt

CONSTANTS
    Threads,
    Mutexes,
    None

Assumptions == None \notin Threads \cup Mutexes /\ IsFiniteSet(Mutexes)

VARIABLES
    holder,         \* the thread that has each mutex
    threads

vars == <<holder, threads>>

Orders == {s \in SetToAllKPermutations(Mutexes) : Len(s) > 1}

(***************************************************************************)
(* args: the mutexes, in the order in which the present attempt takes them *)
(* first: the place in args of the one that was not free                   *)
(* owned: the unique_locks on the stack that own their mutex, oldest first *)
(***************************************************************************)
Thread ==
    [pc: {"idle", "first", "try", "return", "backOut", "use"},
     call: {"none", "lock", "try_lock"},
     args: Orders \cup {<<>>}, first: Nat,
     owned: Seq(Mutexes), crash: BOOLEAN]   \* crash: unlock without a lock

TypeOK ==
    /\ holder \in [Mutexes -> Threads \cup {None}]
    /\ threads \in [Threads -> Thread]

Idle == [pc |-> "idle", call |-> "none", args |-> <<>>, first |-> 0, owned |-> <<>>,
         crash |-> FALSE]

Init ==
    /\ holder = [m \in Mutexes |-> None]
    /\ threads = [t \in Threads |-> Idle]

Held(t) == {m \in Mutexes : holder[m] = t}

---------------------------------------------------------------------------
\* lock: lock_helper waits for the first, and tries the others
Lock(t) ==
    /\ threads[t].pc = "idle"
    /\ \E args \in Orders :
          threads' = [threads EXCEPT ![t] = [Idle EXCEPT !.pc = "first", !.call = "lock", !.args = args]]
    /\ UNCHANGED holder

\* try_lock tries them all
TryLock(t) ==
    /\ threads[t].pc = "idle"
    /\ \E args \in Orders :
          threads' = [threads EXCEPT ![t] = [Idle EXCEPT !.pc = "try", !.call = "try_lock", !.args = args]]
    /\ UNCHANGED holder

\* The constructor of the first unique_lock in lock_helper
LockFirst(t) ==
    /\ threads[t].pc = "first"
    /\ LET m == Head(threads[t].args)
       IN  /\ holder[m] = None
           /\ holder' = [holder EXCEPT ![m] = t]
           /\ threads' = [threads EXCEPT ![t] = [@ EXCEPT !.pc = "try", !.owned = <<m>>]]

\* try_lock of the next: with all of them, or with one that fails, the unique_locks go
Try(t) ==
    /\ threads[t].pc = "try"
    /\ LET thread == threads[t]
           m == thread.args[Len(thread.owned) + 1]
       IN  \/ /\ Len(thread.owned) = Len(thread.args)
              /\ threads' = [threads EXCEPT ![t] = [@ EXCEPT !.pc = "return"]]
              /\ UNCHANGED holder
           \/ /\ Len(thread.owned) < Len(thread.args)
              /\ holder[m] = None
              /\ holder' = [holder EXCEPT ![m] = t]
              /\ threads' = [threads EXCEPT ![t] = [@ EXCEPT !.owned = Append(thread.owned, m)]]
           \/ /\ Len(thread.owned) < Len(thread.args)
              /\ holder[m] # None
              /\ threads' = [threads EXCEPT ![t] = [@ EXCEPT !.pc = "backOut", !.first = Len(thread.owned)]]
              /\ UNCHANGED holder

\* The mutexes that unique_lock::release leaves locked: those of try_lock, but not
\* the first of lock_helper
Release(t) ==
    {m \in Mutexes : Contains(threads[t].owned, m)
                     /\ (threads[t].call = "lock" => m # Head(threads[t].args))}

\* The destructors of the unique_locks, the youngest first; release is before that
Return(t) ==
    /\ threads[t].pc = "return"
    /\ \/ /\ threads[t].owned # <<>>
          /\ LET m == Last(threads[t].owned)
             IN  /\ holder' = IF m \in Release(t) THEN holder ELSE [holder EXCEPT ![m] = None]
                 /\ threads' = [threads EXCEPT ![t] = [@ EXCEPT !.owned = Front(threads[t].owned)]]
       \/ /\ threads[t].owned = <<>>
          /\ threads' = [threads EXCEPT ![t] = [@ EXCEPT !.pc = "use"]]
          /\ UNCHANGED holder

\* The next attempt of lock starts with the mutex that was not free
Rotated(args, first) ==
    SubSeq(args, first + 1, Len(args)) \o SubSeq(args, 1, first)

\* A variant with a mistake: one is unlocked, the others are not
BackOutOne(t) ==
    /\ threads[t].pc = "backOut"
    /\ holder' = IF threads[t].owned = <<>> THEN holder
                 ELSE [holder EXCEPT ![Last(threads[t].owned)] = None]
    /\ threads' = [threads EXCEPT ![t] = IF @.call = "lock"
         THEN [@ EXCEPT !.pc = "first", !.args = Rotated(threads[t].args, threads[t].first), !.owned = <<>>] ELSE Idle]

\* After a mutex that was not free, all are unlocked
BackOut(t) ==
    /\ threads[t].pc = "backOut"
    /\ \/ /\ threads[t].owned # <<>>
          /\ holder' = [holder EXCEPT ![Last(threads[t].owned)] = None]
          /\ threads' = [threads EXCEPT ![t] = [@ EXCEPT !.owned = Front(threads[t].owned)]]
       \/ /\ threads[t].owned = <<>>
          /\ threads' = [threads EXCEPT ![t] =
                            IF threads[t].call = "lock"
                            THEN [threads[t] EXCEPT !.pc = "first", !.args = Rotated(threads[t].args, threads[t].first)]
                            ELSE Idle]
          /\ UNCHANGED holder

\* The thread unlocks the mutexes that it asked for; unlock asserts that it has them
Unlock(t) ==
    /\ threads[t].pc = "use"
    /\ IF Held(t) = ToSet(threads[t].args)
       THEN /\ holder' = [m \in Mutexes |-> IF m \in Held(t) THEN None ELSE holder[m]]
            /\ threads' = [threads EXCEPT ![t] = Idle]
       ELSE /\ threads' = [threads EXCEPT ![t] = [@ EXCEPT !.crash = TRUE]]
            /\ UNCHANGED holder

Next ==
    /\ \A t \in Threads : ~threads[t].crash
    /\ \E t \in Threads : \/ Lock(t) \/ TryLock(t) \/ LockFirst(t) \/ Try(t)
                          \/ Return(t) \/ BackOut(t) \/ Unlock(t)

Spec == Init /\ [][Next]_vars

---------------------------------------------------------------------------
(* Properties *)

\* When lock or try_lock has succeeded, the thread has all the mutexes.
AllHeld == \A t \in Threads : threads[t].pc = "use" => Held(t) = ToSet(threads[t].args)

\* The same of try_lock, and of the mutexes but one of lock.
TriedHeld ==
    \A t \in Threads : threads[t].pc = "use" =>
        ToSet(threads[t].args) \ (IF threads[t].call = "lock" THEN {Head(threads[t].args)} ELSE {}) \subseteq Held(t)

\* A thread that waits for a mutex has none, so that threads that take mutexes in
\* different orders do not wait for each other; nor has one for which try_lock
\* has failed.
NoneHeldWhileWaiting == \A t \in Threads : threads[t].pc \in {"first", "idle"} => Held(t) = {}
=============================================================================
