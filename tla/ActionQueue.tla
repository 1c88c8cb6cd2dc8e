---- MODULE ActionQueue ----
(***************************************************************************)
(* What an event dispatcher promises: actions that have been accepted are  *)
(* executed one at a time, in the order in which they were accepted, each  *)
(* exactly once, and none of them is forgotten.                            *)
(***************************************************************************)
EXTENDS Sequences, Naturals

CONSTANTS Actions,  \* the work that can be scheduled
          None,     \* no action
          Capacity  \* how many actions may be outstanding, the running one included

VARIABLES queue,    \* accepted and not yet started, oldest first
          running   \* the action being executed, or None

vars == <<queue, running>>

Init == /\ queue = <<>>
        /\ running = None

Accept(a) == /\ Len(queue) < Capacity
             /\ queue' = Append(queue, a)
             /\ UNCHANGED running

Start == /\ running = None
         /\ queue # <<>>
         /\ running' = Head(queue)
         /\ queue' = Tail(queue)

Finish == /\ running # None
          /\ running' = None
          /\ UNCHANGED queue

Next == \/ \E a \in Actions : Accept(a)
        \/ Start
        \/ Finish

\* What never goes wrong, without the promise that work is ever done
Safety == Init /\ [][Next]_vars

Spec == Safety /\ WF_vars(Start) /\ WF_vars(Finish)
====
