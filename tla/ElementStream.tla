---- MODULE ElementStream ----
(***************************************************************************)
(* What a queue between one writer and one reader promises: the reader is  *)
(* handed the elements that were accepted, in order, none twice, none      *)
(* skipped, and is woken up as long as there are any.                      *)
(***************************************************************************)
EXTENDS Naturals, Sequences

CONSTANTS Elements, Capacity

VARIABLES stream,  \* accepted, and not yet consumed
          out      \* what the reader consumed last

vars == <<stream, out>>

Init == stream = <<>> /\ out = <<>>

Write(data) == /\ data # <<>>
               /\ Len(stream) + Len(data) <= Capacity
               /\ stream' = stream \o data
               /\ UNCHANGED out

Consume(n) == /\ n <= Len(stream)
              /\ out' = SubSeq(stream, 1, n)
              /\ stream' = SubSeq(stream, n + 1, Len(stream))

Next == \/ \E n \in 1 .. Capacity : \E data \in [1 .. n -> Elements] : Write(data)
        \/ \E n \in 1 .. Capacity : Consume(n)

Safety == Init /\ [][Next]_vars
Spec == Safety /\ WF_vars(\E n \in 1 .. Capacity : Consume(n))
====
