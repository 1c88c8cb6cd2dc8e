---- MODULE QueueForOneReaderOneIrqWriter ----
(***************************************************************************)
(* infra/event/QueueForOneReaderOneIrqWriter.hpp: a lock-free queue filled *)
(* by an interrupt handler and emptied by an action on the event           *)
(* dispatcher, which a notification flag schedules at most once at a time. *)
(* The interrupt's steps interleave with the reader's at every access of   *)
(* the two shared pointers and the flag.                                   *)
(***************************************************************************)
EXTENDS Integers, Sequences

CONSTANTS Elements,    \* T
          BufferSize,  \* buffer.size(): one more than the capacity
          MaxRange     \* longest range that the interrupt adds at once

ASSUME BufferSizeAssumption == BufferSize \in Nat /\ BufferSize >= 2
ASSUME MaxRangeAssumption == MaxRange \in Nat \ {0}

Cells == 0 .. BufferSize - 1

VARIABLES
    buffer,                 \* the cells
    contentsBegin,          \* index of the first element; written by the reader
    contentsEnd,            \* index past the last element; written by the interrupt
    notificationScheduled,  \* the flag that NotifyDataAvailable exchanges
    scheduled,              \* number of DataAvailable actions on the event dispatcher
    writing,                \* where the interrupt handler is
    data,                   \* the elements that it is adding
    reading,                \* where the reader is
    available, offset,      \* the state of a StreamReader
    amount,                 \* what is left to Consume after wrapping around
    got,                    \* the elements read and not yet consumed
    stream, out             \* history: published and unconsumed elements; those consumed last

writerVars == <<writing, data>>
readerVars == <<reading, available, offset, amount, got, out>>
vars == <<buffer, contentsBegin, contentsEnd, notificationScheduled, scheduled, writing, data,
          reading, available, offset, amount, got, stream, out>>

CapacityOf == BufferSize - 1
Ranges == UNION {[1 .. n -> Elements] : n \in 1 .. MaxRange}

TypeOK ==
    /\ buffer \in [Cells -> Elements]
    /\ contentsBegin \in Cells
    /\ contentsEnd \in Cells
    /\ notificationScheduled \in BOOLEAN
    /\ scheduled \in Nat
    /\ writing \in {"idle", "copy", "publish", "notify", "exchange"}
    /\ data \in Seq(Elements)
    /\ reading \in {"idle", "callback", "get", "stream", "wrapped"}
    /\ available \in 0 .. CapacityOf
    /\ offset \in 0 .. CapacityOf
    /\ amount \in 0 .. CapacityOf
    /\ got \in Seq(Elements)
    /\ stream \in Seq(Elements)
    /\ out \in Seq(Elements)

Init ==
    /\ buffer \in [Cells -> Elements]
    /\ contentsBegin = 0
    /\ contentsEnd = 0
    /\ notificationScheduled = FALSE
    /\ scheduled = 0
    /\ writing = "idle"
    /\ data = <<>>
    /\ reading = "idle"
    /\ available = 0
    /\ offset = 0
    /\ amount = 0
    /\ got = <<>>
    /\ stream = <<>>
    /\ out = <<>>

----------------------------------------------------------------------------
Empty == contentsBegin = contentsEnd

Full(begin, end) == /\ end = BufferSize - 1 \/ begin = end + 1
                    /\ end # BufferSize - 1 \/ begin = 0

Size(begin, end) == IF Full(begin, end) THEN CapacityOf
                    ELSE IF end >= begin THEN end - begin
                    ELSE (BufferSize - begin) + end

\* A variant with a mistake: the cell that is kept free is not counted
RoomForAll(begin, end) == IF begin <= end THEN BufferSize - (end - begin) ELSE begin - end

Room(begin, end) == IF begin <= end THEN BufferSize - 1 - (end - begin) ELSE begin - end - 1

\* The cell that lies i cells past c
CellAt(c, i) == IF c + i < BufferSize THEN c + i ELSE c + i - BufferSize

\* ContiguousRange(off): how many elements lie side by side from there
ContiguousSize(off) == LET from == CellAt(contentsBegin, off)
                       IN  IF contentsEnd < from THEN BufferSize - from ELSE contentsEnd - from

----------------------------------------------------------------------------
(* The interrupt handler *)

\* Without room for the element, AddFromInterruptUnchecked drops it, and
\* AddFromInterrupt aborts: nothing is added.
AddElement(e) ==
    /\ writing = "idle"
    /\ ~Full(contentsBegin, contentsEnd)
    /\ data' = <<e>>
    /\ writing' = "copy"
    /\ UNCHANGED <<buffer, contentsBegin, contentsEnd, notificationScheduled, scheduled, readerVars, stream>>

AddRange(range) ==
    /\ writing = "idle"
    /\ Len(range) <= Room(contentsBegin, contentsEnd)
    /\ data' = range
    /\ writing' = "copy"
    /\ UNCHANGED <<buffer, contentsBegin, contentsEnd, notificationScheduled, scheduled, readerVars, stream>>

\* Up to the end of the buffer first, then what is left from its beginning
CopyData ==
    /\ writing = "copy"
    /\ buffer' = [c \in Cells |->
                    IF \E i \in 1 .. Len(data) : c = CellAt(contentsEnd, i - 1)
                    THEN data[CHOOSE i \in 1 .. Len(data) : c = CellAt(contentsEnd, i - 1)]
                    ELSE buffer[c]]
    /\ writing' = "publish"
    /\ UNCHANGED <<contentsBegin, contentsEnd, notificationScheduled, scheduled, data, readerVars, stream>>

PublishEnd ==
    /\ writing = "publish"
    /\ contentsEnd' = CellAt(contentsEnd, Len(data))
    /\ stream' = stream \o data
    /\ data' = <<>>
    /\ writing' = "notify"
    /\ UNCHANGED <<buffer, contentsBegin, notificationScheduled, scheduled, readerVars>>

\* NotifyDataAvailable: no notification when the reader has emptied the queue
\* in the meantime
NotifyTest ==
    /\ writing = "notify"
    /\ writing' = IF Empty THEN "idle" ELSE "exchange"
    /\ UNCHANGED <<buffer, contentsBegin, contentsEnd, notificationScheduled, scheduled, data, readerVars, stream>>

\* A variant with a mistake: the flag is not tested
NotifyAlways ==
    /\ writing = "exchange"
    /\ notificationScheduled' = TRUE
    /\ scheduled' = scheduled + 1
    /\ writing' = "idle"
    /\ UNCHANGED <<buffer, contentsBegin, contentsEnd, data, readerVars, stream>>

\* ... nor when one is already on its way
NotifyExchange ==
    /\ writing = "exchange"
    /\ notificationScheduled' = TRUE
    /\ scheduled' = IF notificationScheduled THEN scheduled ELSE scheduled + 1
    /\ writing' = "idle"
    /\ UNCHANGED <<buffer, contentsBegin, contentsEnd, data, readerVars, stream>>

WriterStep == CopyData \/ PublishEnd \/ NotifyTest \/ NotifyExchange

----------------------------------------------------------------------------
(* The reader, inside the DataAvailable action *)

\* A variant with a mistake: the flag is left set
DataAvailableOnce ==
    /\ reading = "idle"
    /\ scheduled > 0
    /\ scheduled' = scheduled - 1
    /\ reading' = "callback"
    /\ UNCHANGED <<buffer, contentsBegin, contentsEnd, notificationScheduled, writerVars, available, offset, amount, got, stream, out>>

DataAvailable ==
    /\ reading = "idle"
    /\ scheduled > 0
    /\ scheduled' = scheduled - 1
    /\ notificationScheduled' = FALSE
    /\ reading' = "callback"
    /\ UNCHANGED <<buffer, contentsBegin, contentsEnd, writerVars, available, offset, amount, got, stream, out>>

\* onDataAvailable reads for as long as the queue is not empty, then returns
CallbackDone ==
    /\ reading = "callback"
    /\ Empty
    /\ reading' = "idle"
    /\ UNCHANGED <<buffer, contentsBegin, contentsEnd, notificationScheduled, scheduled, writerVars,
                   available, offset, amount, got, stream, out>>

\* Get reads the element first, and then moves contentsBegin
GetElement ==
    /\ reading = "callback"
    /\ ~Empty
    /\ got' = <<buffer[contentsBegin]>>
    /\ reading' = "get"
    /\ UNCHANGED <<buffer, contentsBegin, contentsEnd, notificationScheduled, scheduled, writerVars,
                   available, offset, amount, stream, out>>

\* The cells of the first n elements that were read are the interrupt's again
GiveBack(n) == /\ out' = IF n = 0 THEN out ELSE SubSeq(got, 1, n)
               /\ stream' = SubSeq(stream, n + 1, Len(stream))
               /\ got' = SubSeq(got, n + 1, Len(got))

AdvanceBegin ==
    /\ reading = "get"
    /\ contentsBegin' = IF contentsBegin = BufferSize - 1 THEN 0 ELSE contentsBegin + 1
    /\ GiveBack(1)
    /\ reading' = "callback"
    /\ UNCHANGED <<buffer, contentsEnd, notificationScheduled, scheduled, writerVars, available, offset, amount>>

\* A StreamReader notes how much there is when it is constructed
ConstructReader ==
    /\ reading = "callback"
    /\ ~Empty
    /\ available' = Size(contentsBegin, contentsEnd)
    /\ offset' = 0
    /\ reading' = "stream"
    /\ UNCHANGED <<buffer, contentsBegin, contentsEnd, notificationScheduled, scheduled, writerVars, amount, got, stream, out>>

\* One turn of the loop in Extract, or ExtractContiguousRange: at most max elements
Extract(max) ==
    LET room == available - offset
        n == CHOOSE k \in {max, room, ContiguousSize(offset)} :
                 k <= max /\ k <= room /\ k <= ContiguousSize(offset)
    IN  /\ reading = "stream"
        /\ n > 0
        /\ got' = got \o [i \in 1 .. n |-> buffer[CellAt(contentsBegin, offset + i - 1)]]
        /\ offset' = offset + n
        /\ UNCHANGED <<buffer, contentsBegin, contentsEnd, notificationScheduled, scheduled, writerVars,
                       reading, available, amount, stream, out>>

\* A variant with a mistake: the marker is not restored
RewindForgotten(marker) ==
    /\ reading = "stream"
    /\ marker < offset
    /\ got' = SubSeq(got, 1, marker)
    /\ UNCHANGED <<buffer, contentsBegin, contentsEnd, notificationScheduled, scheduled, writerVars,
                   reading, available, offset, amount, stream, out>>

\* Rewind to a save marker
Rewind(marker) ==
    /\ reading = "stream"
    /\ marker < offset
    /\ offset' = marker
    /\ got' = SubSeq(got, 1, marker)
    /\ UNCHANGED <<buffer, contentsBegin, contentsEnd, notificationScheduled, scheduled, writerVars,
                   reading, available, amount, stream, out>>

\* Commit consumes what was extracted: in one store of contentsBegin, or in two
\* when that wraps around. The reader goes on with the available that it noted.
Commit ==
    /\ reading = "stream"
    /\ offset > 0
    /\ offset' = 0
    /\ \/ /\ contentsBegin + offset < BufferSize
          /\ contentsBegin' = contentsBegin + offset
          /\ GiveBack(offset)
          /\ UNCHANGED <<amount, reading>>
       \/ /\ contentsBegin + offset >= BufferSize
          /\ contentsBegin' = 0
          /\ amount' = offset - (BufferSize - contentsBegin)
          /\ GiveBack(BufferSize - contentsBegin)
          /\ reading' = "wrapped"
    /\ UNCHANGED <<buffer, contentsEnd, notificationScheduled, scheduled, writerVars, available>>

ConsumeRest ==
    /\ reading = "wrapped"
    /\ contentsBegin' = contentsBegin + amount
    /\ amount' = 0
    /\ GiveBack(amount)
    /\ reading' = "stream"
    /\ UNCHANGED <<buffer, contentsEnd, notificationScheduled, scheduled, writerVars, available, offset>>

\* What was extracted without being committed stays in the queue
DestroyReader ==
    /\ reading = "stream"
    /\ reading' = "callback"
    /\ available' = 0
    /\ offset' = 0
    /\ got' = <<>>
    /\ UNCHANGED <<buffer, contentsBegin, contentsEnd, notificationScheduled, scheduled, writerVars, amount, stream, out>>

ExtractSome == \E max \in 1 .. CapacityOf : Extract(max)

ReaderStep == \/ DataAvailable
              \/ CallbackDone
              \/ GetElement
              \/ AdvanceBegin
              \/ ConstructReader
              \/ ExtractSome
              \/ Commit
              \/ ConsumeRest
              \/ DestroyReader

----------------------------------------------------------------------------
Next == \/ \E e \in Elements : AddElement(e)
        \/ \E range \in Ranges : AddRange(range)
        \/ WriterStep
        \/ ReaderStep
        \/ \E marker \in 0 .. CapacityOf : Rewind(marker)

\* An interrupt handler runs to its end, the dispatcher runs what is scheduled,
\* and the callback extracts and commits, however often it rewinds or starts again.
Fairness == /\ WF_vars(WriterStep)
            /\ WF_vars(ReaderStep)
            /\ SF_vars(ExtractSome)
            /\ SF_vars(Commit)

Spec == Init /\ [][Next]_vars
FairSpec == Spec /\ Fairness

----------------------------------------------------------------------------
(* Properties *)

\* The cells from contentsBegin to contentsEnd hold what was published and not
\* yet given back; what the interrupt copies lies outside of them, although it
\* tested for room before the reader moved contentsBegin. Indices stay in the buffer.
ContentsInv ==
    /\ TypeOK
    /\ Len(stream) = Size(contentsBegin, contentsEnd)
    /\ \A i \in 1 .. Size(contentsBegin, contentsEnd) :
          buffer[CellAt(contentsBegin, i - 1)] = stream[i]
    /\ Len(data) <= Room(contentsBegin, contentsEnd)
    /\ writing = "publish" => \A i \in 1 .. Len(data) : buffer[CellAt(contentsEnd, i - 1)] = data[i]

\* What the reader holds is the oldest part of what was published: an interrupt
\* that overtakes it never changes what it has yet to read or consume.
ReadInv ==
    /\ Len(got) <= Len(stream)
    /\ \A i \in 1 .. Len(got) : got[i] = stream[i]
    /\ reading = "stream" => offset = Len(got) /\ offset <= available
    /\ reading = "wrapped" => amount = Len(got)

\* Elements in the queue are never left without a reader: one is reading, or a
\* notification is on its way, or the interrupt is still to send one.
NotificationInv ==
    /\ stream # <<>> => reading # "idle" \/ scheduled > 0 \/ writing \in {"notify", "exchange"}
    /\ notificationScheduled <=> scheduled > 0
    /\ scheduled <= 1

\* The queue hands over, in order, without loss or duplication, everything it
\* accepts, and the reader is eventually woken up for it.
Stream == INSTANCE ElementStream WITH Capacity <- CapacityOf
ImplementsStream == Stream!Spec
====
