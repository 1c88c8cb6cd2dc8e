---- MODULE QueueForOneReaderOneIrqWriterProofs ----
(***************************************************************************)
(* Proofs about QueueForOneReaderOneIrqWriter, for a buffer of any size    *)
(* and any elements.                                                       *)
(***************************************************************************)
EXTENDS QueueForOneReaderOneIrqWriter, SequenceTheorems, TLAPS

----------------------------------------------------------------------------
(* The cells of the buffer *)

\* The number of elements between two indices, whether the queue is full or not, and the
\* room that is left: one cell is always free.
LEMMA SizeAndRoom ==
    ASSUME NEW b \in Cells, NEW e \in Cells
    PROVE  /\ Size(b, e) = IF e >= b THEN e - b ELSE (BufferSize - b) + e
           /\ Size(b, e) \in 0 .. CapacityOf
           /\ Room(b, e) = CapacityOf - Size(b, e)
           /\ Size(b, e) = 0 <=> b = e
           /\ CellAt(b, Size(b, e)) = e
  BY BufferSizeAssumption DEF Cells, Size, Full, Room, CapacityOf, CellAt

\* There is room for an element unless the queue is full.
LEMMA NotFullHasRoom ==
    ASSUME NEW b \in Cells, NEW e \in Cells, ~Full(b, e)
    PROVE  Room(b, e) >= 1
  BY BufferSizeAssumption DEF Cells, Full, Room

\* Within one turn, cells stay in the buffer, differ from each other, and their distances
\* add up.
LEMMA CellArithmetic ==
    ASSUME NEW c \in Cells
    PROVE  /\ CapacityOf \in Nat /\ CapacityOf + 1 = BufferSize
           /\ \A i \in 0 .. BufferSize : CellAt(c, i) \in Cells
           /\ \A i, j \in 0 .. CapacityOf : CellAt(c, i) = CellAt(c, j) => i = j
           /\ \A i, j \in 0 .. BufferSize : i + j <= BufferSize => CellAt(CellAt(c, i), j) = CellAt(c, i + j)
  BY BufferSizeAssumption DEF Cells, CapacityOf, CellAt

\* Adding n elements at the end.
LEMMA MoveEnd ==
    ASSUME NEW b \in Cells, NEW e \in Cells, NEW n \in Nat, n <= Room(b, e)
    PROVE  /\ CellAt(e, n) \in Cells
           /\ Size(b, CellAt(e, n)) = Size(b, e) + n
           /\ \A i \in 0 .. n : CellAt(b, Size(b, e) + i) = CellAt(e, i)
<1>1. /\ Size(b, e) = IF e >= b THEN e - b ELSE (BufferSize - b) + e
      /\ Size(b, e) \in 0 .. CapacityOf
      /\ n <= CapacityOf - Size(b, e)
  BY SizeAndRoom
<1>2. n \in 0 .. BufferSize
  BY <1>1, BufferSizeAssumption DEF CapacityOf
<1>3. CellAt(e, n) \in Cells
  BY <1>2, CellArithmetic
<1>4. Size(b, CellAt(e, n)) = IF CellAt(e, n) >= b THEN CellAt(e, n) - b
                                                  ELSE (BufferSize - b) + CellAt(e, n)
  BY <1>3, SizeAndRoom
<1> QED
  BY <1>1, <1>3, <1>4, BufferSizeAssumption DEF Cells, CapacityOf, CellAt

\* Taking n elements from the beginning.
LEMMA MoveBegin ==
    ASSUME NEW b \in Cells, NEW e \in Cells, NEW n \in Nat, n <= Size(b, e)
    PROVE  /\ CellAt(b, n) \in Cells
           /\ Size(CellAt(b, n), e) = Size(b, e) - n
           /\ Room(CellAt(b, n), e) = Room(b, e) + n
           /\ \A i \in 0 .. Size(b, e) - n : CellAt(CellAt(b, n), i) = CellAt(b, n + i)
<1>1. /\ Size(b, e) = IF e >= b THEN e - b ELSE (BufferSize - b) + e
      /\ Size(b, e) \in 0 .. CapacityOf /\ Room(b, e) = CapacityOf - Size(b, e)
  BY SizeAndRoom
<1>2. n \in 0 .. BufferSize
  BY <1>1, BufferSizeAssumption DEF CapacityOf
<1>3. CellAt(b, n) \in Cells
  BY <1>2, CellArithmetic
<1>4. /\ Size(CellAt(b, n), e) = IF e >= CellAt(b, n) THEN e - CellAt(b, n)
                                                      ELSE (BufferSize - CellAt(b, n)) + e
      /\ Room(CellAt(b, n), e) = CapacityOf - Size(CellAt(b, n), e)
  BY <1>3, SizeAndRoom
<1>5. Size(CellAt(b, n), e) = Size(b, e) - n
  BY <1>1, <1>3, <1>4, BufferSizeAssumption DEF Cells, CapacityOf, CellAt
<1>6. Room(CellAt(b, n), e) = Room(b, e) + n
  BY <1>1, <1>4, <1>5, BufferSizeAssumption DEF CapacityOf
<1>7. \A i \in 0 .. Size(b, e) - n : CellAt(CellAt(b, n), i) = CellAt(b, n + i)
  BY <1>1, BufferSizeAssumption DEF Cells, CapacityOf, CellAt
<1> QED
  BY <1>3, <1>5, <1>6, <1>7

----------------------------------------------------------------------------
(* The inductive invariant *)

\* The interrupt adds something, the reader has read one element in Get and none outside
\* of Get and of a StreamReader, and the beginning of the buffer is where Consume wraps to.
ProgressInv ==
    /\ IF writing \in {"copy", "publish"} THEN data # <<>> ELSE data = <<>>
    /\ reading \in {"idle", "callback"} => got = <<>>
    /\ reading = "get" => Len(got) = 1
    /\ reading = "wrapped" => contentsBegin = 0 /\ offset = 0

IInv == ContentsInv /\ ReadInv /\ NotificationInv /\ ProgressInv

\* Everything but TypeOK, in terms of what it depends on: the published elements lie in the
\* buffer, and there is room for what is being added.
Published ==
    /\ Len(stream) = Size(contentsBegin, contentsEnd)
    /\ \A i \in 1 .. Len(stream) : buffer[CellAt(contentsBegin, i - 1)] = stream[i]
    /\ Len(data) <= Room(contentsBegin, contentsEnd)
    /\ writing = "publish" => \A i \in 1 .. Len(data) : buffer[CellAt(contentsEnd, i - 1)] = data[i]

\* The invariant in these terms.
LEMMA InvFacts ==
    IInv <=> TypeOK /\ Published /\ ReadInv /\ NotificationInv /\ ProgressInv
  BY DEF IInv, ContentsInv, Published

\* The same of the next state, from the values that it has there.
LEMMA PublishedNext ==
    ASSUME Len(stream') = Size(contentsBegin', contentsEnd'),
           \A i \in 1 .. Len(stream') : buffer'[CellAt(contentsBegin', i - 1)] = stream'[i],
           Len(data') <= Room(contentsBegin', contentsEnd'),
           writing' = "publish" => \A i \in 1 .. Len(data') : buffer'[CellAt(contentsEnd', i - 1)] = data'[i]
    PROVE  Published'
  BY DEF Published, Size, Room, Full, CellAt, CapacityOf

\* The parts of the invariant in the next state make up the invariant there.
LEMMA InvNext ==
    ASSUME TypeOK', Published', ReadInv', NotificationInv', ProgressInv'
    PROVE  IInv'
  BY DEF IInv, ContentsInv, Published

\* Nothing is published exactly when the two indices are equal.
LEMMA EmptyStream ==
    ASSUME IInv
    PROVE  Empty <=> stream = <<>>
<1>1. Len(stream) = Size(contentsBegin, contentsEnd) /\ TypeOK
  BY InvFacts DEF Published
<1>2. Empty <=> Len(stream) = 0
  BY <1>1, SizeAndRoom DEF TypeOK, Empty
<1> QED
  BY <1>1, <1>2, EmptySeq DEF TypeOK

\* A range that the interrupt adds is a nonempty sequence.
LEMMA RangeType ==
    ASSUME NEW range \in Ranges
    PROVE  range \in Seq(Elements) /\ range # <<>>
<1>1. PICK n \in 1 .. MaxRange : range \in [1 .. n -> Elements]
  BY DEF Ranges
<1>2. n \in Nat \ {0}
  BY MaxRangeAssumption
<1>3. range \in Seq(Elements)
  BY <1>1, <1>2, SeqDef
<1>4. Len(range) = n
  BY <1>1, <1>2, <1>3, LenProperties
<1> QED
  BY <1>2, <1>3, <1>4, EmptySeq

----------------------------------------------------------------------------
(* The interrupt handler's steps *)

\* It begins to add what there is room for.
LEMMA AddStep ==
    ASSUME IInv, NEW range \in Seq(Elements), range # <<>>,
           writing = "idle", Len(range) <= Room(contentsBegin, contentsEnd),
           data' = range, writing' = "copy",
           UNCHANGED <<buffer, contentsBegin, contentsEnd, notificationScheduled, scheduled, readerVars, stream>>
    PROVE  IInv'
<1>1. TypeOK /\ Published /\ ReadInv /\ NotificationInv /\ ProgressInv
  BY InvFacts
<1>2. TypeOK'
  BY <1>1 DEF TypeOK, readerVars
<1>3. Published'
  BY <1>1, PublishedNext DEF Published
<1>4. ReadInv' /\ ProgressInv'
  BY <1>1 DEF ReadInv, ProgressInv, readerVars
<1>5. NotificationInv'
  BY <1>1 DEF NotificationInv, readerVars
<1> QED
  BY <1>2, <1>3, <1>4, <1>5, InvNext

\* AddFromInterrupt with one element.
LEMMA AddElementStep ==
    ASSUME IInv, NEW e \in Elements, AddElement(e)
    PROVE  IInv'
<1>1. <<e>> \in Seq(Elements) /\ <<e>> # <<>> /\ Len(<<e>>) = 1
  OBVIOUS
<1>2. 1 <= Room(contentsBegin, contentsEnd)
  <2>1. contentsBegin \in Cells /\ contentsEnd \in Cells /\ ~Full(contentsBegin, contentsEnd)
    BY InvFacts DEF TypeOK, AddElement
  <2>2. Room(contentsBegin, contentsEnd) >= 1 /\ Room(contentsBegin, contentsEnd) \in Int
    BY <2>1, NotFullHasRoom, BufferSizeAssumption DEF Room, Cells
  <2> QED
    BY <2>2
<1> QED
  BY <1>1, <1>2, AddStep DEF AddElement

\* AddFromInterrupt with a range.
LEMMA AddRangeStep ==
    ASSUME IInv, NEW range \in Ranges, AddRange(range)
    PROVE  IInv'
  BY RangeType, AddStep DEF AddRange

\* It copies to cells that hold nothing published.
LEMMA CopyDataStep ==
    ASSUME IInv, CopyData
    PROVE  IInv'
<1>1. TypeOK /\ Published /\ ReadInv /\ NotificationInv /\ ProgressInv
  BY InvFacts
<1> DEFINE b == contentsBegin
           e == contentsEnd
           At(c, i) == c = CellAt(e, i - 1)
<1>2. /\ b \in Cells /\ e \in Cells /\ data \in Seq(Elements) /\ Len(data) \in Nat
      /\ stream \in Seq(Elements) /\ Len(stream) \in Nat /\ buffer \in [Cells -> Elements]
      /\ Len(data) <= CapacityOf - Len(stream) /\ Len(stream) = Size(b, e)
      /\ CapacityOf \in Nat /\ CapacityOf + 1 = BufferSize
  BY <1>1, SizeAndRoom, CellArithmetic, LenProperties DEF TypeOK, Published
<1>3. \A i \in 1 .. Len(data) : CellAt(e, i - 1) \in Cells
  BY <1>2, CellArithmetic
<1>4. \A i, j \in 1 .. Len(data) : CellAt(e, i - 1) = CellAt(e, j - 1) => i = j
  <2> SUFFICES ASSUME NEW i \in 1 .. Len(data), NEW j \in 1 .. Len(data),
                      CellAt(e, i - 1) = CellAt(e, j - 1)
               PROVE  i = j
    OBVIOUS
  <2>1. i - 1 \in 0 .. CapacityOf /\ j - 1 \in 0 .. CapacityOf
    BY <1>2
  <2>2. i - 1 = j - 1
    BY <2>1, <1>2, CellArithmetic
  <2> QED
    BY <2>2
<1>5. \A i \in 1 .. Len(stream), j \in 1 .. Len(data) : CellAt(b, i - 1) # CellAt(e, j - 1)
  <2> SUFFICES ASSUME NEW i \in 1 .. Len(stream), NEW j \in 1 .. Len(data),
                      CellAt(b, i - 1) = CellAt(e, j - 1)
               PROVE  FALSE
    OBVIOUS
  <2>1. CellAt(b, Len(stream) + (j - 1)) = CellAt(e, j - 1)
    <3>1. j - 1 \in 0 .. Len(data) /\ Len(data) <= Room(b, e)
      BY <1>2, <1>1 DEF Published
    <3> QED
      BY <3>1, <1>2, MoveEnd
  <2>2. i - 1 \in 0 .. CapacityOf /\ Len(stream) + (j - 1) \in 0 .. CapacityOf
    BY <1>2
  <2>3. i - 1 = Len(stream) + (j - 1)
    BY <2>1, <2>2, <1>2, CellArithmetic
  <2> QED
    BY <2>3, <1>2
<1>6. buffer' = [c \in Cells |-> IF \E i \in 1 .. Len(data) : At(c, i)
                                 THEN data[CHOOSE i \in 1 .. Len(data) : At(c, i)] ELSE buffer[c]]
  BY DEF CopyData
<1>7. \A i \in 1 .. Len(data) : buffer'[CellAt(e, i - 1)] = data[i]
  <2> SUFFICES ASSUME NEW i \in 1 .. Len(data) PROVE buffer'[CellAt(e, i - 1)] = data[i]
    OBVIOUS
  <2> DEFINE c == CellAt(e, i - 1)
             j == CHOOSE k \in 1 .. Len(data) : At(c, k)
  <2>1. c \in Cells
    BY <1>3
  <2>2. j \in 1 .. Len(data) /\ At(c, j)
    OBVIOUS
  <2>3. j = i
    BY <2>2, <1>4
  <2>4. buffer'[c] = data[j]
    BY <2>1, <1>6
  <2> QED
    BY <2>3, <2>4
<1>8. \A i \in 1 .. Len(stream) : buffer'[CellAt(b, i - 1)] = stream[i]
  <2> SUFFICES ASSUME NEW i \in 1 .. Len(stream) PROVE buffer'[CellAt(b, i - 1)] = stream[i]
    OBVIOUS
  <2>1. CellAt(b, i - 1) \in Cells
    BY <1>2, CellArithmetic
  <2>2. buffer'[CellAt(b, i - 1)] = buffer[CellAt(b, i - 1)]
    BY <2>1, <1>5, <1>6
  <2> QED
    BY <2>2, <1>1 DEF Published
<1>9. buffer' \in [Cells -> Elements]
  <2>1. ASSUME NEW c \in Cells PROVE buffer'[c] \in Elements
    <3>1. CASE \E i \in 1 .. Len(data) : At(c, i)
      BY <3>1, <1>2, <1>7, ElementOfSeq
    <3>2. CASE ~\E i \in 1 .. Len(data) : At(c, i)
      <4>1. buffer'[c] = buffer[c]
        BY <3>2, <1>6
      <4> QED
        BY <4>1, <1>2
    <3> QED
      BY <3>1, <3>2
  <2>2. buffer' = [c \in Cells |-> buffer'[c]]
    BY <1>6
  <2> QED
    BY <2>1, <2>2
<1>10. TypeOK'
  BY <1>1, <1>9 DEF TypeOK, CopyData, readerVars
<1>11. Published'
  <2>1. UNCHANGED <<contentsBegin, contentsEnd, data, stream>>
    BY DEF CopyData
  <2> QED
    BY <1>1, <1>7, <1>8, <2>1, PublishedNext DEF Published
<1>12. ReadInv' /\ ProgressInv' /\ NotificationInv'
  BY <1>1 DEF ReadInv, ProgressInv, NotificationInv, CopyData, readerVars
<1> QED
  BY <1>10, <1>11, <1>12, InvNext

\* Publishing appends what was copied to what is published.
LEMMA PublishEndStep ==
    ASSUME IInv, PublishEnd
    PROVE  IInv'
<1>1. TypeOK /\ Published /\ ReadInv /\ NotificationInv /\ ProgressInv
  BY InvFacts
<1> DEFINE b == contentsBegin
           e == contentsEnd
           n == Len(data)
<1>2. /\ b \in Cells /\ e \in Cells /\ data \in Seq(Elements) /\ n \in Nat /\ n <= Room(b, e)
      /\ stream \in Seq(Elements) /\ Len(stream) \in Nat /\ Len(stream) = Size(b, e)
  BY <1>1, LenProperties DEF TypeOK, Published
<1>3. /\ stream' \in Seq(Elements) /\ Len(stream') = Len(stream) + n
      /\ \A i \in 1 .. Len(stream) + n :
            stream'[i] = IF i <= Len(stream) THEN stream[i] ELSE data[i - Len(stream)]
  BY <1>2, ConcatProperties DEF PublishEnd
<1>4. /\ contentsEnd' = CellAt(e, n) /\ contentsEnd' \in Cells
      /\ Size(b, contentsEnd') = Size(b, e) + n
      /\ \A i \in 0 .. n : CellAt(b, Size(b, e) + i) = CellAt(e, i)
  BY <1>2, MoveEnd DEF PublishEnd
<1>5. /\ data' = <<>> /\ writing' = "notify"
      /\ UNCHANGED <<buffer, contentsBegin, notificationScheduled, scheduled, readerVars>>
  BY DEF PublishEnd
<1>6. TypeOK'
  BY <1>1, <1>3, <1>4, <1>5 DEF TypeOK, readerVars
<1>7. \A i \in 1 .. Len(stream') : buffer'[CellAt(contentsBegin', i - 1)] = stream'[i]
  <2> SUFFICES ASSUME NEW i \in 1 .. Len(stream') PROVE buffer[CellAt(b, i - 1)] = stream'[i]
    BY <1>5
  <2>1. CASE i <= Len(stream)
    BY <2>1, <1>1, <1>2, <1>3 DEF Published
  <2>2. CASE i > Len(stream)
    <3> DEFINE j == i - Len(stream)
    <3>1. j \in 1 .. n /\ j - 1 \in 0 .. n /\ i - 1 = Len(stream) + (j - 1)
      BY <2>2, <1>2, <1>3
    <3>2. stream'[i] = data[j]
      BY <2>2, <1>2, <1>3
    <3>3. CellAt(b, i - 1) = CellAt(e, j - 1)
      BY <3>1, <1>2, <1>4
    <3>4. buffer[CellAt(e, j - 1)] = data[j]
      BY <3>1, <1>1 DEF Published, PublishEnd
    <3> QED
      BY <3>2, <3>3, <3>4
  <2> QED
    BY <2>1, <2>2, <1>2, <1>3
<1>8. Len(stream') = Size(contentsBegin', contentsEnd')
  BY <1>2, <1>3, <1>4, <1>5
<1>9. Len(data') <= Room(contentsBegin', contentsEnd')
  <2>1. Len(data') = 0
    BY <1>5
  <2>2. Room(contentsBegin', contentsEnd') \in Nat
    <3>1. /\ Room(contentsBegin', contentsEnd') = CapacityOf - Size(contentsBegin', contentsEnd')
          /\ Size(contentsBegin', contentsEnd') \in 0 .. CapacityOf
      BY <1>2, <1>4, <1>5, SizeAndRoom
    <3> QED
      BY <3>1, BufferSizeAssumption DEF CapacityOf
  <2> QED
    BY <2>1, <2>2
<1>10. Published'
  BY <1>5, <1>7, <1>8, <1>9, PublishedNext
<1>11. ReadInv'
  <2>1. got' = got /\ Len(got) \in Nat /\ Len(got) <= Len(stream) /\ \A i \in 1 .. Len(got) : got[i] = stream[i]
    BY <1>1, <1>5, LenProperties DEF TypeOK, ReadInv, readerVars
  <2>2. Len(got') <= Len(stream') /\ \A i \in 1 .. Len(got') : got'[i] = stream'[i]
    BY <2>1, <1>2, <1>3
  <2> QED
    BY <1>1, <1>5, <2>2 DEF ReadInv, readerVars
<1>12. ProgressInv' /\ NotificationInv'
  BY <1>1, <1>5 DEF ProgressInv, NotificationInv, readerVars
<1> QED
  BY <1>6, <1>10, <1>11, <1>12, InvNext

\* The test before the notification only skips it when nothing is left to read, and the
\* exchange schedules the action unless it is scheduled already.
LEMMA NotifyStep ==
    ASSUME IInv, NotifyTest \/ NotifyExchange
    PROVE  IInv'
<1>1. TypeOK /\ Published /\ ReadInv /\ NotificationInv /\ ProgressInv
  BY InvFacts
<1>2. UNCHANGED <<buffer, contentsBegin, contentsEnd, data, readerVars, stream>> /\ writing' # "publish"
  BY DEF NotifyTest, NotifyExchange
<1>3. TypeOK'
  <2>1. writing' \in {"idle", "exchange"} /\ scheduled' \in Nat
    BY <1>1 DEF TypeOK, NotifyTest, NotifyExchange
  <2>2. notificationScheduled' \in BOOLEAN
    BY <1>1 DEF TypeOK, NotifyTest, NotifyExchange
  <2> QED
    BY <1>1, <1>2, <2>1, <2>2 DEF TypeOK, readerVars
<1>4. Published'
  BY <1>1, <1>2, PublishedNext DEF Published
<1>5. ReadInv' /\ ProgressInv'
  BY <1>1, <1>2 DEF ReadInv, ProgressInv, readerVars, NotifyTest, NotifyExchange
<1>6. CASE NotifyTest
  BY <1>1, <1>3, <1>4, <1>5, <1>6, EmptyStream, InvNext DEF NotificationInv, NotifyTest, readerVars
<1>7. CASE NotifyExchange
  <2>1. NotificationInv'
    BY <1>1, <1>7 DEF TypeOK, NotificationInv, NotifyExchange, readerVars
  <2> QED
    BY <1>3, <1>4, <1>5, <2>1, InvNext
<1> QED
  BY <1>6, <1>7

----------------------------------------------------------------------------
(* The reader's steps *)

\* A step of the reader that leaves the queue as it is.
LEMMA ReaderPublished ==
    ASSUME Published, UNCHANGED <<buffer, contentsBegin, contentsEnd, data, writing, stream>>
    PROVE  Published'
  BY PublishedNext DEF Published

\* The action begins with resetting the flag, and returns when the queue is empty.
LEMMA CallbackStep ==
    ASSUME IInv, DataAvailable \/ CallbackDone
    PROVE  IInv'
<1>1. TypeOK /\ Published /\ ReadInv /\ NotificationInv /\ ProgressInv
  BY InvFacts
<1>2. Published'
  BY <1>1, ReaderPublished DEF DataAvailable, CallbackDone, writerVars
<1>3. TypeOK'
  <2>1. reading' \in {"idle", "callback"} /\ scheduled' \in Nat
    BY <1>1 DEF TypeOK, DataAvailable, CallbackDone
  <2>2. notificationScheduled' \in BOOLEAN
    BY <1>1 DEF TypeOK, DataAvailable, CallbackDone
  <2>3. UNCHANGED <<buffer, contentsBegin, contentsEnd, writing, data, available, offset, amount, got, stream, out>>
    BY DEF DataAvailable, CallbackDone, writerVars
  <2> QED
    BY <1>1, <2>1, <2>2, <2>3 DEF TypeOK
<1>4. ReadInv' /\ ProgressInv'
  BY <1>1 DEF ReadInv, ProgressInv, DataAvailable, CallbackDone, writerVars
<1>5. CASE DataAvailable
  <2>1. NotificationInv'
    BY <1>1, <1>5 DEF TypeOK, NotificationInv, DataAvailable, writerVars
  <2> QED
    BY <1>2, <1>3, <1>4, <2>1, InvNext
<1>6. CASE CallbackDone
  <2>1. NotificationInv'
    BY <1>1, <1>6, EmptyStream DEF NotificationInv, CallbackDone, writerVars
  <2> QED
    BY <1>2, <1>3, <1>4, <2>1, InvNext
<1> QED
  BY <1>5, <1>6

\* Get reads the oldest element.
LEMMA GetElementStep ==
    ASSUME IInv, GetElement
    PROVE  IInv'
<1>1. TypeOK /\ Published /\ ReadInv /\ NotificationInv /\ ProgressInv
  BY InvFacts
<1>2. /\ stream \in Seq(Elements) /\ stream # <<>> /\ Len(stream) \in Nat \ {0}
      /\ contentsBegin \in Cells
  BY <1>1, EmptyStream, EmptySeq DEF TypeOK, GetElement
<1>3. buffer[contentsBegin] = stream[1] /\ buffer[contentsBegin] \in Elements
  <2>1. CellAt(contentsBegin, 0) = contentsBegin /\ 1 \in 1 .. Len(stream) /\ 1 - 1 = 0
    BY <1>2, BufferSizeAssumption DEF CellAt, Cells
  <2>2. buffer[CellAt(contentsBegin, 1 - 1)] = stream[1]
    BY <1>1, <2>1 DEF Published
  <2> QED
    BY <1>1, <2>1, <2>2 DEF TypeOK
<1>4. /\ got' = <<buffer[contentsBegin]>> /\ reading = "callback" /\ reading' = "get"
      /\ UNCHANGED <<buffer, contentsBegin, contentsEnd, notificationScheduled, scheduled, writing, data,
                     available, offset, amount, stream, out>>
  BY DEF GetElement, writerVars
<1>5. got' \in Seq(Elements) /\ Len(got') = 1 /\ got'[1] = stream[1]
  BY <1>3, <1>4
<1>6. Published'
  BY <1>1, <1>4, ReaderPublished
<1>7. TypeOK'
  BY <1>1, <1>4, <1>5 DEF TypeOK
<1>8. ReadInv' /\ ProgressInv'
  BY <1>1, <1>2, <1>4, <1>5 DEF ReadInv, ProgressInv
<1>9. NotificationInv'
  BY <1>1, <1>4 DEF NotificationInv
<1> QED
  BY <1>6, <1>7, <1>8, <1>9, InvNext

\* A StreamReader begins with everything that is published, and drops what it has not
\* committed when it is destroyed.
LEMMA ReaderLifetimeStep ==
    ASSUME IInv, ConstructReader \/ DestroyReader
    PROVE  IInv'
<1>1. TypeOK /\ Published /\ ReadInv /\ NotificationInv /\ ProgressInv
  BY InvFacts
<1>2. /\ UNCHANGED <<buffer, contentsBegin, contentsEnd, notificationScheduled, scheduled, writing, data, amount, stream, out>>
      /\ offset' = 0 /\ got' = <<>> /\ available' \in 0 .. CapacityOf /\ 0 \in 0 .. CapacityOf
      /\ reading # "idle" /\ reading' \in {"callback", "stream"}
  <2>1. Size(contentsBegin, contentsEnd) \in 0 .. CapacityOf /\ 0 \in 0 .. CapacityOf
    BY <1>1, SizeAndRoom, BufferSizeAssumption DEF TypeOK, CapacityOf
  <2> QED
    BY <1>1, <2>1 DEF ConstructReader, DestroyReader, ProgressInv, writerVars
<1>3. Published'
  BY <1>1, <1>2, ReaderPublished
<1>4. got' \in Seq(Elements) /\ Len(got') = 0
  BY <1>2
<1>5. TypeOK'
  BY <1>1, <1>2, <1>4 DEF TypeOK
<1>6. ReadInv'
  <2>1. Len(stream) \in Nat
    BY <1>1, LenProperties DEF TypeOK
  <2> QED
    BY <1>2, <1>4, <2>1 DEF ReadInv
<1>7. ProgressInv' /\ NotificationInv'
  BY <1>1, <1>2 DEF ProgressInv, NotificationInv
<1> QED
  BY <1>3, <1>5, <1>6, <1>7, InvNext

\* What lies side by side from off onwards has been published.
LEMMA ContiguousPublished ==
    ASSUME IInv, NEW off \in Nat, off <= Len(stream)
    PROVE  ContiguousSize(off) \in Int /\ off + ContiguousSize(off) <= Len(stream)
<1> DEFINE b == contentsBegin
           e == contentsEnd
           from == CellAt(b, off)
<1>1. b \in Cells /\ e \in Cells /\ Len(stream) = Size(b, e) /\ Size(b, e) \in 0 .. CapacityOf
  BY InvFacts, SizeAndRoom DEF TypeOK, Published
<1>2. from \in Cells /\ Size(from, e) = Size(b, e) - off
  BY <1>1, MoveBegin
<1>3. ContiguousSize(off) = IF e < from THEN BufferSize - from ELSE e - from
  BY DEF ContiguousSize
<1>4. Size(from, e) = IF e >= from THEN e - from ELSE (BufferSize - from) + e
  BY <1>1, <1>2, SizeAndRoom
<1> HIDE DEF b, e, from
<1> QED
  BY <1>1, <1>2, <1>3, <1>4, BufferSizeAssumption DEF Cells, CapacityOf

\* The least of three integers.
LEMMA LeastOfThree ==
    ASSUME NEW x \in Int, NEW y \in Int, NEW z \in Int
    PROVE  LET n == CHOOSE k \in {x, y, z} : k <= x /\ k <= y /\ k <= z
           IN  n \in Int /\ n <= x /\ n <= y /\ n <= z
<1>1. \E k \in {x, y, z} : k <= x /\ k <= y /\ k <= z
  <2>1. CASE x <= y /\ x <= z
    BY <2>1
  <2>2. CASE y <= x /\ y <= z
    BY <2>2
  <2>3. CASE z <= x /\ z <= y
    BY <2>3
  <2> QED
    BY <2>1, <2>2, <2>3
<1> QED
  BY <1>1

\* Extracting continues with the elements that were published next, and not beyond them,
\* although available may be stale after a Commit.
LEMMA ExtractStep ==
    ASSUME IInv, NEW max \in 1 .. CapacityOf, Extract(max)
    PROVE  IInv'
<1>1. TypeOK /\ Published /\ ReadInv /\ NotificationInv /\ ProgressInv
  BY InvFacts
<1> DEFINE room == available - offset
           n == CHOOSE k \in {max, room, ContiguousSize(offset)} :
                   k <= max /\ k <= room /\ k <= ContiguousSize(offset)
           more == [i \in 1 .. n |-> buffer[CellAt(contentsBegin, offset + i - 1)]]
<1>2. /\ reading = "stream" /\ n > 0 /\ got' = got \o more /\ offset' = offset + n
      /\ UNCHANGED <<buffer, contentsBegin, contentsEnd, notificationScheduled, scheduled, writing, data,
                     reading, available, amount, stream, out>>
  BY DEF Extract, writerVars
<1>3. /\ got \in Seq(Elements) /\ Len(got) \in Nat /\ Len(got) <= Len(stream)
      /\ stream \in Seq(Elements) /\ Len(stream) \in Nat
      /\ offset = Len(got) /\ offset \in Nat /\ available \in 0 .. CapacityOf /\ CapacityOf \in Nat
      /\ \A i \in 1 .. Len(got) : got[i] = stream[i]
      /\ Len(stream) <= CapacityOf /\ contentsBegin \in Cells
  <2>1. Len(stream) <= CapacityOf /\ CapacityOf \in Nat
    BY <1>1, SizeAndRoom, CellArithmetic DEF TypeOK, Published
  <2> QED
    BY <1>1, <1>2, <2>1, LenProperties DEF TypeOK, ReadInv
<1>4. n \in Nat /\ n <= room /\ offset + n <= Len(stream)
  <2>1. ContiguousSize(offset) \in Int /\ offset + ContiguousSize(offset) <= Len(stream)
    BY <1>3, ContiguousPublished
  <2>2. max \in Int /\ room \in Int
    BY <1>3
  <2> HIDE DEF room
  <2>3. n \in Int /\ n <= room /\ n <= ContiguousSize(offset)
    BY <2>1, <2>2, LeastOfThree
  <2> HIDE DEF n
  <2> QED
    BY <1>2, <1>3, <2>1, <2>3
<1> HIDE DEF n
<1>5. \A i \in 1 .. n : buffer[CellAt(contentsBegin, offset + i - 1)] = stream[offset + i] /\ stream[offset + i] \in Elements
  <2> SUFFICES ASSUME NEW i \in 1 .. n
               PROVE  buffer[CellAt(contentsBegin, offset + i - 1)] = stream[offset + i] /\ stream[offset + i] \in Elements
    OBVIOUS
  <2>1. offset + i \in 1 .. Len(stream)
    BY <1>3, <1>4
  <2>2. stream[offset + i] \in Elements
    BY <2>1, <1>3, ElementOfSeq
  <2>3. \A j \in 1 .. Len(stream) : buffer[CellAt(contentsBegin, j - 1)] = stream[j]
    BY <1>1 DEF Published
  <2> QED
    BY <2>1, <2>2, <2>3, <1>3
<1>6. /\ more \in Seq(Elements) /\ Len(more) = n
      /\ \A i \in 1 .. n : more[i] = stream[offset + i]
  <2>1. more \in Seq(Elements)
    BY <1>4, <1>5, IsASeq
  <2> QED
    BY <2>1, <1>4, <1>5, LenProperties
<1> HIDE DEF more
<1>7. /\ got' \in Seq(Elements) /\ Len(got') = Len(got) + n
      /\ \A i \in 1 .. Len(got) + n : got'[i] = IF i <= Len(got) THEN got[i] ELSE more[i - Len(got)]
  BY <1>2, <1>3, <1>6, ConcatProperties, ZenonT(60)
<1>8. \A i \in 1 .. Len(got') : got'[i] = stream[i]
  <2> SUFFICES ASSUME NEW i \in 1 .. Len(got') PROVE got'[i] = stream[i]
    OBVIOUS
  <2>1. CASE i <= Len(got)
    BY <2>1, <1>3, <1>4, <1>7
  <2>2. CASE i > Len(got)
    <3>1. i - Len(got) \in 1 .. n /\ offset + (i - Len(got)) = i
      BY <2>2, <1>3, <1>4, <1>7
    <3>2. got'[i] = more[i - Len(got)]
      BY <2>2, <1>3, <1>4, <1>7
    <3> QED
      BY <3>1, <3>2, <1>6
  <2> QED
    BY <2>1, <2>2, <1>3, <1>4, <1>7
<1>9. Published'
  BY <1>1, <1>2, ReaderPublished
<1>10. offset' \in 0 .. CapacityOf /\ offset' = Len(got') /\ offset' <= available /\ Len(got') <= Len(stream)
  BY <1>2, <1>3, <1>4, <1>7
<1>11. TypeOK'
  BY <1>1, <1>2, <1>7, <1>10 DEF TypeOK
<1>12. ReadInv'
  BY <1>2, <1>8, <1>10 DEF ReadInv
<1>13. ProgressInv' /\ NotificationInv'
  BY <1>1, <1>2 DEF ProgressInv, NotificationInv
<1> QED
  BY <1>9, <1>11, <1>12, <1>13, InvNext

\* Rewinding forgets what was extracted after the marker.
LEMMA RewindStep ==
    ASSUME IInv, NEW marker \in 0 .. CapacityOf, Rewind(marker)
    PROVE  IInv'
<1>1. TypeOK /\ Published /\ ReadInv /\ NotificationInv /\ ProgressInv
  BY InvFacts
<1>2. /\ reading = "stream" /\ marker < offset /\ offset' = marker /\ got' = SubSeq(got, 1, marker)
      /\ UNCHANGED <<buffer, contentsBegin, contentsEnd, notificationScheduled, scheduled, writing, data,
                     reading, available, amount, stream, out>>
  BY DEF Rewind, writerVars
<1>3. /\ got \in Seq(Elements) /\ Len(got) \in Nat /\ Len(got) <= Len(stream) /\ Len(stream) \in Nat
      /\ offset = Len(got) /\ offset <= available /\ available \in 0 .. CapacityOf
      /\ marker \in Nat /\ CapacityOf \in Nat
      /\ \A i \in 1 .. Len(got) : got[i] = stream[i]
  BY <1>1, <1>2, LenProperties, BufferSizeAssumption DEF TypeOK, ReadInv, CapacityOf
<1>4. /\ got' \in Seq(Elements) /\ Len(got') = marker
      /\ \A i \in 1 .. marker : got'[i] = got[i]
  <2>1. \A i \in 1 .. marker : got[i] \in Elements
    BY <1>2, <1>3, ElementOfSeq
  <2>2. /\ SubSeq(got, 1, marker) \in Seq(Elements)
        /\ Len(SubSeq(got, 1, marker)) = IF 1 <= marker THEN marker - 1 + 1 ELSE 0
        /\ \A i \in 1 .. marker - 1 + 1 : SubSeq(got, 1, marker)[i] = got[1 + i - 1]
    BY <2>1, SubSeqProperties
  <2> QED
    BY <2>2, <1>2, <1>3
<1>5. Published'
  BY <1>1, <1>2, ReaderPublished
<1>6. TypeOK'
  BY <1>1, <1>2, <1>4 DEF TypeOK
<1>7. ReadInv'
  <2>1. Len(got') <= Len(stream) /\ \A i \in 1 .. Len(got') : got'[i] = stream[i]
    BY <1>2, <1>3, <1>4
  <2>2. offset' = Len(got') /\ offset' <= available
    BY <1>2, <1>3, <1>4
  <2> QED
    BY <1>2, <2>1, <2>2 DEF ReadInv
<1>8. ProgressInv' /\ NotificationInv'
  BY <1>1, <1>2 DEF ProgressInv, NotificationInv
<1> QED
  BY <1>5, <1>6, <1>7, <1>8, InvNext

\* What is left of a sequence without its first n elements.
LEMMA RestOf ==
    ASSUME NEW S, NEW s \in Seq(S), NEW n \in Nat, n <= Len(s)
    PROVE  /\ SubSeq(s, n + 1, Len(s)) \in Seq(S)
           /\ Len(SubSeq(s, n + 1, Len(s))) = Len(s) - n
           /\ \A i \in 1 .. Len(s) - n : SubSeq(s, n + 1, Len(s))[i] = s[n + i]
<1>1. Len(s) \in Nat /\ n + 1 \in Int
  BY LenProperties
<1>2. \A i \in n + 1 .. Len(s) : s[i] \in S
  BY <1>1, ElementOfSeq
<1>3. /\ SubSeq(s, n + 1, Len(s)) \in Seq(S)
      /\ Len(SubSeq(s, n + 1, Len(s))) = IF n + 1 <= Len(s) THEN Len(s) - (n + 1) + 1 ELSE 0
      /\ \A i \in 1 .. Len(s) - (n + 1) + 1 : SubSeq(s, n + 1, Len(s))[i] = s[(n + 1) + i - 1]
  BY <1>1, <1>2, SubSeqProperties
<1> DEFINE r == SubSeq(s, n + 1, Len(s))
<1>4. Len(r) = Len(s) - n
  <2>1. Len(r) = IF n + 1 <= Len(s) THEN Len(s) - (n + 1) + 1 ELSE 0
    BY <1>3
  <2> HIDE DEF r
  <2> QED
    BY <1>1, <2>1
<1>5. ASSUME NEW i \in 1 .. Len(s) - n
      PROVE  r[i] = s[n + i]
  <2>1. i \in 1 .. Len(s) - (n + 1) + 1 /\ (n + 1) + i - 1 = n + i
    BY <1>1
  <2>2. r[i] = s[(n + 1) + i - 1]
    BY <1>3, <2>1
  <2> QED
    BY <2>1, <2>2
<1> QED
  BY <1>3, <1>4, <1>5

\* The first n elements of a sequence.
LEMMA FirstOf ==
    ASSUME NEW S, NEW s \in Seq(S), NEW n \in Nat, n <= Len(s)
    PROVE  /\ SubSeq(s, 1, n) \in Seq(S)
           /\ Len(SubSeq(s, 1, n)) = n
           /\ \A i \in 1 .. n : SubSeq(s, 1, n)[i] = s[i]
<1>1. Len(s) \in Nat
  BY LenProperties
<1>2. \A i \in 1 .. n : s[i] \in S
  BY <1>1, ElementOfSeq
<1>3. /\ SubSeq(s, 1, n) \in Seq(S)
      /\ Len(SubSeq(s, 1, n)) = IF 1 <= n THEN n - 1 + 1 ELSE 0
      /\ \A i \in 1 .. n - 1 + 1 : SubSeq(s, 1, n)[i] = s[1 + i - 1]
  BY <1>1, <1>2, SubSeqProperties
<1> QED
  BY <1>3

\* The reader gives back the cells of what it has read, which are the oldest published
\* elements: it consumed these and no others, and the rest is published still.
LEMMA GiveBackFacts ==
    ASSUME IInv, NEW n \in Nat, n <= Len(got), GiveBack(n),
           contentsBegin' = CellAt(contentsBegin, n),
           UNCHANGED <<buffer, contentsEnd, writing, data>>
    PROVE  /\ contentsBegin' \in Cells /\ Published'
           /\ stream' \in Seq(Elements) /\ got' \in Seq(Elements) /\ out' \in Seq(Elements)
           /\ Len(got') = Len(got) - n /\ Len(got') <= Len(stream')
           /\ \A i \in 1 .. Len(got') : got'[i] = stream'[i]
           /\ stream = <<>> => stream' = <<>>
           /\ n <= Len(stream)
           /\ IF n = 0 THEN UNCHANGED <<stream, out>>
              ELSE out' = SubSeq(stream, 1, n) /\ stream' = SubSeq(stream, n + 1, Len(stream))
<1> DEFINE b == contentsBegin
           e == contentsEnd
<1>1. TypeOK /\ Published /\ ReadInv
  BY InvFacts
<1>2. /\ got \in Seq(Elements) /\ Len(got) \in Nat /\ Len(got) <= Len(stream)
      /\ \A i \in 1 .. Len(got) : got[i] = stream[i]
      /\ stream \in Seq(Elements) /\ Len(stream) \in Nat /\ Len(stream) = Size(b, e)
      /\ b \in Cells /\ e \in Cells /\ n <= Len(stream) /\ out \in Seq(Elements)
  BY <1>1, LenProperties DEF TypeOK, Published, ReadInv
<1>3. /\ stream' = SubSeq(stream, n + 1, Len(stream))
      /\ stream' \in Seq(Elements) /\ Len(stream') = Len(stream) - n
      /\ \A i \in 1 .. Len(stream) - n : stream'[i] = stream[n + i]
  BY <1>2, RestOf DEF GiveBack
<1>4. /\ got' \in Seq(Elements) /\ Len(got') = Len(got) - n
      /\ \A i \in 1 .. Len(got) - n : got'[i] = got[n + i]
  BY <1>2, RestOf DEF GiveBack
<1>5. SubSeq(got, 1, n) = SubSeq(stream, 1, n) /\ SubSeq(got, 1, n) \in Seq(Elements)
  <2>1. /\ SubSeq(got, 1, n) \in Seq(Elements) /\ Len(SubSeq(got, 1, n)) = n
        /\ \A i \in 1 .. n : SubSeq(got, 1, n)[i] = got[i]
    BY <1>2, FirstOf
  <2>2. /\ SubSeq(stream, 1, n) \in Seq(Elements) /\ Len(SubSeq(stream, 1, n)) = n
        /\ \A i \in 1 .. n : SubSeq(stream, 1, n)[i] = stream[i]
    BY <1>2, FirstOf
  <2>3. \A i \in 1 .. n : got[i] = stream[i]
    BY <1>2
  <2> QED
    BY <2>1, <2>2, <2>3, SeqEqual
<1>6. IF n = 0 THEN UNCHANGED <<stream, out>>
      ELSE out' = SubSeq(stream, 1, n) /\ stream' = SubSeq(stream, n + 1, Len(stream))
  <2>1. CASE n = 0
    BY <2>1, <1>2, <1>3, SubSeqFull DEF GiveBack
  <2>2. CASE n # 0
    BY <2>2, <1>3, <1>5 DEF GiveBack
  <2> QED
    BY <2>1, <2>2
<1>7. out' \in Seq(Elements)
  BY <1>2, <1>5 DEF GiveBack
<1>8. /\ contentsBegin' \in Cells
      /\ Size(contentsBegin', e) = Size(b, e) - n
      /\ Room(contentsBegin', e) = Room(b, e) + n
      /\ \A i \in 0 .. Size(b, e) - n : CellAt(contentsBegin', i) = CellAt(b, n + i)
  BY <1>2, MoveBegin
<1>9. \A i \in 1 .. Len(stream') : buffer[CellAt(contentsBegin', i - 1)] = stream'[i]
  <2> SUFFICES ASSUME NEW i \in 1 .. Len(stream')
               PROVE  buffer[CellAt(contentsBegin', i - 1)] = stream'[i]
    OBVIOUS
  <2>1. n + i \in 1 .. Len(stream) /\ n + (i - 1) = (n + i) - 1 /\ i - 1 \in 0 .. Size(b, e) - n
    BY <1>2, <1>3
  <2>2. CellAt(contentsBegin', i - 1) = CellAt(b, n + (i - 1))
    BY <2>1, <1>8
  <2>3. buffer[CellAt(b, (n + i) - 1)] = stream[n + i]
    BY <2>1, <1>1 DEF Published
  <2> QED
    BY <2>1, <2>2, <2>3, <1>3
<1>10. Len(data') <= Room(contentsBegin', contentsEnd')
  <2>1. Len(data) <= Room(b, e) /\ Len(data) \in Nat
    BY <1>1, LenProperties DEF Published, TypeOK
  <2>2. Room(b, e) \in Int
    BY <1>2, BufferSizeAssumption DEF Room, Cells
  <2> QED
    BY <2>1, <2>2, <1>8
<1>11. Published'
  BY <1>1, <1>2, <1>3, <1>8, <1>9, <1>10, PublishedNext DEF Published
<1>12. Len(got') <= Len(stream') /\ \A i \in 1 .. Len(got') : got'[i] = stream'[i]
  <2>1. Len(got') <= Len(stream')
    BY <1>2, <1>3, <1>4
  <2>2. ASSUME NEW i \in 1 .. Len(got')
        PROVE  got'[i] = stream'[i]
    <3>1. /\ i \in 1 .. Len(got) - n /\ i \in 1 .. Len(stream) - n
          /\ n + i \in 1 .. Len(got)
      BY <1>2, <1>4
    <3>2. got'[i] = got[n + i] /\ stream'[i] = stream[n + i]
      BY <3>1, <1>3, <1>4
    <3>3. got[n + i] = stream[n + i]
      BY <3>1, <1>2
    <3> QED
      BY <3>2, <3>3
  <2> QED
    BY <2>1, <2>2
<1>13. stream = <<>> => stream' = <<>>
  <2>1. stream = <<>> => Len(stream') = 0
    BY <1>2, <1>3
  <2> QED
    BY <2>1, <1>3, EmptySeq
<1> QED
  BY <1>2, <1>3, <1>4, <1>6, <1>7, <1>8, <1>11, <1>12, <1>13

\* What every step that gives something back keeps, whatever becomes of the reader.
LEMMA ConsumeStep ==
    ASSUME IInv, NEW n \in Nat, n <= Len(got), GiveBack(n),
           contentsBegin' = CellAt(contentsBegin, n),
           reading # "idle", reading' \in {"callback", "stream", "wrapped"},
           offset' \in 0 .. CapacityOf, amount' \in 0 .. CapacityOf,
           reading' = "callback" => n = Len(got),
           reading' = "stream" => n = Len(got) /\ offset' = 0,
           reading' = "wrapped" => amount' = Len(got) - n /\ contentsBegin' = 0 /\ offset' = 0,
           UNCHANGED <<buffer, contentsEnd, notificationScheduled, scheduled, writing, data, available>>
    PROVE  IInv'
<1>1. TypeOK /\ NotificationInv /\ ProgressInv
  BY InvFacts
<1>2. /\ contentsBegin' \in Cells /\ Published'
      /\ stream' \in Seq(Elements) /\ got' \in Seq(Elements) /\ out' \in Seq(Elements)
      /\ Len(got') = Len(got) - n /\ Len(got') <= Len(stream')
      /\ \A i \in 1 .. Len(got') : got'[i] = stream'[i]
      /\ stream = <<>> => stream' = <<>>
  BY GiveBackFacts
<1>3. TypeOK'
  BY <1>1, <1>2 DEF TypeOK
<1>4. Len(got) \in Nat /\ Len(got') \in Nat /\ available \in 0 .. CapacityOf
  BY <1>1, <1>2, LenProperties DEF TypeOK
<1>5. reading' \in {"callback", "stream"} => got' = <<>> /\ Len(got') = 0
  BY <1>2, <1>4, EmptySeq
<1>6. ReadInv'
  BY <1>2, <1>4, <1>5 DEF ReadInv
<1>7. ProgressInv'
  BY <1>1, <1>5 DEF ProgressInv
<1>8. NotificationInv'
  BY <1>1, <1>2 DEF NotificationInv
<1> QED
  BY <1>2, <1>3, <1>6, <1>7, <1>8, InvNext

\* Every step that moves contentsBegin gives back as many elements as it moves over.
LEMMA GiveBackSteps ==
    ASSUME IInv, AdvanceBegin \/ Commit \/ ConsumeRest
    PROVE  \E n \in Nat :
              /\ n <= Len(got) /\ GiveBack(n)
              /\ contentsBegin' = CellAt(contentsBegin, n)
              /\ reading # "idle" /\ reading' \in {"callback", "stream", "wrapped"}
              /\ offset' \in 0 .. CapacityOf /\ amount' \in 0 .. CapacityOf
              /\ reading' = "callback" => n = Len(got)
              /\ reading' = "stream" => n = Len(got) /\ offset' = 0
              /\ reading' = "wrapped" => amount' = Len(got) - n /\ contentsBegin' = 0 /\ offset' = 0
              /\ UNCHANGED <<buffer, contentsEnd, notificationScheduled, scheduled, writing, data, available>>
<1>1. TypeOK /\ ReadInv /\ ProgressInv
  BY InvFacts
<1>2. /\ Len(got) \in Nat /\ contentsBegin \in 0 .. BufferSize - 1 /\ BufferSize \in Nat
      /\ offset \in 0 .. BufferSize - 1 /\ amount \in 0 .. BufferSize - 1
  BY <1>1, LenProperties, BufferSizeAssumption DEF TypeOK, Cells, CapacityOf
<1>3. CASE AdvanceBegin
  <2>1. Len(got) = 1 /\ contentsBegin' = CellAt(contentsBegin, 1)
    BY <1>1, <1>2, <1>3 DEF AdvanceBegin, ProgressInv, CellAt
  <2>2. /\ GiveBack(1) /\ reading = "get" /\ reading' = "callback"
        /\ UNCHANGED <<buffer, contentsEnd, notificationScheduled, scheduled, writing, data, available, offset, amount>>
    BY <1>3 DEF AdvanceBegin, writerVars
  <2> QED
    BY <2>1, <2>2, <1>2 DEF CapacityOf
<1>4. CASE Commit
  <2>1. /\ reading = "stream" /\ offset = Len(got) /\ offset > 0 /\ offset' = 0
        /\ UNCHANGED <<buffer, contentsEnd, notificationScheduled, scheduled, writing, data, available>>
    BY <1>1, <1>4 DEF Commit, ReadInv, writerVars
  <2>2. CASE contentsBegin + offset < BufferSize
    <3>1. contentsBegin' = contentsBegin + offset /\ GiveBack(offset) /\ UNCHANGED <<amount, reading>>
      BY <1>2, <1>4, <2>2 DEF Commit
    <3>2. contentsBegin' = CellAt(contentsBegin, offset)
      BY <2>2, <3>1 DEF CellAt
    <3> QED
      BY <1>2, <2>1, <3>1, <3>2 DEF CapacityOf
  <2>3. CASE contentsBegin + offset >= BufferSize
    <3> DEFINE n == BufferSize - contentsBegin
    <3>1. contentsBegin' = 0 /\ amount' = offset - n /\ GiveBack(n) /\ reading' = "wrapped"
      BY <1>2, <1>4, <2>3 DEF Commit
    <3>2. n \in Nat /\ n <= Len(got) /\ offset - n \in 0 .. CapacityOf /\ 0 \in 0 .. CapacityOf
      BY <1>2, <2>1, <2>3 DEF CapacityOf
    <3>3. contentsBegin' = CellAt(contentsBegin, n)
      BY <1>2, <3>1 DEF CellAt
    <3> HIDE DEF n
    <3> QED
      BY <2>1, <3>1, <3>2, <3>3
  <2> QED
    BY <1>2, <2>2, <2>3
<1>5. CASE ConsumeRest
  <2>1. /\ amount = Len(got) /\ contentsBegin = 0 /\ offset = 0 /\ offset' = offset /\ amount' = 0
        /\ contentsBegin' = contentsBegin + amount /\ GiveBack(amount) /\ reading = "wrapped" /\ reading' = "stream"
        /\ UNCHANGED <<buffer, contentsEnd, notificationScheduled, scheduled, writing, data, available>>
    BY <1>1, <1>5 DEF ConsumeRest, ReadInv, ProgressInv, writerVars
  <2>2. contentsBegin' = CellAt(contentsBegin, amount)
    BY <1>2, <2>1 DEF CellAt
  <2> QED
    BY <1>2, <2>1, <2>2 DEF CapacityOf
<1> QED
  BY <1>3, <1>4, <1>5

\* Whatever the reader gives back, the invariant still holds.
LEMMA CommitStep ==
    ASSUME IInv, AdvanceBegin \/ Commit \/ ConsumeRest
    PROVE  IInv'
<1>1. PICK n \in Nat :
              /\ n <= Len(got) /\ GiveBack(n)
              /\ contentsBegin' = CellAt(contentsBegin, n)
              /\ reading # "idle" /\ reading' \in {"callback", "stream", "wrapped"}
              /\ offset' \in 0 .. CapacityOf /\ amount' \in 0 .. CapacityOf
              /\ reading' = "callback" => n = Len(got)
              /\ reading' = "stream" => n = Len(got) /\ offset' = 0
              /\ reading' = "wrapped" => amount' = Len(got) - n /\ contentsBegin' = 0 /\ offset' = 0
              /\ UNCHANGED <<buffer, contentsEnd, notificationScheduled, scheduled, writing, data, available>>
  BY GiveBackSteps
<1> QED
  BY <1>1, ConsumeStep

----------------------------------------------------------------------------
(* The theorems *)

\* The queue begins empty, with nobody adding or reading.
LEMMA InvInit ==
    ASSUME Init
    PROVE  IInv
<1>1. 0 \in Cells /\ 0 \in 0 .. CapacityOf
  BY BufferSizeAssumption DEF Cells, CapacityOf
<1>2. /\ buffer \in [Cells -> Elements] /\ contentsBegin = 0 /\ contentsEnd = 0
      /\ scheduled = 0 /\ writing = "idle" /\ data = <<>> /\ reading = "idle"
      /\ available = 0 /\ offset = 0 /\ amount = 0 /\ got = <<>> /\ stream = <<>> /\ out = <<>>
  BY DEF Init
<1>3. notificationScheduled = FALSE
  BY DEF Init
<1>4. TypeOK
  <2>1. notificationScheduled \in BOOLEAN
    BY <1>3
  <2>2. <<>> \in Seq(Elements)
    OBVIOUS
  <2> QED
    BY <1>1, <1>2, <2>1, <2>2 DEF TypeOK
<1>5. Published
  <2>1. Size(0, 0) = 0 /\ Room(0, 0) = CapacityOf - 0 /\ CapacityOf \in Nat
    BY <1>1, SizeAndRoom, CellArithmetic
  <2>2. Len(stream) = 0 /\ Len(data) = 0
    BY <1>2
  <2> QED
    BY <1>2, <2>1, <2>2 DEF Published
<1>6. ReadInv /\ ProgressInv
  <2>1. Len(stream) = 0 /\ Len(got) = 0
    BY <1>2
  <2> QED
    BY <1>2, <2>1 DEF ReadInv, ProgressInv
<1>7. NotificationInv
  <2>1. scheduled <= 1 /\ ~(scheduled > 0)
    BY <1>2
  <2> QED
    BY <1>2, <1>3, <2>1 DEF NotificationInv
<1> QED
  BY <1>4, <1>5, <1>6, <1>7, InvFacts

\* Every step of the interrupt handler and of the reader keeps the invariant.
LEMMA InvStep ==
    ASSUME IInv, [Next]_vars
    PROVE  IInv'
<1>1. ASSUME NEW e \in Elements, AddElement(e) PROVE IInv'
  BY <1>1, AddElementStep
<1>2. ASSUME NEW range \in Ranges, AddRange(range) PROVE IInv'
  BY <1>2, AddRangeStep
<1>3. CASE WriterStep
  BY <1>3, CopyDataStep, PublishEndStep, NotifyStep DEF WriterStep
<1>4. CASE ReaderStep
  <2>1. ASSUME NEW max \in 1 .. CapacityOf, Extract(max) PROVE IInv'
    BY <2>1, ExtractStep
  <2>2. CASE DataAvailable \/ CallbackDone
    BY <2>2, CallbackStep
  <2>3. CASE GetElement
    BY <2>3, GetElementStep
  <2>4. CASE AdvanceBegin \/ Commit \/ ConsumeRest
    BY <2>4, CommitStep
  <2>5. CASE ConstructReader \/ DestroyReader
    BY <2>5, ReaderLifetimeStep
  <2> QED
    BY <1>4, <2>1, <2>2, <2>3, <2>4, <2>5 DEF ReaderStep, ExtractSome
<1>5. ASSUME NEW marker \in 0 .. CapacityOf, Rewind(marker) PROVE IInv'
  BY <1>5, RewindStep
<1>6. CASE UNCHANGED vars
  <2>1. TypeOK /\ Published /\ ReadInv /\ NotificationInv /\ ProgressInv
    BY InvFacts
  <2>2. Published'
    BY <1>6, <2>1, PublishedNext DEF Published, vars
  <2>3. TypeOK'
    BY <1>6, <2>1 DEF TypeOK, vars
  <2>4. ReadInv' /\ ProgressInv'
    BY <1>6, <2>1 DEF ReadInv, ProgressInv, vars
  <2>5. NotificationInv'
    BY <1>6, <2>1 DEF NotificationInv, vars
  <2> QED
    BY <2>2, <2>3, <2>4, <2>5, InvNext
<1> QED
  BY <1>1, <1>2, <1>3, <1>4, <1>5, <1>6 DEF Next

\* Whatever the size of the buffer, the invariant holds in every state.
THEOREM Invariant == Spec => []IInv
<1>1. Init => IInv
  BY InvInit
<1>2. IInv /\ [Next]_vars => IInv'
  BY InvStep
<1> QED
  BY <1>1, <1>2, PTL DEF Spec

\* The cells from contentsBegin to contentsEnd hold what was published, and the
\* interrupt copies outside of them, however it interleaves with the reader.
THEOREM ContentsKept == Spec => []ContentsInv
<1>1. IInv => ContentsInv
  BY DEF IInv
<1> QED
  BY <1>1, Invariant, PTL

\* What the reader holds is the oldest part of what was published.
THEOREM ReadsOldest == Spec => []ReadInv
<1>1. IInv => ReadInv
  BY DEF IInv
<1> QED
  BY <1>1, Invariant, PTL

\* Elements in the queue are never left without a reader or a notification, and the
\* DataAvailable action is on the event dispatcher at most once.
THEOREM NeverUnnoticed == Spec => []NotificationInv
<1>1. IInv => NotificationInv
  BY DEF IInv
<1> QED
  BY <1>1, Invariant, PTL

----------------------------------------------------------------------------
(* The refinement *)

\* Publishing is the abstract write of what was copied, which fits.
LEMMA PublishWrites ==
    ASSUME IInv, PublishEnd
    PROVE  Stream!Next
<1>1. TypeOK /\ Published /\ ProgressInv
  BY InvFacts
<1> DEFINE n == Len(data)
<1>2. /\ data \in Seq(Elements) /\ n \in Nat /\ data # <<>> /\ stream \in Seq(Elements) /\ Len(stream) \in Nat
      /\ stream' = stream \o data /\ out' = out
  BY <1>1, LenProperties DEF TypeOK, ProgressInv, PublishEnd, readerVars
<1>3. n # 0
  BY <1>2, EmptySeq
<1>4. Len(stream) + n <= CapacityOf /\ CapacityOf \in Nat
  <2>1. n <= CapacityOf - Len(stream) /\ CapacityOf \in Nat
    BY <1>1, SizeAndRoom, CellArithmetic DEF TypeOK, Published
  <2> QED
    BY <1>2, <2>1
<1>5. n \in 1 .. CapacityOf
  BY <1>2, <1>3, <1>4
<1>6. data \in [1 .. n -> Elements]
  BY <1>2, LenProperties
<1>7. Stream!Write(data)
  BY <1>2, <1>4 DEF Stream!Write
<1> QED
  BY <1>5, <1>6, <1>7 DEF Stream!Next

\* What the reader gives back, if anything, is the abstract consumption of the oldest elements.
LEMMA GiveBackConsumes ==
    ASSUME IInv, AdvanceBegin \/ Commit \/ ConsumeRest
    PROVE  Stream!Next \/ UNCHANGED <<stream, out>>
<1>1. PICK n \in Nat :
         /\ n <= Len(got) /\ GiveBack(n) /\ contentsBegin' = CellAt(contentsBegin, n)
         /\ UNCHANGED <<buffer, contentsEnd, writing, data>>
  BY GiveBackSteps
<1>2. /\ n <= Len(stream)
      /\ IF n = 0 THEN UNCHANGED <<stream, out>>
         ELSE out' = SubSeq(stream, 1, n) /\ stream' = SubSeq(stream, n + 1, Len(stream))
  BY <1>1, GiveBackFacts
<1>3. Len(stream) \in Nat /\ Len(stream) <= CapacityOf /\ CapacityOf \in Nat
  <2>1. TypeOK /\ Len(stream) = Size(contentsBegin, contentsEnd)
    BY InvFacts DEF Published
  <2> QED
    BY <2>1, SizeAndRoom, CellArithmetic, LenProperties DEF TypeOK
<1>4. CASE n = 0
  BY <1>2, <1>4
<1>5. CASE n # 0
  <2>1. n \in 1 .. CapacityOf
    BY <1>2, <1>3, <1>5
  <2>2. Stream!Consume(n)
    BY <1>2, <1>5 DEF Stream!Consume
  <2> QED
    BY <2>1, <2>2 DEF Stream!Next
<1> QED
  BY <1>4, <1>5

\* Every step of the queue is a step of the stream or leaves it alone.
LEMMA StreamStep ==
    ASSUME IInv, [Next]_vars
    PROVE  [Stream!Next]_(Stream!vars)
<1> SUFFICES Stream!Next \/ UNCHANGED <<stream, out>>
  BY DEF Stream!vars
<1>1. ASSUME NEW e \in Elements, AddElement(e) PROVE UNCHANGED <<stream, out>>
  BY <1>1 DEF AddElement, readerVars
<1>2. ASSUME NEW range \in Ranges, AddRange(range) PROVE UNCHANGED <<stream, out>>
  BY <1>2 DEF AddRange, readerVars
<1>3. CASE WriterStep
  <2>1. CASE PublishEnd
    BY <2>1, PublishWrites
  <2>2. CASE CopyData \/ NotifyTest \/ NotifyExchange
    BY <2>2 DEF CopyData, NotifyTest, NotifyExchange, readerVars
  <2> QED
    BY <1>3, <2>1, <2>2 DEF WriterStep
<1>4. CASE ReaderStep
  <2>1. CASE AdvanceBegin \/ Commit \/ ConsumeRest
    BY <2>1, GiveBackConsumes
  <2>2. ASSUME NEW max \in 1 .. CapacityOf, Extract(max) PROVE UNCHANGED <<stream, out>>
    BY <2>2 DEF Extract
  <2>3. CASE DataAvailable \/ CallbackDone \/ GetElement \/ ConstructReader \/ DestroyReader
    BY <2>3 DEF DataAvailable, CallbackDone, GetElement, ConstructReader, DestroyReader
  <2> QED
    BY <1>4, <2>1, <2>2, <2>3 DEF ReaderStep, ExtractSome
<1>5. ASSUME NEW marker \in 0 .. CapacityOf, Rewind(marker) PROVE UNCHANGED <<stream, out>>
  BY <1>5 DEF Rewind
<1>6. CASE UNCHANGED vars
  BY <1>6 DEF vars
<1> QED
  BY <1>1, <1>2, <1>3, <1>4, <1>5, <1>6 DEF Next

\* The queue implements the stream: the reader is handed the elements that were accepted,
\* in order, none twice and none skipped. (That it is woken up for them is left to TLC.)
THEOREM HandsOverInOrder == Spec => Stream!Safety
<1>1. Init => Stream!Init
  BY DEF Init, Stream!Init
<1>2. IInv /\ [Next]_vars => [Stream!Next]_(Stream!vars)
  BY StreamStep
<1> QED
  BY <1>1, <1>2, Invariant, PTL DEF Spec, Stream!Safety
====
