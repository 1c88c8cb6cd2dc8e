---- MODULE EchoReceiving ----
(***************************************************************************)
(* The receiving side of protobuf/echo/EchoOnStreams.cpp, on Sesame:       *)
(* messages arrive cut into packets, are deserialized and executed one     *)
(* after the other. Releasing the reader of a packet makes Sesame deliver  *)
(* the next one at once, and a service may be done with a method before    *)
(* ExecuteMethod returns, so all of these functions call each other.       *)
(*                                                                         *)
(* A packet is a sequence of units. A message is a header of two units     *)
(* (service id, and method id with length), and its contents. A message's  *)
(* kind is what its service does: "now" and "later" are methods that are   *)
(* done inside ExecuteMethod or later, "unknown" is handled by             *)
(* MethodDeserializerDummy, and "forward" by a ServiceForwarder, which     *)
(* keeps the reader until it can write to the other side.                  *)
(***************************************************************************)
EXTENDS Integers, Sequences, FiniteSets, TLC

CONSTANTS None,
          Kinds,          \* the kinds of messages that are sent
          NumMessages, MaxContents, MaxPacket,  \* bounds: messages, units of contents, units in a packet
          MaxRestarts,    \* bound: how often the peer starts again
          SplitHeaders,   \* whether a packet may end in the middle of a header
          ServicesReset   \* whether services abandon their methods when the connection is initialized again

Assumptions ==
    /\ Kinds \subseteq {"now", "later", "unknown", "forward"}
    /\ NumMessages \in Nat /\ MaxContents \in Nat /\ MaxPacket \in Nat /\ MaxRestarts \in Nat
    /\ SplitHeaders \in BOOLEAN /\ ServicesReset \in BOOLEAN

VARIABLES
    echo,      \* the state of EchoOnStreams, see Fresh
    todo,      \* units that the peer has yet to send
    restarts

vars == <<echo, todo, restarts>>

HeaderSize == 2

\* The messages, and the units of each
Message == [id : 1 .. NumMessages, kind : Kinds, size : 0 .. MaxContents]
Units(m) == [i \in 1 .. HeaderSize + m.size |-> [message |-> m, at |-> i]]

RECURSIVE Concat(_)
Concat(ss) == IF ss = <<>> THEN <<>> ELSE Head(ss) \o Concat(Tail(ss))

Fresh == [reader |-> None,     \* what is left in readerPtr
          buffer |-> <<>>,     \* receiveBuffer: the start of a header
          left |-> None,       \* limitedReader: what it may still read
          method |-> None,     \* methodDeserializer: the message it is for
          kept |-> FALSE,      \* limitedReaderAccess.Referenced()
          action |-> FALSE,    \* limitedReaderAccess has an action that goes on with the next message
          delay |-> FALSE, delayed |-> FALSE,   \* delayDataReceived, delayedDataReceived
          packets |-> <<>>,    \* packets in Sesame, behind the one in readerPtr
          busy |-> {},         \* methods that were executed and are not done
          executed |-> <<>>,   \* history: messages whose method was executed or forwarded
          garbled |-> FALSE,   \* history: a header or contents was made up from several messages
          failed |-> FALSE]    \* an assertion failed

----------------------------------------------------------------------------
(* The reader *)

Available(s) == s.buffer \o (IF s.reader = None THEN <<>> ELSE s.reader)

\* n units are read
Extract(s, n) ==
    LET inBuffer == IF n < Len(s.buffer) THEN n ELSE Len(s.buffer)
    IN  [s EXCEPT !.buffer = SubSeq(@, inBuffer + 1, Len(@)), !.reader = SubSeq(@, n - inBuffer + 1, Len(@))]

RECURSIVE DataReceivedInReader(_), ReceiveLoop(_), LimitedReaderDone(_), ContinueReceiveMessage(_), DataReceived(_, _), ServiceDone(_)

DataReceived(s, packet) ==
    IF s.reader # None THEN [s EXCEPT !.failed = TRUE]
    ELSE IF s.delay THEN [s EXCEPT !.reader = packet, !.delayed = TRUE]
    ELSE DataReceivedInReader([s EXCEPT !.reader = packet])

\* readerPtr = nullptr: what was not read is stored in receiveBuffer, and Sesame delivers its next packet
Release(s) ==
    LET free == [s EXCEPT !.buffer = Available(s), !.reader = None]
    IN  IF s.packets = <<>> THEN free ELSE DataReceived([free EXCEPT !.packets = Tail(@)], Head(s.packets))

\* ReleaseReader: what was not read is dropped
ReleaseReader(s) == IF s.reader = None THEN [s EXCEPT !.action = FALSE]
                                       ELSE Release([s EXCEPT !.reader = <<>>, !.action = FALSE])

----------------------------------------------------------------------------
(* Messages *)

\* A variant with a mistake: a header that is not complete is dropped
StartDropping(s) ==
    LET available == Available(s)
        header == available[HeaderSize]
    IN  IF Len(available) < HeaderSize THEN Release([s EXCEPT !.reader = <<>>, !.buffer = <<>>])
        ELSE [Extract(s, HeaderSize) EXCEPT !.left = header.message.size, !.method = header.message]

\* StartReceiveMessage and StartMethod. A header that is not complete is stored.
StartReceiveMessage(s) ==
    LET available == Available(s)
        header == available[HeaderSize]
    IN  IF Len(available) < HeaderSize THEN Release(s)
        ELSE [Extract(s, HeaderSize) EXCEPT
                !.left = header.message.size, !.method = header.message,
                !.garbled = @ \/ \E i \in 1 .. HeaderSize : available[i].at # i \/ available[i].message # header.message]

\* The deserializer reads what there is of the contents
ReadContents(s) ==
    LET n == IF s.left < Len(Available(s)) THEN s.left ELSE Len(Available(s))
        contents == SubSeq(Available(s), 1, n)
    IN  [Extract(s, n) EXCEPT !.left = @ - n,
            !.garbled = @ \/ \E i \in 1 .. n : contents[i].message # s.method]

\* ContinueReceiveMessage and MethodContents
ContinueReceiveMessage(s) ==
    IF s.method = None THEN [s EXCEPT !.failed = TRUE]
    ELSE IF s.method.kind = "forward" THEN [s EXCEPT !.kept = TRUE, !.action = TRUE]
    ELSE LimitedReaderDone([ReadContents(s) EXCEPT !.action = FALSE])

\* ExecuteMethod of the deserializers
ExecuteMethod(s) ==
    LET t == [s EXCEPT !.executed = Append(@, s.method.id)]
    IN  IF s.method.kind = "later" THEN [t EXCEPT !.busy = @ \cup {s.method.id}] ELSE ServiceDone(t)

\* LimitedReaderDone: the packet that Sesame delivers when the reader is released waits for its turn
LimitedReaderDone(s) ==
    LET delaying == [s EXCEPT !.delay = TRUE]
        released == IF Available(s) = <<>> THEN ReleaseReader(delaying) ELSE delaying
        executed == IF released.left = 0 THEN ExecuteMethod([released EXCEPT !.left = None]) ELSE released
        done == [executed EXCEPT !.delay = FALSE, !.delayed = FALSE]
    IN  IF executed.failed \/ ~executed.delayed THEN done ELSE DataReceivedInReader(done)

\* The loop of DataReceivedInReader
ReceiveLoop(s) ==
    IF s.failed \/ s.reader = None \/ s.method # None \/ s.kept THEN s
    ELSE LET started == IF s.left = None THEN StartReceiveMessage(s) ELSE s
         IN  ReceiveLoop(IF started.left # None /\ started.reader # None THEN ContinueReceiveMessage(started) ELSE started)

DataReceivedInReader(s) ==
    LET received == ReceiveLoop(IF s.left # None /\ s.reader # None THEN ContinueReceiveMessage(s) ELSE s)
    IN  IF ~received.failed /\ received.reader = <<>> /\ ~received.kept THEN Release(received) ELSE received

\* ServiceDone, called by Service::MethodDone
ServiceDone(s) ==
    LET released == [s EXCEPT !.method = None]
    IN  IF s.reader # None THEN DataReceivedInReader(released) ELSE released

----------------------------------------------------------------------------
Init ==
    /\ \E kinds \in [1 .. NumMessages -> Kinds], sizes \in [1 .. NumMessages -> 0 .. MaxContents] :
         todo = Concat([i \in 1 .. NumMessages |-> Units([id |-> i, kind |-> kinds[i], size |-> sizes[i]])])
    /\ echo = Fresh
    /\ restarts = 0

\* A packet arrives; Sesame holds it back until the reader of the packet before it is released
Receive(n) ==
    LET packet == SubSeq(todo, 1, n)
    IN  /\ n <= Len(todo) /\ ~echo.failed
        /\ SplitHeaders \/ todo[n].at >= HeaderSize
        /\ todo' = SubSeq(todo, n + 1, Len(todo))
        /\ echo' = IF echo.reader # None THEN [echo EXCEPT !.packets = Append(@, packet)] ELSE DataReceived(echo, packet)
        /\ UNCHANGED restarts

\* A service that was executing a method calls MethodDone
MethodDone(id) ==
    /\ id \in echo.busy /\ ~echo.failed
    /\ echo' = ServiceDone([echo EXCEPT !.busy = @ \ {id}])
    /\ UNCHANGED <<todo, restarts>>

\* ServiceForwarder: everything in the reader is transferred, and the reader is released
Transfer ==
    /\ echo.kept /\ ~echo.failed
    /\ echo' = LET released == [ReadContents(echo) EXCEPT !.kept = FALSE]
               IN  IF echo.action THEN DataReceivedInReader(LimitedReaderDone(released)) ELSE released
    /\ UNCHANGED <<todo, restarts>>

\* EchoOnStreams::Initialized, EchoOnSesame::ResetReading, and SesameWindowed::ResetReading, which
\* drops the packets in Sesame once the reader is released
Initialized(s) == [ReleaseReader([s EXCEPT !.packets = <<>>]) EXCEPT !.left = None, !.method = None]

\* The peer starts again, with the messages that it did not begin to send. Services may observe
\* EchoInitializationObserver to abandon what they were doing.
Restart ==
    /\ restarts < MaxRestarts /\ ~echo.failed
    /\ restarts' = restarts + 1
    /\ todo' = SelectSeq(todo, LAMBDA unit : todo[1].at = 1 \/ unit.message # todo[1].message)
    /\ echo' = Initialized([echo EXCEPT !.busy = IF ServicesReset THEN {} ELSE @])

Next ==
    \/ \E n \in 1 .. MaxPacket : Receive(n)
    \/ \E id \in 1 .. NumMessages : MethodDone(id)
    \/ Transfer
    \/ Restart

Spec == Init /\ [][Next]_vars

----------------------------------------------------------------------------
(* Properties *)

TypeOK ==
    /\ DOMAIN echo = DOMAIN Fresh
    /\ echo.left \in (0 .. MaxContents) \cup {None} /\ echo.method \in Message \cup {None}
    /\ \A f \in {"kept", "action", "delay", "delayed", "garbled", "failed"} : echo[f] \in BOOLEAN
    /\ restarts \in 0 .. MaxRestarts

\* No assertion of the receiving side fails: a packet only arrives when the one before it is released
\* (really_assert in DataReceived), and contents only while there is a deserializer for them.
NeverFails == ~echo.failed

\* What is read as a header is the header of one message, and its deserializer gets its contents only
MessagesIntact == ~echo.garbled

\* Methods are executed in the order in which they were sent, each at most once, and one at a time
ExecutedInOrder ==
    /\ \A i, j \in 1 .. Len(echo.executed) : i < j => echo.executed[i] < echo.executed[j]
    /\ Cardinality(echo.busy) <= 1

\* Between two callbacks, receiveBuffer holds less than a header, so that its 32 bytes suffice, and
\* a packet is only held while a method is busy with it: flow control never stops for nothing.
NothingHeldBack ==
    /\ Len(echo.buffer) < HeaderSize
    /\ echo.reader # None => echo.method # None
    /\ ~echo.delay /\ ~echo.delayed
    /\ echo.packets # <<>> => echo.reader # None

\* The reader that a ServiceForwarder keeps is the limitedReader of the current message
KeptReaderExists == echo.kept => echo.left # None

\* When there is nothing left to do, every message was executed or forwarded. Each step sends, finishes
\* or transfers something, so this is what happens in the end unless the peer starts again.
AllExecuted ==
    restarts = 0 /\ todo = <<>> /\ echo.busy = {} /\ ~echo.kept => Len(echo.executed) = NumMessages
====
