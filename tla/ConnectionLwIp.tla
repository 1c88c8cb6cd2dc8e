--------------------------- MODULE ConnectionLwIp ---------------------------
(***************************************************************************)
(* ConnectionLwIp of lwip/lwip_cpp/ConnectionLwIp.cpp: what connections    *)
(* that share one pool of send buffers do to send, to close, and to be     *)
(* destroyed.                                                              *)
(*                                                                         *)
(* The state is one record, net, because one call of the code changes      *)
(* several connections: releasing a buffer of the pool gives it to the     *)
(* first connection that waits for one.  The operators on it return the    *)
(* record after the call.  A call that fails an assertion, uses a pcb that *)
(* is gone, or uses an observer that is gone, sets net.crash.              *)
(***************************************************************************)
EXTENDS Integers, Sequences, SequencesExt, FiniteSets, FiniteSetsExt

CONSTANTS
    Connections,    \* the connections, all of which share the pool
    PoolSize,       \* the number of buffers in the pool (tcpSndQueueLen)
    MaxStreams,     \* bound: send streams that a connection requests
    MaxWrite,       \* bound: bytes that are written to a send stream
    Conduct         \* what the observers and the peers may do, see below

ConnectionsAssumption == IsFiniteSet(Connections)
BoundsAssumption == {PoolSize, MaxStreams, MaxWrite} \subseteq Nat \ {0}

(***************************************************************************)
(* "die":    a connection may be lost while it waits for a buffer of the   *)
(*           pool and has data that has not been acknowledged              *)
(* "reader": a reader of received data may be kept when the observer is    *)
(*           detached                                                      *)
(* "writer": the observer may hold a stream in which it has written when   *)
(*           it closes the connection, and release it in Detaching         *)
(* "nested": the observer may close the connection in SendStreamAvailable  *)
(***************************************************************************)
ConductAssumption == Conduct \subseteq {"die", "reader", "writer", "nested"}

Assumptions == ConnectionsAssumption /\ BoundsAssumption /\ ConductAssumption

VARIABLE net

Connection ==
    [alive: BOOLEAN,                \* the object exists
     self: BOOLEAN,                 \* self
     reader: BOOLEAN,               \* keepAliveForReader
     control: BOOLEAN,              \* control is not null
     attached: BOOLEAN,             \* IsAttached()
     closing: BOOLEAN,
     requested: BOOLEAN,            \* requestedSendSize is not 0
     stream: {"none", "allocated",  \* sendBufferForStream
              "open"},              \* the observer has the writer
     sendBuffer: 0 .. MaxWrite,     \* not 0: retrySendTimer is running
     sendBuffers: Seq(1 .. MaxWrite),
     streams: 0 .. MaxStreams,      \* streams that have been requested
     written: 0 .. MaxStreams,      \* streams with data that were released
     sent: 0 .. MaxStreams,         \* of which tcp_write accepted the data
     ended: {"", "closed", "lost"}] \* how control came to be null

(***************************************************************************)
(* The connection is to be established still: alive, but nothing uses it.  *)
(***************************************************************************)
Unconnected ==
    [alive |-> FALSE, self |-> FALSE, reader |-> FALSE, control |-> FALSE,
     attached |-> FALSE, closing |-> FALSE, requested |-> FALSE,
     stream |-> "none", sendBuffer |-> 0, sendBuffers |-> <<>>,
     streams |-> 0, written |-> 0, sent |-> 0, ended |-> ""]

Init ==
    net = [pool |-> 0, waiting |-> <<>>, crash |-> "",
           conn |-> [c \in Connections |-> Unconnected]]

Set(n, c, r) == [n EXCEPT !.conn[c] = r]

Crash(n, why) == [n EXCEPT !.crash = why]

(***************************************************************************)
(* The number of bytes in the first i buffers, for every i.                *)
(***************************************************************************)
Sums(buffers) ==
    LET sum[i \in 0 .. Len(buffers)] ==
            IF i = 0 THEN 0 ELSE sum[i - 1] + buffers[i]
    IN  sum

PendingSend(k) ==
    k.sendBuffers # <<>> \/ k.stream = "allocated" \/ k.sendBuffer # 0

-----------------------------------------------------------------------------
(***************************************************************************)
(* The pool of send buffers                                                *)
(***************************************************************************)

MayAllocate(n, k) ==
    /\ Len(k.sendBuffers) < PoolSize
    /\ n.pool < PoolSize
    /\ k.sendBuffer = 0

(***************************************************************************)
(* Scheduling the stream takes a shared pointer to the connection, which   *)
(* asserts that the connection is not being destructed.                    *)
(***************************************************************************)
TryAllocateSendStream(n, c) ==
    LET k == n.conn[c] IN
    IF MayAllocate(n, k)
    THEN IF k.alive
         THEN [n EXCEPT !.waiting = SelectSeq(@, LAMBDA d: d # c),
                        !.pool = @ + 1,
                        !.conn[c].stream = "allocated",
                        !.conn[c].requested = FALSE]
         ELSE Crash(n, "SharedFromThis in the destructor")
    ELSE IF n.pool = PoolSize /\ c \notin ToSet(n.waiting)
         THEN [n EXCEPT !.waiting = Append(@, c)]
         ELSE n

RemoveFromPool(n) ==
    LET m == [n EXCEPT !.pool = @ - 1] IN
    IF m.waiting = <<>> THEN m ELSE TryAllocateSendStream(m, Head(m.waiting))

-----------------------------------------------------------------------------
(***************************************************************************)
(* Sending, closing and destroying                                         *)
(***************************************************************************)

(***************************************************************************)
(* When the connection is closing and has an observer still, it is within  *)
(* the Detach of CloseAndDestroy: the CloseAndDestroy here detaches the    *)
(* observer a second time, which leaves none for the first to finish with. *)
(* Otherwise it does nothing, for there is data to be sent.                *)
(***************************************************************************)
SendBuffer(n, c, size, ok) ==
    IF ~n.conn[c].control THEN Crash(n, "tcp_write without a pcb")
    ELSE IF ok
         THEN LET m == [n EXCEPT !.conn[c].sendBuffers = Append(@, size),
                                 !.conn[c].sendBuffer = 0,
                                 !.conn[c].sent = @ + 1] IN
              IF n.conn[c].closing /\ n.conn[c].attached
              THEN Crash(m, "detached twice") ELSE m
         ELSE [n EXCEPT !.conn[c].sendBuffer = size]

(***************************************************************************)
(* ~StreamWriterLwIp, after size bytes have been written.                  *)
(***************************************************************************)
ReleaseWriter(n, c, size, ok) ==
    LET m == [n EXCEPT !.conn[c].stream = "none"] IN
    IF size # 0 /\ m.conn[c].control
    THEN SendBuffer([m EXCEPT !.conn[c].written = @ + 1], c, size, ok)
    ELSE RemoveFromPool(m)

(***************************************************************************)
(* The observer releases its writer in Detaching, at the latest.           *)
(***************************************************************************)
Detach(n, c, size, ok) ==
    LET m == IF n.conn[c].stream = "open"
             THEN ReleaseWriter(n, c, size, ok) ELSE n
    IN  [m EXCEPT !.conn[c].attached = FALSE]

ResetOwnership(n, c, size, ok) ==
    LET m == IF n.conn[c].attached THEN Detach(n, c, size, ok) ELSE n
    IN  [m EXCEPT !.conn[c].self = FALSE]

CloseAndDestroy(n, c, size, ok) ==
    LET m == [n EXCEPT !.conn[c].closing = TRUE]
        d == IF m.conn[c].attached THEN Detach(m, c, size, ok) ELSE m
    IN  IF PendingSend(d.conn[c]) THEN d
        ELSE IF ~d.conn[c].control THEN Crash(d, "tcp_close without a pcb")
        ELSE ResetOwnership([d EXCEPT !.conn[c].control = FALSE,
                                      !.conn[c].ended = "closed"], c, 0, ok)

AbortAndDestroy(n, c, size, ok) ==
    IF n.conn[c].control
    THEN ResetOwnership([n EXCEPT !.conn[c].control = FALSE,
                                  !.conn[c].ended = "lost"], c, size, ok)
    ELSE n

(***************************************************************************)
(* Err(ERR_RST) and Err(ERR_CLSD); Destroy: the pcb is gone.               *)
(***************************************************************************)
Err(n, c, size, ok) ==
    ResetOwnership([n EXCEPT !.conn[c].control = FALSE,
                             !.conn[c].ended = "lost"], c, size, ok)

(***************************************************************************)
(* Buffers are given back one by one, and are forgotten after that.        *)
(***************************************************************************)
RemoveSendBuffers(n, c, count) ==
    LET after[i \in 0 .. count] ==
            IF i = 0 THEN n
            ELSE [RemoveFromPool(after[i - 1]) EXCEPT
                    !.conn[c].sendBuffers = Tail(@)]
    IN  after[count]

\* A variant with a mistake: the data to be retried is forgotten.
RemoveRetriedNever(n, c) == n

RemoveRetried(n, c) ==
    IF n.conn[c].sendBuffer # 0 THEN RemoveFromPool(n) ELSE n

(***************************************************************************)
(* ~ConnectionLwIp                                                         *)
(***************************************************************************)
Destruct(n, c) ==
    LET a == RemoveSendBuffers([n EXCEPT !.conn[c].alive = FALSE], c,
                               Len(n.conn[c].sendBuffers))
        b == IF a.conn[c].stream = "allocated" THEN RemoveFromPool(a) ELSE a
        d == RemoveRetried(b, c)
    IN  [d EXCEPT !.waiting = SelectSeq(@, LAMBDA e: e # c),
                  !.conn[c].sendBuffer = 0, !.conn[c].stream = "none",
                  !.conn[c].requested = FALSE, !.conn[c].control = FALSE,
                  !.conn[c].ended = IF @ = "" THEN "lost" ELSE @]

(***************************************************************************)
(* The connection is destroyed at the end of the step in which the last    *)
(* shared pointer to it is released.                                       *)
(***************************************************************************)
Become(n, c) ==
    \E m \in {n}: LET k == m.conn[c] IN
    net' = IF k.alive /\ ~k.self /\ ~k.reader THEN Destruct(m, c) ELSE m

-----------------------------------------------------------------------------
Running(c) == net.crash = "" /\ net.conn[c].alive

(***************************************************************************)
(* The observer may have written in the stream that it releases in         *)
(* Detaching.                                                              *)
(***************************************************************************)
Held(c) ==
    IF net.conn[c].stream = "open" /\ "writer" \in Conduct
    THEN 0 .. MaxWrite ELSE {0}

MayBeLost(c) ==
    \/ "die" \in Conduct
    \/ c \notin ToSet(net.waiting)
    \/ ~PendingSend(net.conn[c])

(***************************************************************************)
(* The factory: a connection is established, and given to an observer.     *)
(***************************************************************************)
Establish(c) ==
    /\ net.crash = ""
    /\ net.conn[c] = Unconnected
    /\ net' = Set(net, c, [Unconnected EXCEPT
                !.alive = TRUE, !.self = TRUE, !.control = TRUE,
                !.attached = TRUE])

RequestSendStream(c) ==
    LET k == net.conn[c] IN
    /\ Running(c)
    /\ k.attached /\ ~k.requested /\ k.stream = "none"
    /\ k.streams < MaxStreams
    /\ net' = IF k.control
              THEN TryAllocateSendStream(
                    [net EXCEPT !.conn[c].requested = TRUE,
                                !.conn[c].streams = @ + 1], c)
              ELSE Crash(net, "RequestSendStream without a pcb")

(***************************************************************************)
(* What TryAllocateSendStream has scheduled.  Without an observer the      *)
(* stream is released at the end.                                          *)
(***************************************************************************)
SendStreamAvailable(c) ==
    LET k == net.conn[c]
        n == [net EXCEPT !.conn[c].stream = "open"]
        Closed(m) == IF m.conn[c].closing /\ m.crash = ""
                     THEN CloseAndDestroy(m, c, 0, TRUE) ELSE m
    IN  /\ Running(c)
        /\ k.stream = "allocated"
        /\ \/ k.attached /\ net' = n
           \/ k.attached /\ "nested" \in Conduct
              /\ Become(Closed(CloseAndDestroy(n, c, 0, TRUE)), c)
           \/ ~k.attached
              /\ LET m == Closed(n) IN
                 Become(IF m.crash = "" THEN ReleaseWriter(m, c, 0, TRUE) ELSE m, c)

(***************************************************************************)
(* The observer has written in its stream, and releases it.                *)
(***************************************************************************)
Write(c) ==
    /\ Running(c)
    /\ net.conn[c].stream = "open"
    /\ \E size \in 0 .. MaxWrite, ok \in BOOLEAN:
        Become(ReleaseWriter(net, c, size, ok), c)

RetrySend(c, ok) ==
    /\ Running(c)
    /\ net.conn[c].sendBuffer # 0
    /\ Become(SendBuffer(net, c, net.conn[c].sendBuffer, ok), c)

(***************************************************************************)
(* The bytes of the peer's acknowledgement are taken from the buffers, and *)
(* the ones that are acknowledged completely are given back.               *)
(***************************************************************************)
Acknowledge(n, c, len) ==
    LET sum == Sums(n.conn[c].sendBuffers)
        done == Max({i \in DOMAIN sum: sum[i] <= len})
        rest == len - sum[done]
        m == RemoveSendBuffers(n, c, done)
    IN  IF rest = 0 THEN m ELSE [m EXCEPT !.conn[c].sendBuffers[1] = @ - rest]

CloseIfClosing(n, c) ==
    IF n.conn[c].closing THEN CloseAndDestroy(n, c, 0, TRUE) ELSE n

Sent(c) ==
    LET k == net.conn[c] IN
    /\ Running(c)
    /\ k.control
    /\ \E len \in 1 .. Sums(k.sendBuffers)[Len(k.sendBuffers)]:
        LET m == Acknowledge(net, c, len)
            t == IF m.conn[c].requested THEN TryAllocateSendStream(m, c) ELSE m
        IN  Become(CloseIfClosing(t, c), c)

Close(c) ==
    /\ Running(c)
    /\ net.conn[c].attached
    /\ \E size \in Held(c), ok \in BOOLEAN:
        Become(CloseAndDestroy(net, c, size, ok), c)

Abort(c) ==
    /\ Running(c)
    /\ net.conn[c].attached
    /\ MayBeLost(c)
    /\ \E size \in Held(c): Become(AbortAndDestroy(net, c, size, TRUE), c)

(***************************************************************************)
(* The peer has closed its side: Recv without data.  The pcb is there, so  *)
(* that what the observer releases is written.                             *)
(***************************************************************************)
RecvClose(c) ==
    /\ Running(c)
    /\ net.conn[c].control
    /\ MayBeLost(c)
    /\ \E size \in Held(c), ok \in BOOLEAN:
        Become(ResetOwnership(net, c, size, ok), c)

Lost(c) ==
    /\ Running(c)
    /\ net.conn[c].control
    /\ MayBeLost(c)
    /\ \E size \in Held(c): Become(Err(net, c, size, TRUE), c)

(***************************************************************************)
(* A reader is kept by someone to whom the observer gave it.               *)
(***************************************************************************)
ReceiveStream(c) ==
    /\ Running(c)
    /\ "reader" \in Conduct
    /\ net.conn[c].attached /\ ~net.conn[c].reader
    /\ net' = [net EXCEPT !.conn[c].reader = TRUE]

ReleaseReader(c) ==
    /\ Running(c)
    /\ net.conn[c].reader
    /\ Become([net EXCEPT !.conn[c].reader = FALSE], c)

Next ==
    \E c \in Connections:
        \/ Establish(c) \/ RequestSendStream(c) \/ SendStreamAvailable(c)
        \/ Write(c) \/ \E ok \in BOOLEAN: RetrySend(c, ok)
        \/ Sent(c) \/ Close(c) \/ Abort(c) \/ RecvClose(c) \/ Lost(c)
        \/ ReceiveStream(c) \/ ReleaseReader(c)

(***************************************************************************)
(* The event dispatcher runs what is scheduled, the observer releases its  *)
(* stream, the timer retries and tcp_write accepts the data some day, and  *)
(* the peer acknowledges what it receives.                                 *)
(***************************************************************************)
Fairness ==
    \A c \in Connections:
        /\ WF_net(SendStreamAvailable(c)) /\ WF_net(Write(c))
        /\ WF_net(RetrySend(c, TRUE)) /\ WF_net(Sent(c))

Spec == Init /\ [][Next]_net /\ Fairness

-----------------------------------------------------------------------------
TypeOK ==
    /\ net.pool \in 0 .. PoolSize
    /\ net.conn \in [Connections -> Connection]
    /\ ToSet(net.waiting) \subseteq Connections
    /\ net.crash \in STRING

(***************************************************************************)
(* Every buffer that is taken from the pool is held by one connection that *)
(* exists, as data that is not acknowledged, as data to be retried, or as  *)
(* a stream: none is lost, and none is given back twice, whatever the      *)
(* order in which connections send, wait and are destroyed.                *)
(***************************************************************************)
PoolConserved ==
    net.crash = "" =>
        net.pool = MapThenSumSet(
            LAMBDA c: LET k == net.conn[c] IN
                IF k.alive
                THEN Len(k.sendBuffers) + (IF k.sendBuffer # 0 THEN 1 ELSE 0)
                     + (IF k.stream # "none" THEN 1 ELSE 0)
                ELSE 0,
            Connections)

(***************************************************************************)
(* What is written in a stream is given to tcp_write, once, and before     *)
(* what is written in the next: only the last may have to be retried.      *)
(***************************************************************************)
WrittenInOrder ==
    \A c \in Connections: LET k == net.conn[c] IN
        k.alive /\ net.crash = "" => k.written = k.sent + (IF k.sendBuffer # 0 THEN 1 ELSE 0)

(***************************************************************************)
(* CloseAndDestroy closes the connection only when everything that was     *)
(* written has been given to tcp_write, and has been acknowledged.         *)
(***************************************************************************)
ClosedAfterSending ==
    \A c \in Connections: LET k == net.conn[c] IN
        k.ended = "closed" => k.written = k.sent /\ k.sendBuffers = <<>>

(***************************************************************************)
(* No assertion fails, a pcb is not used when it is gone, and an observer  *)
(* is detached once.                                                       *)
(***************************************************************************)
NeverCrashes == net.crash = ""

(***************************************************************************)
(* Whoever requests a send stream gets one, also when the pool was in use, *)
(* unless its connection ends first.                                       *)
(***************************************************************************)
RequestsServed ==
    \A c \in Connections:
        net.conn[c].requested ~> ~net.conn[c].requested \/ net.crash # ""

(***************************************************************************)
(* A connection that is closed while data is being sent is destroyed when  *)
(* that is done.                                                           *)
(***************************************************************************)
ClosingEnds ==
    \A c \in Connections:
        net.conn[c].closing ~> ~net.conn[c].alive
=============================================================================
