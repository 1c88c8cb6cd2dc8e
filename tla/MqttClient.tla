------------------------------ MODULE MqttClient ------------------------------
(****************************************************************************)
(* services/network/MqttClientImpl.cpp: an MQTT client on a connection.  It *)
(* connects (StateConnecting), and then (StateConnected) sends operations   *)
(* one after the other from a small queue, gives notifications to its       *)
(* observer, acknowledges them, and keeps the connection alive.  A broker   *)
(* that behaves answers everything it gets, in order, unless it falls       *)
(* silent.  What the broker sends is a stream of units that the network     *)
(* cuts anywhere; what the client sends is a sequence of packets.           *)
(*                                                                          *)
(* Timers have no durations.  The ping interval (35 s) is longer than the   *)
(* operation timeout (30 s) and starts no earlier, so that it does not end  *)
(* during an operation, nor does a send stream take that long; timeouts do  *)
(* not end while the broker answers.  An iteration of HandleDataReceived is *)
(* one step, and while it loops nothing else happens.                       *)
(****************************************************************************)
EXTENDS Integers, Sequences, FiniteSets, SequencesExt

CONSTANTS
    MaxConnects, MaxOperations, MaxNotifications,   \* how often each may happen
    MaxPayload,         \* of a notification
    MaxInFlight,        \* notifications that the broker sends before the first is acknowledged
    QueueSize,          \* of sendOperations
    Conduct             \* what the environment does: a subset of AllConduct

AllConduct == {"silent",    \* the broker stops answering
               "split",     \* a packet may end within the topic of a notification
               "cancel",    \* CancelConnect may be called when the broker has not yet accepted
               "quit"}      \* the observer may call Disconnect in PublishDone or SubscribeDone

Assumptions ==
    /\ {MaxConnects, MaxOperations, MaxNotifications, MaxPayload, MaxInFlight, QueueSize} \subseteq Nat
    /\ Conduct \subseteq AllConduct

VARIABLES
    state,          \* "none", "resolving" (the connector waits for a connection), "connecting", "connected"
    signaledFailure, told, cancelled,   \* what the factory has been told of this attempt
    sendOperations, executingSend,
    asked, nested,  \* a send stream is requested, and was so while another was in use
    executingNotification, notificationPayloadSize, notificationWriter, receivedPacketIdentifier,
    operationTimer, pingTimer, waitingForPingReply,
    loop, notify, crashed,
    buffer, coming, wire,   \* received, on its way to the client, and on its way to the broker
    alive, unacked,         \* the broker, and the notifications it wants acknowledged
    connects, operations, notifications     \* how many there have been

factory == <<signaledFailure, told, cancelled>>
queue == <<sendOperations, executingSend, asked, nested>>
notification == <<executingNotification, notificationPayloadSize, notificationWriter, receivedPacketIdentifier>>
timers == <<operationTimer, pingTimer, waitingForPingReply>>
stream == <<buffer, coming, wire>>
counts == <<connects, operations, notifications>>
vars == <<state, factory, queue, notification, timers, loop, notify, crashed, stream, alive,
          unacked, counts>>

Idle == ~ loop /\ ~ crashed

Drop(s, n) == SubSeq(s, n + 1, Len(s))

Unit(t, n) == [t |-> t, n |-> n]
Packet(t) == <<Unit("part", 0), Unit(t, 0)>>
Publication(id, size) == <<Unit("head", size), Unit("topic", id)>> \o [i \in 1 .. size |-> Unit("data", id)]

(****************************************************************************)
(* The connector, and the end of a connection.                              *)
(****************************************************************************)
\* The connection is gone, and with it the client.
Gone ==
    /\ state' = "none"
    /\ sendOperations' = <<>> /\ executingSend' = FALSE /\ asked' = FALSE
    /\ executingNotification' = FALSE /\ notificationPayloadSize' = 0
    /\ notificationWriter' = FALSE /\ receivedPacketIdentifier' = 0
    /\ operationTimer' = FALSE /\ pingTimer' = "off" /\ waitingForPingReply' = FALSE
    /\ loop' = FALSE /\ notify' = FALSE
    /\ buffer' = <<>> /\ coming' = <<>> /\ wire' = <<>> /\ unacked' = {}

Connect ==
    /\ Idle /\ state = "none" /\ connects < MaxConnects
    /\ state' = "resolving"
    /\ connects' = connects + 1
    /\ signaledFailure' = FALSE /\ told' = <<>> /\ cancelled' = FALSE /\ alive' = TRUE
    /\ UNCHANGED <<queue, notification, timers, loop, notify, crashed, stream, unacked, operations,
                   notifications>>

ConnectionEstablished ==
    /\ Idle /\ state = "resolving" /\ ~ cancelled
    /\ state' = "connecting"
    /\ asked' = TRUE
    /\ UNCHANGED <<factory, sendOperations, executingSend, nested, notification, timers, loop, notify,
                   crashed, stream, alive, unacked, counts>>

ConnectionFailed ==
    /\ Idle /\ state = "resolving" /\ ~ cancelled
    /\ state' = "none"
    /\ told' = Append(told, "failed")
    /\ UNCHANGED <<signaledFailure, cancelled, queue, notification, timers, loop, notify, crashed,
                   stream, alive, unacked, counts>>

CancelConnect ==
    /\ Idle /\ ~ cancelled
    /\ cancelled' = TRUE
    /\ \/ state = "resolving" /\ state' = "none" /\ UNCHANGED signaledFailure
       \/ /\ state = "connecting" /\ "cancel" \in Conduct
          /\ signaledFailure' = TRUE /\ UNCHANGED state
    /\ UNCHANGED <<told, queue, notification, timers, loop, notify, crashed, stream, alive, unacked,
                   counts>>

\* Detaching of StateConnecting, when the connection is lost or aborted: what the factory has
\* been told when it had been told before.
TellFailed(before, signaled) == IF signaled THEN before ELSE Append(before, "failed")

\* The broker or the network closes the connection, or the observer disconnects.
Closed ==
    /\ Idle /\ state \in {"connecting", "connected"}
    /\ Gone
    /\ told' = IF state = "connecting" THEN TellFailed(told, signaledFailure) ELSE told
    /\ UNCHANGED <<signaledFailure, cancelled, nested, crashed, alive, counts>>

\* Timeout of StateConnecting.
Timeout ==
    /\ Idle /\ state = "connecting" /\ ~ alive
    /\ Gone
    /\ signaledFailure' = TRUE
    /\ told' = TellFailed(Append(told, "failed"), TRUE)
    /\ UNCHANGED <<cancelled, nested, crashed, alive, counts>>

\* The timers of an operation and of a ping reply.
OperationTimeout ==
    /\ Idle /\ state = "connected" /\ ~ alive
    /\ operationTimer \/ pingTimer = "reply"
    /\ Gone
    /\ UNCHANGED <<factory, nested, crashed, alive, counts>>

(****************************************************************************)
(* Sending.                                                                 *)
(****************************************************************************)
\* QueueSendOperation and ProcessSendOperations.
QueueSendOperation(operation) ==
    /\ sendOperations' = Append(sendOperations, operation)
    /\ executingSend' = TRUE
    /\ asked' = (asked \/ ~ executingSend)

PopFrontOperation ==
    /\ sendOperations' = Tail(sendOperations)
    /\ executingSend' = (sendOperations' # <<>>)
    /\ asked' = (sendOperations' # <<>>)

UserOperations == {"publish", "subscribe"}

\* The observer has one operation at a time.
Operate ==
    /\ Idle /\ state = "connected" /\ operations < MaxOperations
    /\ \A i \in DOMAIN sendOperations : sendOperations[i] \notin UserOperations
    /\ operations' = operations + 1
    /\ \E operation \in UserOperations : QueueSendOperation(operation)
    /\ UNCHANGED <<state, factory, nested, notification, timers, loop, notify, crashed, stream, alive,
                   unacked, connects, notifications>>

\* A variant with a mistake: the notification goes on.
EndNotificationNever == UNCHANGED executingNotification

EndNotification == executingNotification' = FALSE

NotificationDone ==
    /\ Idle /\ state = "connected" /\ executingNotification
    /\ EndNotification
    /\ QueueSendOperation("puback")
    /\ notify' = TRUE
    /\ UNCHANGED <<state, factory, nested, notificationPayloadSize, notificationWriter,
                   receivedPacketIdentifier, timers, loop, crashed, stream, alive, unacked, counts>>

\* A send stream does not take as long as the ping interval.
SendPing ==
    /\ Idle /\ state = "connected" /\ pingTimer = "interval" /\ ~ operationTimer
    /\ ~ asked
    /\ pingTimer' = "off"
    /\ QueueSendOperation("ping")
    /\ UNCHANGED <<state, factory, nested, notification, operationTimer, waitingForPingReply, loop,
                   notify, crashed, stream, alive, unacked, counts>>

SendConnect ==
    /\ Idle /\ state = "connecting" /\ asked
    /\ asked' = FALSE
    /\ wire' = Append(wire, Unit("connect", 0))
    /\ UNCHANGED <<state, factory, sendOperations, executingSend, nested, notification, timers, loop,
                   notify, crashed, buffer, coming, alive, unacked, counts>>

StartOperationTimer == operationTimer' = TRUE

\* A variant with a mistake: sending a ping does not wait for its reply.
StartWaitForPingReplyNever == pingTimer' = "off" /\ waitingForPingReply' = FALSE

StartWaitForPingReply == pingTimer' = "reply" /\ waitingForPingReply' = TRUE

\* Every packet but a ping starts the ping timer anew, unless it waits for a reply.
StartPing ==
    /\ pingTimer' = IF waitingForPingReply THEN pingTimer ELSE "interval"
    /\ UNCHANGED waitingForPingReply

\* SendStreamAvailable of StateConnected, for the first of the operations.  A puback and a ping
\* are then done, and the next operation requests a stream before this one is released.
SendOperation ==
    /\ Idle /\ state = "connected" /\ asked
    /\ LET operation == Head(sendOperations)
       IN  /\ wire' = Append(wire, Unit(operation, IF operation = "puback" THEN receivedPacketIdentifier ELSE 0))
           /\ \/ /\ operation \in UserOperations
                 /\ asked' = FALSE
                 /\ StartOperationTimer /\ StartPing
                 /\ UNCHANGED <<sendOperations, executingSend, nested>>
              \/ /\ operation = "puback"
                 /\ PopFrontOperation
                 /\ nested' = (nested \/ asked')
                 /\ StartPing
                 /\ UNCHANGED operationTimer
              \/ /\ operation = "ping"
                 /\ PopFrontOperation
                 /\ nested' = (nested \/ asked')
                 /\ StartWaitForPingReply
                 /\ UNCHANGED operationTimer
    /\ UNCHANGED <<state, factory, notification, loop, notify, crashed, buffer, coming, alive,
                   unacked, counts>>

(****************************************************************************)
(* The broker and the network (external).                                   *)
(****************************************************************************)
\* What the broker may answer; it may reject a subscription.
Answers(packet) == CASE packet.t = "connect" -> {Packet("conack")}
                     [] packet.t = "publish" -> {Packet("puback")}
                     [] packet.t = "subscribe" -> {Packet("suback"), Packet("rejected")}
                     [] packet.t = "ping" -> {Packet("pingresp")}
                     [] packet.t = "puback" -> {<<>>}

Broker ==
    /\ Idle /\ alive /\ wire # <<>>
    /\ wire' = Tail(wire)
    /\ \E answer \in Answers(Head(wire)) : coming' = coming \o answer
    /\ unacked' = IF Head(wire).t = "puback" THEN unacked \ {Head(wire).n} ELSE unacked
    /\ UNCHANGED <<state, factory, queue, notification, timers, loop, notify, crashed, buffer, alive,
                   counts>>

Notify ==
    /\ Idle /\ alive /\ state = "connected"
    /\ notifications < MaxNotifications /\ Cardinality(unacked) < MaxInFlight
    /\ notifications' = notifications + 1
    /\ \E size \in 0 .. MaxPayload : coming' = coming \o Publication(notifications', size)
    /\ unacked' = unacked \cup {notifications'}
    /\ UNCHANGED <<state, factory, queue, notification, timers, loop, notify, crashed, buffer, wire,
                   alive, connects, operations>>

FallSilent ==
    /\ Idle /\ alive /\ "silent" \in Conduct /\ state \in {"connecting", "connected"}
    /\ alive' = FALSE
    /\ UNCHANGED <<state, factory, queue, notification, timers, loop, notify, crashed, stream,
                   unacked, counts>>

Arrive ==
    /\ Idle /\ alive
    /\ \E n \in DOMAIN coming :
        /\ coming[n].t = "head" => "split" \in Conduct
        /\ buffer' = buffer \o SubSeq(coming, 1, n)
        /\ coming' = Drop(coming, n)
    /\ notify' = TRUE
    /\ UNCHANGED <<state, factory, queue, notification, timers, loop, crashed, wire, alive, unacked,
                   counts>>

(****************************************************************************)
(* Receiving.                                                               *)
(****************************************************************************)
DataReceived ==
    /\ Idle /\ notify
    /\ notify' = FALSE
    /\ loop' = TRUE
    /\ UNCHANGED <<state, factory, queue, notification, timers, crashed, stream, alive, unacked, counts>>

\* HandleDataReceived of StateConnecting: the factory is asked for an observer, and without one
\* the connection is aborted.
Accept ==
    /\ loop /\ state = "connecting" /\ Len(buffer) >= 2
    /\ \/ /\ state' = "connected"
          /\ told' = Append(told, "established")
          /\ buffer' = Drop(buffer, 2)
          /\ pingTimer' = "interval"
          /\ UNCHANGED <<signaledFailure, queue, notification, operationTimer, waitingForPingReply,
                         loop, notify, coming, wire, unacked>>
       \/ /\ Gone
          /\ signaledFailure' = TRUE
          /\ told' = TellFailed(Append(told, "established"), TRUE)
          /\ UNCHANGED nested
    /\ UNCHANGED <<cancelled, crashed, alive, counts>>

\* What has been received of the payload.
PayloadReceived == IF Len(buffer) < notificationPayloadSize THEN Len(buffer) ELSE notificationPayloadSize

HandleNotificationData ==
    /\ loop /\ state = "connected" /\ notificationPayloadSize # 0 /\ buffer # <<>>
    /\ IF notificationWriter
       THEN /\ notificationPayloadSize' = notificationPayloadSize - PayloadReceived
            /\ notificationWriter' = (notificationPayloadSize' # 0)
            /\ buffer' = Drop(buffer, PayloadReceived)
            /\ UNCHANGED crashed
       ELSE /\ crashed' = TRUE
            /\ UNCHANGED <<notificationPayloadSize, notificationWriter, buffer>>
    /\ UNCHANGED <<state, factory, queue, executingNotification, receivedPacketIdentifier, timers,
                   loop, notify, coming, wire, alive, unacked, counts>>

\* A packet can be handled now: its payload, if any, is left to HandleNotificationData.
Handling == /\ loop /\ state = "connected" /\ notificationPayloadSize = 0 /\ ~ executingNotification
            /\ Len(buffer) >= 2

KeepIdentifier(id) == receivedPacketIdentifier' = id

KeepWriter(size) == notificationWriter' = (size # 0)

HandlePublish ==
    /\ Handling /\ buffer[1].t = "head"
    /\ KeepIdentifier(buffer[2].n)
    /\ notificationPayloadSize' = buffer[1].n
    /\ KeepWriter(buffer[1].n)
    /\ executingNotification' = TRUE
    /\ buffer' = Drop(buffer, 2)
    /\ UNCHANGED <<state, factory, queue, timers, loop, notify, crashed, coming, wire, alive, unacked,
                   counts>>

\* The packet that answers an operation.
Acknowledges(packet, operation) == \/ packet = "puback" /\ operation = "publish"
                                   \/ packet = "suback" /\ operation = "subscribe"

CancelOperationTimer == operationTimer' = FALSE

\* HandlePubAck and HandleSubAck, with the observer's PublishDone or SubscribeDone in which it
\* may disconnect; the client, which is gone then, goes on with the next operation.
HandleAck ==
    /\ Handling /\ buffer[2].t \in {"puback", "suback"}
    /\ \/ /\ IF sendOperations # <<>> /\ Acknowledges(buffer[2].t, Head(sendOperations))
             THEN PopFrontOperation
             ELSE UNCHANGED <<sendOperations, executingSend, asked>>
          /\ CancelOperationTimer
          /\ buffer' = Drop(buffer, 2)
          /\ UNCHANGED crashed
       \/ /\ "quit" \in Conduct
          /\ sendOperations # <<>> /\ Acknowledges(buffer[2].t, Head(sendOperations))
          /\ crashed' = TRUE
          /\ UNCHANGED <<sendOperations, executingSend, asked, operationTimer, buffer>>
    /\ UNCHANGED <<state, factory, nested, notification, pingTimer, waitingForPingReply, loop, notify,
                   coming, wire, alive, unacked, counts>>

\* A subscription that is rejected, or any other packet, aborts the connection.
HandleRejected ==
    /\ Handling /\ buffer[2].t = "rejected"
    /\ Gone
    /\ UNCHANGED <<factory, nested, crashed, alive, counts>>

HandlePingReply ==
    /\ Handling /\ buffer[2].t = "pingresp"
    /\ buffer' = Drop(buffer, 2)
    /\ pingTimer' = "interval" /\ waitingForPingReply' = FALSE
    /\ UNCHANGED <<state, factory, queue, notification, operationTimer, loop, notify, crashed, coming,
                   wire, alive, unacked, counts>>

\* HandleDataReceived returns: while the observer has a notification, or when there is no
\* complete packet.  Of a notification of which not even the topic is complete, the size of the
\* payload has been set already.
StopHandling ==
    /\ loop
    /\ notificationPayloadSize = 0 \/ buffer = <<>>
    /\ Len(buffer) < 2 \/ (state = "connected" /\ executingNotification)
    /\ loop' = FALSE
    /\ notificationPayloadSize' =
        IF state = "connected" /\ ~ executingNotification /\ buffer # <<>> /\ buffer[1].t = "head"
        THEN buffer[1].n ELSE notificationPayloadSize
    /\ UNCHANGED <<state, factory, queue, executingNotification, notificationWriter,
                   receivedPacketIdentifier, timers, notify, crashed, stream, alive, unacked, counts>>

(****************************************************************************)
Init ==
    /\ state = "none" /\ signaledFailure = FALSE /\ told = <<>> /\ cancelled = FALSE
    /\ sendOperations = <<>> /\ executingSend = FALSE /\ asked = FALSE /\ nested = FALSE
    /\ executingNotification = FALSE /\ notificationPayloadSize = 0
    /\ notificationWriter = FALSE /\ receivedPacketIdentifier = 0
    /\ operationTimer = FALSE /\ pingTimer = "off" /\ waitingForPingReply = FALSE
    /\ loop = FALSE /\ notify = FALSE /\ crashed = FALSE
    /\ buffer = <<>> /\ coming = <<>> /\ wire = <<>> /\ alive = TRUE /\ unacked = {}
    /\ connects = 0 /\ operations = 0 /\ notifications = 0

HandleDataReceived ==
    \/ Accept \/ HandleNotificationData \/ HandlePublish \/ HandleAck \/ HandleRejected
    \/ HandlePingReply \/ StopHandling

Send == SendConnect \/ SendOperation

Timeouts == Timeout \/ OperationTimeout

Next ==
    \/ Connect \/ ConnectionEstablished \/ ConnectionFailed \/ CancelConnect \/ Closed
    \/ Operate \/ NotificationDone \/ SendPing \/ Send \/ Timeouts
    \/ Broker \/ Notify \/ FallSilent \/ Arrive \/ DataReceived \/ HandleDataReceived

\* Streams are granted, packets arrive, timers end, and the observer finishes its
\* notifications.  What the event dispatcher has to do, it does in turn.
Fairness ==
    /\ WF_vars(HandleDataReceived) /\ SF_vars(DataReceived) /\ SF_vars(Send)
    /\ SF_vars(NotificationDone) /\ SF_vars(Broker) /\ SF_vars(Arrive)
    /\ SF_vars(SendPing) /\ SF_vars(Timeouts)

Spec == Init /\ [][Next]_vars /\ Fairness

(****************************************************************************)
(* Properties.                                                              *)
(****************************************************************************)
\* The values of the variables.
TypeOK ==
    /\ state \in {"none", "resolving", "connecting", "connected"}
    /\ sendOperations \in Seq(UserOperations \cup {"puback", "ping"})
    /\ pingTimer \in {"off", "interval", "reply"}
    /\ notificationPayloadSize \in 0 .. MaxPayload
    /\ receivedPacketIdentifier \in 0 .. MaxNotifications /\ unacked \subseteq 1 .. MaxNotifications
    /\ {signaledFailure, cancelled, executingSend, asked, nested, executingNotification,
        notificationWriter, operationTimer, waitingForPingReply, loop, notify, crashed, alive}
            \subseteq BOOLEAN

\* The queue of operations has room for all that may be queued at the same time: an operation
\* of the observer, the acknowledgement of a notification, and a ping.
QueueFits == Len(sendOperations) <= QueueSize

\* The client acknowledges notifications that the broker has sent, each of them once
\* (receivedPacketIdentifier, OperationPubAck).
AcksRight ==
    \A i \in DOMAIN wire : wire[i].t = "puback" =>
        /\ wire[i].n \in unacked
        /\ \A j \in DOMAIN wire : wire[j] = wire[i] => i = j

\* The payload that the client still expects is what follows in the stream: however the stream
\* is cut, no payload is taken for a packet and no packet for payload.
StreamAligned ==
    LET ahead == buffer \o coming
    IN  state = "connected" /\ alive =>
            /\ notificationPayloadSize \in 0 .. Len(ahead)
            /\ \A i \in 1 .. notificationPayloadSize : ahead[i].t = "data"
            /\ Len(ahead) > notificationPayloadSize => ahead[notificationPayloadSize + 1].t # "data"

\* An operation has its timer from when it is sent until it is acknowledged, and no operation is
\* timed out for another: the timer runs exactly when the first operation waits for an answer.
OperationTimed == operationTimer = (executingSend /\ ~ asked)

\* A connection is always watched: the ping timer runs, or a ping is about to be sent.
KeptAlive ==
    state = "connected" =>
        \/ pingTimer # "off"
        \/ \E i \in DOMAIN sendOperations : sendOperations[i] = "ping"

\* The client does not use what it does not have: the writer of a notification that has not
\* been announced, or itself after the observer has disconnected.
NeverCrashes == ~ crashed

\* A stream is requested when the one before has been released, as the connections assert.
StreamsInTurn == ~ nested

\* The factory hears once how its attempt to connect ends, and nothing after it has cancelled it.
ToldOnce == Len(told) <= IF cancelled THEN 0 ELSE 1

\* Every operation of the observer ends, with an answer or with the connection.
OperationsEnd ==
    (\E i \in DOMAIN sendOperations : sendOperations[i] \in UserOperations)
        ~> (\A i \in DOMAIN sendOperations : sendOperations[i] \notin UserOperations)

\* A notification is acknowledged, or the connection ends.
NotificationsAcknowledged == \A id \in 1 .. MaxNotifications : id \in unacked ~> id \notin unacked

\* A client does not stay connected to a broker that has fallen silent.
SilenceDetected == ~ alive ~> state = "none"
=============================================================================
