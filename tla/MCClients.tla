------------------------------ MODULE MCClients ------------------------------
(* The clients of HTTP and MQTT, and what shares them, for TLC. They have       *)
(* nothing to do with each other: each behaviour is one scenario, in which one  *)
(* of them is used and the others stay as they were initially.                  *)
EXTENDS Naturals

CONSTANTS
    Scenarios,      \* those of the run
    f1, f2, f3, a1, a2, a3, Nobody

VARIABLES
    scenario,
    request, asked, sendingState, nextState, writer, written, wire, expecting, statusParsed, statusCode,
    headerParsingDone, headerParsingError, contentLength, chunkedEncoding, firstChunk, bodyReader, loop,
    attached, coming, buffer, notify, expected, got, requests,
    cached,
    state, signaledFailure, told, cancelled, sendOperations, executingSend, sendAsked, nested,
    executingNotification, notificationPayloadSize, notificationWriter, receivedPacketIdentifier,
    operationTimer, pingTimer, waitingForPingReply, receiveLoop, dataNotify, crashed, received,
    brokerSent, clientSent, alive, unacked, connects, operations, notifications,
    pendingClaims, currentClaim, reEvaluateClaimScheduled, isGranted, isQueued, onGranted, arrived, urgent,
    accesses, clientAttached, active, busy, wants, subscribed, notified, crash

httpVars == <<request, asked, sendingState, nextState, writer, written, wire, expecting, statusParsed,
              statusCode, headerParsingDone, headerParsingError, contentLength, chunkedEncoding, firstChunk,
              bodyReader, loop, attached, coming, buffer, notify, expected, got, requests>>
mqttVars == <<state, signaledFailure, told, cancelled, sendOperations, executingSend, sendAsked, nested,
              executingNotification, notificationPayloadSize, notificationWriter, receivedPacketIdentifier,
              operationTimer, pingTimer, waitingForPingReply, receiveLoop, dataNotify, crashed, received,
              brokerSent, clientSent, alive, unacked, connects, operations, notifications>>
accessVars == <<pendingClaims, currentClaim, reEvaluateClaimScheduled, isGranted, isQueued, onGranted,
                arrived, urgent, accesses, clientAttached, active, busy, wants, subscribed, notified, crash>>
vars == <<scenario, httpVars, cached, mqttVars, accessVars>>

\* Two requests and their responses, of which head and chunks do not fit in a stream; the smaller
\* instances with Fair are for what happens in the end.
Http == INSTANCE HttpClient WITH
    MaxRequests <- 2, HeadSize <- 12, MaxBody <- 3, MaxSendStreamSize <- 10, MaxChunks <- 2,
    MaxChunkSize <- 2, Conduct <- {}
HttpFair == INSTANCE HttpClient WITH
    MaxRequests <- 2, HeadSize <- 12, MaxBody <- 1, MaxSendStreamSize <- 10, MaxChunks <- 1,
    MaxChunkSize <- 2, Conduct <- {}

\* Three factories connect to two hosts, and behave well; or they have every freedom but
\* to answer later.
Cached == INSTANCE HttpClientCachedConnection WITH
    None <- Nobody, Factories <- {f1, f2, f3}, SharedHost <- {f1, f2}, MaxScheduled <- 3, Conduct <- {}, state <- cached
CachedAny == INSTANCE HttpClientCachedConnection WITH
    None <- Nobody, Factories <- {f1, f2, f3}, SharedHost <- {f1, f2}, MaxScheduled <- 2,
    Conduct <- {"discard", "close", "content"}, state <- cached
CachedFair == INSTANCE HttpClientCachedConnection WITH
    None <- Nobody, Factories <- {f1, f2}, SharedHost <- {}, MaxScheduled <- 2, Conduct <- {}, state <- cached

\* A client connects twice, to a broker that may fall silent.
Mqtt == INSTANCE MqttClient WITH
    MaxConnects <- 2, MaxOperations <- 2, MaxNotifications <- 2, MaxPayload <- 2, MaxInFlight <- 1,
    QueueSize <- 3, Conduct <- {"silent"}, asked <- sendAsked, loop <- receiveLoop, notify <- dataNotify,
    buffer <- received, coming <- brokerSent, wire <- clientSent
MqttFair == INSTANCE MqttClient WITH
    MaxConnects <- 1, MaxOperations <- 1, MaxNotifications <- 1, MaxPayload <- 1, MaxInFlight <- 1,
    QueueSize <- 3, Conduct <- {"silent"}, asked <- sendAsked, loop <- receiveLoop, notify <- dataNotify,
    buffer <- received, coming <- brokerSent, wire <- clientSent

\* Three share a client, also with every freedom that the interface gives.
Access == INSTANCE MqttMultipleAccess WITH
    None <- Nobody, Accesses <- {a1, a2, a3}, Conduct <- {}, attached <- clientAttached
AccessAny == INSTANCE MqttMultipleAccess WITH
    None <- Nobody, Accesses <- {a1, a2, a3}, Conduct <- {"lostActive", "lostQueued", "destroy", "abandon"},
    attached <- clientAttached
AccessFair == INSTANCE MqttMultipleAccess WITH
    None <- Nobody, Accesses <- {a1, a2}, Conduct <- {}, attached <- clientAttached

ASSUME /\ Scenarios \subseteq {"http", "httpFair", "cached", "cachedAny", "cachedFair", "mqtt", "mqttFair",
                               "access", "accessAny", "accessFair"}
       /\ Http!Assumptions /\ HttpFair!Assumptions
       /\ Cached!Assumptions /\ CachedAny!Assumptions /\ CachedFair!Assumptions
       /\ Mqtt!Assumptions /\ MqttFair!Assumptions
       /\ Access!Assumptions /\ AccessAny!Assumptions /\ AccessFair!Assumptions

Init ==
    /\ scenario \in Scenarios
    /\ Http!Init
    /\ Cached!Init
    /\ Mqtt!Init
    /\ IF scenario \in {"access", "accessAny"} THEN Access!Init ELSE AccessFair!Init

OnlyHttp(name, step) == scenario = name /\ step /\ UNCHANGED <<scenario, cached, mqttVars, accessVars>>
OnlyCached(name, step) == scenario = name /\ step /\ UNCHANGED <<scenario, httpVars, mqttVars, accessVars>>
OnlyMqtt(name, step) == scenario = name /\ step /\ UNCHANGED <<scenario, httpVars, cached, accessVars>>
OnlyAccess(name, step) == scenario = name /\ step /\ UNCHANGED <<scenario, httpVars, cached, mqttVars>>

Next ==
    \/ OnlyHttp("http", Http!Next)
    \/ OnlyHttp("httpFair", HttpFair!Next)
    \/ OnlyCached("cached", Cached!Next)
    \/ OnlyCached("cachedAny", CachedAny!Next)
    \/ OnlyCached("cachedFair", CachedFair!Next)
    \/ OnlyMqtt("mqtt", Mqtt!Next)
    \/ OnlyMqtt("mqttFair", MqttFair!Next)
    \/ OnlyAccess("access", Access!Next)
    \/ OnlyAccess("accessAny", AccessAny!Next)
    \/ OnlyAccess("accessFair", AccessFair!Next)

Idle == ~cached.crash
Unbounded == Idle /\ cached.scheduled < 2

\* What the specifications of the four say about fairness. Conditions of different scenarios may
\* share a WF or an SF: only one of them is ever enabled.
Fairness ==
    /\ WF_vars(\/ OnlyHttp("httpFair", HttpFair!Progress)
               \/ OnlyCached("cachedFair", Idle /\ CachedFair!Scheduled)
               \/ OnlyMqtt("mqttFair", MqttFair!HandleDataReceived)
               \/ OnlyAccess("accessFair", ~crash /\ AccessFair!Granted))
    /\ WF_vars(\/ OnlyCached("cachedFair", Idle /\ CachedFair!DisconnectTimeout)
               \/ OnlyAccess("accessFair", ~crash /\ AccessFair!Done))
    /\ WF_vars(OnlyCached("cachedFair", Idle /\ CachedFair!FillContent))
    /\ SF_vars(\/ OnlyCached("cachedFair",
                     Unbounded /\ (CachedFair!ConnectionEstablished \/ CachedFair!ConnectionFailed))
               \/ OnlyMqtt("mqttFair", MqttFair!DataReceived))
    /\ SF_vars(\/ OnlyCached("cachedFair", Unbounded /\ CachedFair!CloseConnection(f1))
               \/ OnlyMqtt("mqttFair", MqttFair!Send))
    /\ SF_vars(\/ OnlyCached("cachedFair", Unbounded /\ CachedFair!CloseConnection(f2))
               \/ OnlyMqtt("mqttFair", MqttFair!NotificationDone))
    /\ SF_vars(OnlyMqtt("mqttFair", MqttFair!Broker))
    /\ SF_vars(OnlyMqtt("mqttFair", MqttFair!Arrive))
    /\ SF_vars(OnlyMqtt("mqttFair", MqttFair!SendPing))
    /\ SF_vars(OnlyMqtt("mqttFair", MqttFair!Timeouts))

Spec == Init /\ [][Next]_vars
FairSpec == Spec /\ Fairness

-----------------------------------------------------------------------------
(* Properties *)

\* Nobody uses what is not there: the writer of a notification, a client that was destroyed, a
\* connection below. The queue of operations has room for all that may be queued; the connection is
\* watched, and exactly the operation that waits for an answer is timed.
StatesSound ==
    /\ Http!TypeOK
    /\ Cached!TypeOK
    /\ scenario = "cached" => Cached!NeverCrashes /\ Cached!HasConnection
    /\ Mqtt!TypeOK /\ Mqtt!NeverCrashes /\ Mqtt!QueueFits /\ Mqtt!OperationTimed /\ Mqtt!KeptAlive
    /\ scenario \in {"access", "accessAny"} => Access!TypeOK
    /\ scenario = "access" => Access!NeverCrashes

\* Everyone receives what is theirs, and all of it: a server the request that was written and an
\* observer the body of its response, however the connection cuts them; an observer a connection to
\* its host, and no answer to the request of another; a broker one acknowledgement of each notification;
\* a factory one report of its attempt to connect; and the end of an operation the access that asked it.
NothingMixedUp ==
    /\ Http!RequestIntact /\ Http!BodyIntact /\ Http!NeverAborts
    /\ scenario \in {"cached", "cachedAny"} => Cached!RightHost
    /\ Cached!OwnResponse
    /\ Mqtt!AcksRight /\ Mqtt!StreamAligned /\ Mqtt!ToldOnce
    /\ Access!OneAtATime
    /\ scenario = "access" => Access!DoneToOwner

\* Every request, attempt to connect and operation ends; a connection is closed that nobody uses, or
\* whose broker has fallen silent.
OperationsEnd ==
    /\ scenario = "httpFair" => HttpFair!EventuallyComplete
    /\ scenario = "cachedFair" => CachedFair!WaitingServed /\ CachedFair!IdleClosed
    /\ scenario = "mqttFair" => /\ MqttFair!OperationsEnd /\ MqttFair!NotificationsAcknowledged
                                /\ MqttFair!SilenceDetected
    /\ scenario = "accessFair" => AccessFair!OperationsEnd
=============================================================================
