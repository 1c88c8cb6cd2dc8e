---------------------------- MODULE MCConnections ----------------------------
(* Connections on lwIP and what shares them, for TLC. They have nothing to do   *)
(* with each other: each behaviour is one scenario, in which one of them is     *)
(* used and the others stay as they were initially.                             *)
EXTENDS Naturals

CONSTANTS c1, c2, k1, k2, k3, o1, o2, o3, listener, Mutex, None

VARIABLES
    scenario,
    net,
    pbufs, consumed, scheduled, attached, busy, reader, received, acked, reported, empty,
    waitingConnectors, connectors, client, listening, backlog, announced, peer, observedFor, factoryCrash,
    pendingClaims, currentClaim, reEvaluateClaimScheduled, isGranted, isQueued, onGranted, arrived, urgent,
    exclusiveConnection, connector, offers, createdObserver, answers, crash

receivingVars == <<pbufs, consumed, scheduled, attached, busy, reader, received, acked, reported, empty>>
factoryVars == <<waitingConnectors, connectors, client, listening, backlog, announced, peer, observedFor,
                 factoryCrash>>
exclusiveVars == <<pendingClaims, currentClaim, reEvaluateClaimScheduled, isGranted, isQueued, onGranted,
                   arrived, urgent, exclusiveConnection, connector, offers, createdObserver, answers, crash>>
vars == <<scenario, net, receivingVars, factoryVars, exclusiveVars>>

\* Two connections need three buffers of a pool of two.
Sending == INSTANCE ConnectionLwIp WITH
    Connections <- {c1, c2}, PoolSize <- 2, MaxStreams <- 3, MaxWrite <- 2, Conduct <- {}

\* They are also lost and closed whenever the interface allows it.
SendingAny == INSTANCE ConnectionLwIp WITH
    Connections <- {c1, c2}, PoolSize <- 2, MaxStreams <- 2, MaxWrite <- 1,
    Conduct <- {"die", "reader", "writer", "nested"}

\* For what happens in the end.
SendingFair == INSTANCE ConnectionLwIp WITH
    Connections <- {c1, c2}, PoolSize <- 2, MaxStreams <- 2, MaxWrite <- 1, Conduct <- {}

\* The observer reads in DataReceived, or also later.
Receiving == INSTANCE ConnectionLwIpReceiving WITH
    MaxBytes <- 4, MaxPbuf <- 2, MaxMarkers <- 1, Conduct <- {}
ReceivingLater == INSTANCE ConnectionLwIpReceiving WITH
    MaxBytes <- 4, MaxPbuf <- 2, MaxMarkers <- 1, Conduct <- {"later"}

\* One client has to wait for the connector of the other.
Factory == INSTANCE ConnectionFactoryLwIp WITH
    Clients <- {k1, k2}, Peers <- {o1, o2}, MaxConnectors <- 1, MaxBacklog <- 2, MaxConnections <- 2,
    Conduct <- {"later"}, crash <- factoryCrash

\* Three clients have two connectors; three connections come for two places in the backlog, and
\* are lost and discarded. The two halves are independent, and each is a scenario.
FactoryAny == INSTANCE ConnectionFactoryLwIp WITH
    Clients <- {k1, k2, k3}, Peers <- {o1, o2, o3}, MaxConnectors <- 2, MaxBacklog <- 2,
    MaxConnections <- 3, Conduct <- {"later", "lost", "discard"}, crash <- factoryCrash

\* Clients and a listener share one connection.
Exclusive == INSTANCE ExclusiveConnection WITH
    Listener <- listener, Connectors <- {k1, k2}, Offers <- {o1, o2}, Conduct <- {}

\* The same with every freedom that the interface gives.
ExclusiveAny == INSTANCE ExclusiveConnection WITH
    Listener <- listener, Connectors <- {k1, k2}, Offers <- {o1, o2}, Conduct <- {"several", "null", "cancel"}

ASSUME /\ Sending!Assumptions /\ SendingAny!Assumptions /\ SendingFair!Assumptions
       /\ Receiving!Assumptions /\ ReceivingLater!Assumptions
       /\ Factory!Assumptions /\ FactoryAny!Assumptions
       /\ Exclusive!Assumptions /\ ExclusiveAny!Assumptions

Init ==
    /\ scenario \in {"sending", "sendingAny", "sendingFair", "receiving", "receivingLater",
                     "factory", "connecting", "accepting", "exclusive", "exclusiveAny"}
    /\ Sending!Init
    /\ Receiving!Init
    /\ IF scenario \in {"connecting", "accepting"} THEN FactoryAny!Init ELSE Factory!Init
    /\ Exclusive!Init

OnlySending(name, step) == scenario = name /\ step /\ UNCHANGED <<scenario, receivingVars, factoryVars, exclusiveVars>>
OnlyReceiving(name, step) == scenario = name /\ step /\ UNCHANGED <<scenario, net, factoryVars, exclusiveVars>>
OnlyFactory(name, step) == scenario = name /\ step /\ UNCHANGED <<scenario, net, receivingVars, exclusiveVars>>
OnlyExclusive(name, step) == scenario = name /\ step /\ UNCHANGED <<scenario, net, receivingVars, factoryVars>>

Next ==
    \/ OnlySending("sending", Sending!Next)
    \/ OnlySending("sendingAny", SendingAny!Next)
    \/ OnlySending("sendingFair", SendingFair!Next)
    \/ OnlyReceiving("receiving", Receiving!Next)
    \/ OnlyReceiving("receivingLater", ReceivingLater!Next)
    \/ OnlyFactory("factory", Factory!Next)
    \/ OnlyFactory("connecting", FactoryAny!Next /\ UNCHANGED FactoryAny!listenerVars)
    \/ OnlyFactory("accepting", FactoryAny!Next /\ UNCHANGED FactoryAny!clientVars)
    \/ OnlyExclusive("exclusive", Exclusive!Next)
    \/ OnlyExclusive("exclusiveAny", ExclusiveAny!Next)

\* No connection has to be detached that was gone before it was attached.
Ready == ~crash /\ exclusiveConnection # "dropped"

\* What Fairness and FairSpec of ConnectionLwIp, ConnectionFactoryLwIp and ExclusiveConnection say.
\* Conditions of different scenarios may share a WF: only one of them is ever enabled.
Fairness ==
    /\ \A c \in {c1, c2} :
          /\ WF_vars(OnlySending("sendingFair", SendingFair!SendStreamAvailable(c)))
          /\ WF_vars(OnlySending("sendingFair", SendingFair!Write(c)))
          /\ WF_vars(OnlySending("sendingFair", SendingFair!RetrySend(c, TRUE)))
          /\ WF_vars(OnlySending("sendingFair", SendingFair!Sent(c)))
    /\ WF_vars(\/ OnlyFactory("factory", ~factoryCrash /\ Factory!Answers)
               \/ OnlyExclusive("exclusive", Ready /\ Exclusive!Granted))
    /\ WF_vars(OnlyExclusive("exclusive", ~crash /\ exclusiveConnection # "open" /\ Exclusive!Detaching))
    /\ \A k \in {k1, k2} :
          /\ WF_vars(\/ OnlyFactory("factory", ~factoryCrash /\ (Factory!Connected(k) \/ Factory!Error(k)))
                     \/ OnlyExclusive("exclusive",
                            Ready /\ (Exclusive!ConnectionEstablished(k) \/ Exclusive!ConnectionFailed(k))))
          /\ WF_vars(OnlyExclusive("exclusive", Ready /\ Exclusive!Answer(k)))
    /\ \A o \in {o1, o2} : WF_vars(OnlyExclusive("exclusive", Ready /\ Exclusive!AnswerOffer(o)))

Spec == Init /\ [][Next]_vars /\ Fairness

-----------------------------------------------------------------------------
(* Properties *)

\* Nothing that connections share is lost or used twice, whatever the order in which they send, wait,
\* are lost, closed and destroyed: the buffers of the pool, the pbufs of received data, the places for
\* connectors and in the backlog, and the claim of an exclusive connection. No assertion fails, unless an
\* observer is too free, and what is gone is not used.
ResourcesConserved ==
    /\ Sending!TypeOK /\ Sending!PoolConserved
    /\ scenario = "sending" => Sending!NeverCrashes
    /\ Receiving!TypeOK /\ Receiving!ChainConserved
    /\ scenario = "connecting" => FactoryAny!TypeOK /\ FactoryAny!NoPlaceIdle /\ FactoryAny!InOneList
    /\ scenario = "accepting" => FactoryAny!TypeOK /\ FactoryAny!NeverCrashes
    /\ scenario = "exclusive" => Exclusive!NeverCrashes /\ Exclusive!HoldsClaim
    /\ scenario = "exclusiveAny" => ExclusiveAny!TypeOK

\* What is sent, received and accepted goes where it belongs, in order: all that was written is given to
\* lwIP before the connection is closed; a reader stands where it has read until, also after it was
\* rewound and data was acknowledged and received; the observer hears of all data, and only then; each
\* connection that was accepted is offered, and its observer is the one that was made for it.
InRightOrder ==
    /\ Sending!WrittenInOrder /\ Sending!ClosedAfterSending
    /\ scenario = "receiving" => Receiving!NeverEmpty /\ Receiving!ReaderSeesAvailable
    /\ Receiving!ReaderInPlace /\ Receiving!DataReported
    /\ scenario = "factory" => Factory!RightConnection
    /\ scenario = "accepting" => FactoryAny!BacklogOffered
    /\ scenario = "exclusive" => Exclusive!AskedToClose
    /\ scenario = "exclusiveAny" => ExclusiveAny!OfferAnswered

\* Whoever waits is served in the end: a connection for a buffer of the pool, and for its data to be sent
\* before it is closed; a client for a place or for the exclusive connection; and a connection that was
\* accepted for an observer.
WaitingEnds ==
    /\ scenario = "sendingFair" => SendingFair!RequestsServed /\ SendingFair!ClosingEnds
    /\ scenario = "factory" => Factory!PlaceGiven /\ Factory!AcceptedServed
    /\ scenario = "exclusive" => Exclusive!ConnectsEnd
=============================================================================
