----------------------- MODULE ConnectionFactoryLwIp -----------------------
(***************************************************************************)
(* ConnectionFactoryLwIp, ConnectorLwIp and ListenerLwIp of                *)
(* lwip/lwip_cpp/ConnectionLwIp.cpp: how connections come to be.  Clients  *)
(* wait for one of a few connectors; what a listener accepts waits in a    *)
(* backlog until the factory above has made an observer for it.  Both take *)
(* connections from one allocator.                                         *)
(***************************************************************************)
EXTENDS Integers, Sequences, SequencesExt, FiniteSets

CONSTANTS
    Clients,        \* the factories that connect
    Peers,          \* identities of the connections that peers make
    MaxConnectors,  \* the size of connectors
    MaxBacklog,     \* the size of backlog: 6 in the code
    MaxConnections, \* the size of the allocator
    None,
    Conduct         \* what the factory above the listener and the peers may do

SizesAssumption == {MaxConnectors, MaxBacklog, MaxConnections} \subseteq Nat \ {0}
PeersAssumption == None \notin Peers /\ IsFiniteSet(Peers) /\ IsFiniteSet(Clients)

(***************************************************************************)
(* "later":   the factory answers after ConnectionAccepted has returned    *)
(* "lost":    a connection may be lost that it has not answered            *)
(* "discard": it lets go of createdObserver without calling it             *)
(***************************************************************************)
ConductAssumption == Conduct \subseteq {"later", "lost", "discard"}

Assumptions == SizesAssumption /\ PeersAssumption /\ ConductAssumption

VARIABLES
    waitingConnectors,  \* clients, in the order of their calls of Connect
    connectors,         \* the clients of the connectors, oldest first
    client,             \* how far each client is
    listening,          \* the application has the listener
    backlog,            \* connections that are to be offered to the factory
    announced,          \* the one that was offered: access is referenced
    peer,               \* the state of each connection that a peer makes
    observedFor,        \* history: for which connection its observer was made
    crash               \* front() of an empty list

listenerVars == <<listening, backlog, announced, peer, observedFor, crash>>
clientVars == <<waitingConnectors, connectors, client>>
vars == <<clientVars, listenerVars>>

TypeOK ==
    /\ waitingConnectors \in Seq(Clients) /\ connectors \in Seq(Clients)
    /\ Len(connectors) <= MaxConnectors
    /\ client \in [Clients -> {"idle", "connecting", "established", "lost", "connected"}]
    /\ listening \in BOOLEAN
    /\ backlog \in Seq(Peers) /\ Len(backlog) <= MaxBacklog
    /\ announced \in Peers \cup {None}
    /\ peer \in [Peers -> {"new", "accepted", "lost", "attached", "gone"}]
    /\ observedFor \in [Peers -> Peers \cup {None}]
    /\ crash \in BOOLEAN

Init ==
    /\ waitingConnectors = <<>>
    /\ connectors = <<>>
    /\ client = [k \in Clients |-> "idle"]
    /\ listening = TRUE
    /\ backlog = <<>>
    /\ announced = None
    /\ peer = [c \in Peers |-> "new"]
    /\ observedFor = [c \in Peers |-> None]
    /\ crash = FALSE

Allocated ==
    Cardinality({k \in Clients : client[k] \in {"established", "lost", "connected"}})
        + Cardinality({c \in Peers : peer[c] \in {"accepted", "lost", "attached"}})

---------------------------------------------------------------------------
(* Connecting.  The two lists are changed by several calls in one step.    *)

Lists == [waiting |-> waitingConnectors, connecting |-> connectors]
ListsBecome(l) == waitingConnectors' = l.waiting /\ connectors' = l.connecting

TryConnect(l) ==
    IF Len(l.connecting) < MaxConnectors /\ l.waiting # <<>>
    THEN [waiting |-> Tail(l.waiting), connecting |-> Append(l.connecting, Head(l.waiting))]
    ELSE l

Waiting(k, l) == [l EXCEPT !.waiting = Append(@, k)]
Without(k, l) == [l EXCEPT !.connecting = RemoveFirst(@, k)]

\* Remove: the place goes to the first that waits
RemoveConnector(k, l) == TryConnect(Without(k, l))

Connect(k) ==
    /\ client[k] = "idle"
    /\ client' = [client EXCEPT ![k] = "connecting"]
    /\ ListsBecome(TryConnect(Waiting(k, Lists)))
    /\ UNCHANGED listenerVars

\* A client that waits takes nobody's place
CancelConnect(k) ==
    /\ client[k] = "connecting"
    /\ client' = [client EXCEPT ![k] = "idle"]
    /\ ListsBecome(IF Contains(waitingConnectors, k)
                   THEN [Lists EXCEPT !.waiting = Remove(@, k)]
                   ELSE RemoveConnector(k, Lists))
    /\ UNCHANGED listenerVars

\* ConnectionFailed, in which the client may connect again, and then Remove
Failed(k) ==
    \/ /\ client' = [client EXCEPT ![k] = "idle"]
       /\ ListsBecome(RemoveConnector(k, Lists))
    \/ /\ ListsBecome(RemoveConnector(k, TryConnect(Waiting(k, Lists))))
       /\ UNCHANGED client

\* Connected: the client is given createdObserver, or the allocation fails
Connected(k) ==
    /\ Contains(connectors, k)
    /\ IF Allocated < MaxConnections
       THEN /\ client' = [client EXCEPT ![k] = "established"]
            /\ ListsBecome(RemoveConnector(k, Lists))
       ELSE Failed(k)
    /\ UNCHANGED listenerVars

Error(k) == Contains(connectors, k) /\ Failed(k) /\ UNCHANGED listenerVars

\* The client answers, or lets go: a connection that was not lost is attached
ClientAnswers(k) ==
    /\ client[k] \in {"established", "lost"}
    /\ \/ client[k] = "established" /\ client' = [client EXCEPT ![k] = "connected"]
       \/ client' = [client EXCEPT ![k] = "idle"]
    /\ UNCHANGED <<waitingConnectors, connectors, listenerVars>>

\* A connection is lost: before its observer is there, only the pcb is
ClientLost(k) ==
    /\ \/ client[k] = "established" /\ client' = [client EXCEPT ![k] = "lost"]
       \/ client[k] = "connected" /\ client' = [client EXCEPT ![k] = "idle"]
    /\ UNCHANGED <<waitingConnectors, connectors, listenerVars>>

---------------------------------------------------------------------------
(* The listener *)

Listener == [backlog |-> backlog, announced |-> announced, peer |-> peer, observedFor |-> observedFor]
ListenerBecomes(l) ==
    /\ backlog' = l.backlog
    /\ announced' = l.announced
    /\ peer' = l.peer
    /\ observedFor' = l.observedFor

\* Those in cs are destructed
Gone(cs, l) == [l EXCEPT !.peer = [c \in Peers |-> IF c \in cs THEN "gone" ELSE @[c]]]

\* Connections that are lost are removed
PurgeBacklog(l) ==
    LET IsAlive(c) == l.peer[c] # "lost"
    IN  Gone({c \in ToSet(l.backlog) : ~IsAlive(c)},
             [l EXCEPT !.backlog = SelectSeq(@, IsAlive)])

\* ConnectionAccepted is called for the first in the backlog
Announce(l) ==
    IF l.backlog # <<>> /\ l.announced = None THEN [l EXCEPT !.announced = Head(l.backlog)] ELSE l

ProcessBacklog(l) == Announce(PurgeBacklog(l))

\* There is a place in the backlog, and a connection can be allocated
Acceptable(l, used) == Len(l.backlog) < MaxBacklog /\ used < MaxConnections

Accept(c) ==
    /\ peer[c] = "new"
    /\ listening \/ announced # None
    /\ LET l == PurgeBacklog(Listener)
           used == Allocated - (Len(backlog) - Len(l.backlog))
       IN  ListenerBecomes(
               IF Acceptable(l, used)
               THEN ProcessBacklog([l EXCEPT !.backlog = Append(@, c), !.peer[c] = "accepted"])
               ELSE Gone({c}, l))
    /\ UNCHANGED <<clientVars, listening, crash>>

\* A variant with a mistake: the next is not offered
UnreferencedOnly(l) == [l EXCEPT !.announced = None]

\* TryProcessBacklog: the listener may have been kept alive for the answer only
Unreferenced(l) ==
    LET free == [l EXCEPT !.announced = None]
    IN  IF listening THEN ProcessBacklog(free)
        ELSE Gone(ToSet(free.backlog), [free EXCEPT !.backlog = <<>>])

\* The first in the backlog is attached to the observer, unless it was lost
Attach(l, observer) ==
    LET c == Head(l.backlog)
        popped == [l EXCEPT !.backlog = Tail(@)]
    IN  IF observer /\ l.peer[c] # "lost"
        THEN [popped EXCEPT !.peer[c] = "attached", !.observedFor[c] = l.announced]
        ELSE Gone({c}, popped)

\* createdObserver is called, with an observer or with null
Answer(observer) ==
    /\ announced # None
    /\ IF backlog = <<>>
       THEN crash' = TRUE /\ UNCHANGED <<backlog, announced, peer, observedFor>>
       ELSE ListenerBecomes(Unreferenced(Attach(Listener, observer))) /\ UNCHANGED crash
    /\ UNCHANGED <<clientVars, listening>>

\* createdObserver is let go: the connection stays in the backlog
Discard ==
    /\ "discard" \in Conduct
    /\ announced # None
    /\ ListenerBecomes(Unreferenced(Listener))
    /\ UNCHANGED <<clientVars, listening, crash>>

\* The application releases the listener
StopListening ==
    /\ listening
    /\ listening' = FALSE
    /\ IF announced = None
       THEN ListenerBecomes(Gone(ToSet(backlog), [Listener EXCEPT !.backlog = <<>>]))
       ELSE UNCHANGED <<backlog, announced, peer, observedFor>>
    /\ UNCHANGED <<clientVars, crash>>

\* A connection is lost: one in the backlog stays there, without its pcb
Lost(c) ==
    /\ \/ peer[c] = "accepted" /\ (announced = c => "lost" \in Conduct)
                               /\ peer' = [peer EXCEPT ![c] = "lost"]
       \/ peer[c] = "attached" /\ peer' = [peer EXCEPT ![c] = "gone"]
    /\ UNCHANGED <<clientVars, listening, backlog, announced, observedFor, crash>>

---------------------------------------------------------------------------
Answers == Answer(TRUE) \/ Answer(FALSE) \/ Discard

Connecting(k) ==
    \/ Connect(k) \/ CancelConnect(k)
    \/ Connected(k) \/ Error(k)
    \/ ClientAnswers(k) \/ ClientLost(k)

\* A factory that does not answer later answers before anything else happens
Next ==
    /\ ~crash
    /\ \/ Answers
       \/ /\ "later" \in Conduct \/ announced = None
          /\ \/ \E k \in Clients : Connecting(k)
             \/ \E c \in Peers : Accept(c) \/ Lost(c)
             \/ StopListening

Spec == Init /\ [][Next]_vars

\* Attempts to connect end in lwIP, and factories answer in the end
FairSpec ==
    /\ Spec
    /\ WF_vars(~crash /\ Answers)
    /\ \A k \in Clients : WF_vars(Next /\ (Connected(k) \/ Error(k)))

---------------------------------------------------------------------------
(* Properties *)

\* No place for a connector is free while a client waits for one, whatever
\* fails, is cancelled, or connects again while it is told of its failure.
NoPlaceIdle == Len(connectors) < MaxConnectors => waitingConnectors = <<>>

\* A client is in one list, once, exactly while it connects.
InOneList ==
    \A k \in Clients :
        Cardinality({i \in 1 .. Len(waitingConnectors) : waitingConnectors[i] = k})
            + Cardinality({i \in 1 .. Len(connectors) : connectors[i] = k})
            = IF client[k] = "connecting" THEN 1 ELSE 0

\* Each connection that was accepted is in the backlog once until it is attached
\* or destructed, and one of them is offered.
BacklogOffered ==
    /\ ToSet(backlog) = {c \in Peers : peer[c] \in {"accepted", "lost"}}
    /\ Cardinality(ToSet(backlog)) = Len(backlog)
    /\ announced = None => backlog = <<>>

\* An observer is attached to the connection that it was made for: its factory
\* was given the address of that one.
RightConnection == \A c \in Peers : observedFor[c] \in {None, c}

\* createdObserver finds a connection in the backlog.
NeverCrashes == ~crash

\* Every client that waits is given a connector in the end, also when others
\* keep failing and connecting again.
PlaceGiven == \A k \in Clients : Contains(waitingConnectors, k) ~> ~Contains(waitingConnectors, k)

\* Every connection that is accepted is attached in the end, or given up.
AcceptedServed == \A c \in Peers : peer[c] = "accepted" ~> peer[c] # "accepted"
===========================================================================
