-------------------- MODULE HttpClientCachedConnection --------------------
(***************************************************************************)
(* services/network/HttpClientCachedConnection.cpp: an HTTP connection     *)
(* that is kept open for a while, and used again for the next request to   *)
(* the same host.                                                          *)
(*                                                                         *)
(* The cached client is the observer of the HTTP client below, and the     *)
(* subject of the observer above, which comes and goes.  The calls of the  *)
(* two sides are nested in each other, so the state is one record; the     *)
(* operators return the record after a call, or the set of those that are  *)
(* possible, where the factory above has a choice.                         *)
(***************************************************************************)
EXTENDS Integers, Sequences, SequencesExt

CONSTANTS
    Factories,      \* those that connect; each makes one observer at a time
    SharedHost,     \* the factories that connect to one host; the others have their own
    MaxScheduled,   \* bound: calls of TryConnectWaiting that are scheduled
    None,
    Conduct         \* what factories and observers may do

FactoriesAssumption == None \notin Factories /\ SharedHost \subseteq Factories
BoundAssumption == MaxScheduled \in Nat \ {0}

(***************************************************************************)
(* "discard": a factory lets go of what ConnectionEstablished gives it     *)
(* "later":   a factory calls it after ConnectionEstablished has returned  *)
(* "close":   an observer closes the connection in Attached                *)
(* "content": an observer detaches before it was asked for the content of  *)
(*            its request                                                  *)
(***************************************************************************)
ConductAssumption == Conduct \subseteq {"discard", "later", "close", "content"}

Assumptions == FactoriesAssumption /\ BoundAssumption /\ ConductAssumption

VARIABLE state

vars == state

Hosts == Factories \cup {"shared", None}
Host(f) == IF f \in SharedHost THEN "shared" ELSE f

Connectors ==
    [clientObserverFactory: Factories \cup {None},
     waiting: Seq(Factories),               \* waitingClientObserverFactories
     connecting: BOOLEAN,                   \* the delegate connects
     hash: Hosts,                           \* hostAndPortHash
     timer: BOOLEAN,                        \* disconnectTimer is armed
     scheduled: 0 .. MaxScheduled + 1,      \* calls of TryConnectWaiting
     answers: SUBSET Factories,             \* those that hold a function that refers to the client
     created: {"no", "yes", "lost"},        \* createdObserver of the client; its connection is lost
     below: BOOLEAN,                        \* HttpClientObserver::IsAttached()
     above: Factories \cup {None},          \* HttpClient::IsAttached(), whose observer
     idle: BOOLEAN, closeRequested: BOOLEAN, detaching: BOOLEAN, detachingObserver: BOOLEAN,
     host: Hosts,                           \* the host at the other end
     request: Factories \cup {None},        \* whose request is being answered below
     content: BOOLEAN,                      \* its content will be asked for
     ignored: BOOLEAN,                      \* history: an observer that closes was not heard
     crash: BOOLEAN]                        \* a null observer or a destructed client is used

TypeOK == state \in Connectors

Init ==
    state = [clientObserverFactory |-> None, waiting |-> <<>>, connecting |-> FALSE, hash |-> None,
             timer |-> FALSE, scheduled |-> 0, answers |-> {}, created |-> "no",
             below |-> FALSE, above |-> None, idle |-> TRUE, closeRequested |-> FALSE,
             detaching |-> FALSE, detachingObserver |-> FALSE, host |-> None,
             request |-> None, content |-> FALSE, ignored |-> FALSE, crash |-> FALSE]

Crash(s) == [s EXCEPT !.crash = TRUE]

Schedule(s) == [s EXCEPT !.scheduled = @ + 1]

---------------------------------------------------------------------------
(* The client *)

\* The connection below is gone
Unconnected(s) == [s EXCEPT !.below = FALSE, !.request = None, !.content = FALSE]

\* HttpClientCachedConnectionConnector::DetachingObserver
StartTimer(s) == IF s.clientObserverFactory = None THEN [s EXCEPT !.timer = TRUE] ELSE s

(***************************************************************************)
(* HttpClient::Detach, with DetachingObserver.  When a close was requested *)
(* the connection below is closed; nothing else comes of that, because the *)
(* observer is attached until the end.                                     *)
(***************************************************************************)
Detach(s) ==
    LET d == [s EXCEPT !.detachingObserver = TRUE]
        closed == IF ~d.detaching /\ d.closeRequested
                  THEN Unconnected([d EXCEPT !.detaching = TRUE]) ELSE d
    IN  [Schedule(StartTimer(closed)) EXCEPT !.above = None]

\* The observer above is detached, unless it is being detached
DetachIfAttached(s) == IF s.above # None /\ ~s.detachingObserver THEN Detach(s) ELSE s

\* The connection below is closed, by CloseConnection or by the other side; see Detaching
Closed(s) == Unconnected(DetachIfAttached([s EXCEPT !.detaching = TRUE]))

\* Attach, with AttachedObserver
Attach(s, f) ==
    IF s.above # None THEN Crash(s)
    ELSE [s EXCEPT !.above = f, !.detachingObserver = FALSE]

\* The same, when the observer calls CloseConnection in Attached
AttachAndClose(s, f) ==
    IF s.detachingObserver
    THEN [s EXCEPT !.above = f, !.detachingObserver = FALSE, !.ignored = TRUE]
    ELSE [Detach([s EXCEPT !.above = f]) EXCEPT !.detachingObserver = FALSE]

\* The function in createdObserver makes the client the observer of the one below
CreatedObserver(s) == [s EXCEPT !.below = @ \/ s.created = "yes", !.created = "no"]

\* What the factory does with the function that ConnectionEstablished gives it
Answers(s, f) ==
    {Attach(CreatedObserver(s), f)}
        \cup (IF "close" \in Conduct THEN {AttachAndClose(CreatedObserver(s), f)} ELSE {})
        \cup (IF "discard" \in Conduct THEN {s} ELSE {})
        \cup (IF "later" \in Conduct THEN {[s EXCEPT !.answers = @ \cup {f}]} ELSE {})

Told(s) == [s EXCEPT !.clientObserverFactory = None]

---------------------------------------------------------------------------
(* The connector *)

\* HttpClientCachedConnectionConnector::Connect()
ConnectBelow(s) ==
    LET c == IF s.below THEN Closed(s) ELSE s
    IN  [c EXCEPT !.hash = Host(c.clientObserverFactory), !.connecting = TRUE]

\* The connection that is open can be used for the next factory
Reusable(s) == s.below /\ s.idle /\ Host(s.clientObserverFactory) = s.hash

TryConnectWaiting(s) ==
    IF s.clientObserverFactory = None /\ s.above = None /\ s.waiting # <<>>
    THEN LET t == [s EXCEPT !.timer = FALSE, !.clientObserverFactory = Head(s.waiting), !.waiting = Tail(@)]
         IN  IF Reusable(t)
             THEN {Told(u) : u \in Answers(t, t.clientObserverFactory)}
             ELSE {ConnectBelow(t)}
    ELSE {s}

\* ClientPtrExpired, when nothing refers to the client any more
Expired(s) == IF s.below \/ s.answers # {} THEN {s} ELSE TryConnectWaiting(DetachIfAttached(s))

Connect(f) ==
    /\ f \notin {state.clientObserverFactory, state.above} \cup ToSet(state.waiting) \cup state.answers
    /\ state' = Schedule([state EXCEPT !.waiting = Append(@, f)])

CancelConnect(f) ==
    \/ /\ f = state.clientObserverFactory
       /\ state' = Schedule(Told([state EXCEPT !.connecting = FALSE]))
    \/ /\ Contains(state.waiting, f)
       /\ state' = Schedule([state EXCEPT !.waiting = Remove(@, f)])

\* What was scheduled
Scheduled ==
    /\ state.scheduled > 0
    /\ state' \in TryConnectWaiting([state EXCEPT !.scheduled = @ - 1])

\* The delegate has connected: there is a new client, in the place of the old one,
\* which somebody may still use
ConnectionEstablished ==
    /\ state.connecting
    /\ LET f == state.clientObserverFactory
           emplaced == [state EXCEPT !.connecting = FALSE, !.host = Host(f), !.created = "yes",
                                     !.below = FALSE, !.idle = TRUE, !.closeRequested = FALSE,
                                     !.detaching = FALSE, !.detachingObserver = FALSE]
       IN  state' \in IF state.answers # {} \/ state.above # None \/ state.below THEN {Crash(state)}
                      ELSE {Told(s) : s \in Answers(emplaced, f)}

\* After ConnectionFailed, in which the factory may connect again
Failed(s) == TryConnectWaiting(s)

ConnectionFailed ==
    /\ state.connecting
    /\ LET f == state.clientObserverFactory
           s == [state EXCEPT !.connecting = FALSE]
       IN  \/ state' \in Failed(Told(s))
           \/ state' \in Failed(Told(Schedule([s EXCEPT !.waiting = Append(@, f)])))

DisconnectTimeout ==
    /\ state.timer
    /\ LET s == [state EXCEPT !.timer = FALSE]
       IN  state' \in IF s.above = None /\ s.below THEN Expired(Closed(s)) ELSE {s}

---------------------------------------------------------------------------
(* The client below *)

\* The connection is lost; before createdObserver is called, nobody is told
Lost ==
    \/ state.below /\ state' \in Expired(Closed(state))
    \/ state.created = "yes" /\ state' = [state EXCEPT !.created = "lost"]

CloseRequested ==
    /\ state.below
    /\ state' \in IF state.above # None /\ ~state.detachingObserver
                  THEN {[state EXCEPT !.closeRequested = TRUE]}
                  ELSE Expired(Closed(state))

FillContent ==
    /\ state.content
    /\ state' = IF state.above = None THEN Crash(state) ELSE [state EXCEPT !.content = FALSE]

BodyComplete ==
    /\ state.request # None
    /\ ~state.content
    /\ state' = [state EXCEPT !.idle = TRUE, !.request = None]

---------------------------------------------------------------------------
(* The observers above *)

\* Get, Post and so on, with or without content that is asked for later
Request(f) ==
    /\ state.above = f
    /\ state.request = None
    /\ \E content \in BOOLEAN :
          state' = [state EXCEPT !.idle = FALSE, !.request = f, !.content = content]

\* CloseConnection
CloseConnection(f) ==
    /\ state.above = f
    /\ state.content => "content" \in Conduct
    /\ state' = DetachIfAttached(state)

\* The factory calls what it was given before; a client without a connection expires
AnswerLater(f) ==
    /\ f \in state.answers
    /\ LET s == Attach(CreatedObserver([state EXCEPT !.answers = @ \ {f}]), f)
       IN  state' \in IF s.crash THEN {s} ELSE Expired(s)

---------------------------------------------------------------------------
Next ==
    /\ ~state.crash
    /\ \/ Scheduled \/ DisconnectTimeout \/ FillContent \/ BodyComplete
       \/ \E f \in Factories : Request(f)
       \/ /\ state.scheduled < MaxScheduled
          /\ \/ ConnectionEstablished \/ ConnectionFailed \/ Lost \/ CloseRequested
             \/ \E f \in Factories : \/ Connect(f) \/ CancelConnect(f) \/ AnswerLater(f)
                                     \/ CloseConnection(f)

Spec == Init /\ [][Next]_vars

\* The event dispatcher runs what is scheduled, and timers expire; the delegate
\* ends each attempt; a request is answered, and its observer closes in the end.
\* (SF for what the bound may hold up, or a next request.)
FairSpec ==
    /\ Spec
    /\ WF_vars(Next /\ Scheduled)
    /\ WF_vars(Next /\ DisconnectTimeout)
    /\ SF_vars(Next /\ (ConnectionEstablished \/ ConnectionFailed))
    /\ WF_vars(Next /\ FillContent)
    /\ \A f \in Factories : SF_vars(Next /\ CloseConnection(f))

---------------------------------------------------------------------------
(* Properties *)

\* The connection that an observer uses leads to its host.
RightHost == state.above # None /\ state.below => state.host = Host(state.above)

\* An observer never receives the answer to the request of another.
OwnResponse == state.above # None => state.request \in {None, state.above}

\* No observer above is used that is not there, and no client that is gone.
NeverCrashes == ~state.crash

\* An observer has a connection below, or is detached.
HasConnection == state.above # None => state.below

\* An observer that closes the connection is detached.
CloseObeyed == ~state.ignored

\* Each factory that connects is told of a connection or a failure in the end.
WaitingServed ==
    \A f \in Factories : Contains(state.waiting, f) ~> ~Contains(state.waiting, f)

\* A connection that nobody uses is closed in the end.
IdleClosed == state.below /\ state.above = None ~> ~state.below \/ state.above # None
===========================================================================
