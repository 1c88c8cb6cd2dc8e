------------------------ MODULE ExclusiveConnection ------------------------
(***************************************************************************)
(* services/network/ExclusiveConnection.cpp: at most one connection at a   *)
(* time.  Connectors and a listener claim the mutex's resource (this       *)
(* module is composed with ClaimableResource); when the connection is      *)
(* made the claim is moved to the mutex, which releases it when the        *)
(* connection is gone.  Whoever comes asks the current connection to close.*)
(*                                                                         *)
(* Factories above may answer later, or not at all, and factories below    *)
(* may fail or lose a connection at any time.                              *)
(***************************************************************************)
EXTENDS Integers, Sequences

CONSTANTS
    Connectors,     \* the clients that connect: one Connector for each
    Offers,         \* identities of the connections that the listener accepts
    Listener, Mutex,\* the names of the claimers of the listener and the mutex
    None,
    Conduct         \* what the factories may do

NamesAssumption ==
    /\ Listener # Mutex
    /\ {Listener, Mutex, None} \cap (Connectors \cup Offers) = {}
    /\ None \notin {Listener, Mutex}
    /\ Connectors \cap Offers = {}

(***************************************************************************)
(* "several":  the listener below offers connections while an earlier one  *)
(*             has not been answered                                       *)
(* "null":     the factory above answers with a null observer              *)
(* "cancel":   a client cancels after ConnectionEstablished                *)
(***************************************************************************)
ConductAssumption == Conduct \subseteq {"several", "null", "cancel"}

Assumptions == NamesAssumption /\ ConductAssumption

VARIABLES
    pendingClaims, currentClaim, reEvaluateClaimScheduled, isGranted, isQueued,
    onGranted, arrived, urgent,     \* the claims, see ClaimableResource
    exclusiveConnection,    \* "dropped": made, but the connection below is gone;
                            \* "asked": its observer was asked to close
    connector,              \* what each Connector waits for
    offers,                 \* the connections that were not accepted yet
    createdObserver,        \* of the listener: the offer it belongs to
    answers,                \* offers that the factory above has to answer
    crash                   \* an assertion failed, or an empty function was called

claimVars == <<pendingClaims, currentClaim, reEvaluateClaimScheduled, isGranted,
               isQueued, onGranted, arrived, urgent>>
vars == <<claimVars, exclusiveConnection, connector, offers, createdObserver, answers, crash>>

Resource == INSTANCE ClaimableResource
                WITH Claimers <- Connectors \cup {Listener, Mutex},
                     Claims <- Connectors \cup Offers

TypeOK ==
    /\ Resource!TypeOK
    /\ exclusiveConnection \in {"none", "dropped", "open", "asked"}
    /\ connector \in [Connectors -> {"none", "claim", "connection", "answer"}]
    /\ offers \subseteq Offers
    /\ createdObserver \in Offers \cup {None}
    /\ answers \subseteq Offers
    /\ crash \in BOOLEAN

Init ==
    /\ Resource!Init
    /\ exclusiveConnection = "none"
    /\ connector = [k \in Connectors |-> "none"]
    /\ offers = Offers
    /\ createdObserver = None
    /\ answers = {}
    /\ crash = FALSE

Crash == crash' = TRUE /\ UNCHANGED <<claimVars, exclusiveConnection, connector, offers, createdObserver, answers>>

---------------------------------------------------------------------------
(* ExclusiveConnectionFactoryMutex *)

ClaimsPending == pendingClaims # <<>>

\* The observer is asked once
RequestCloseConnection ==
    exclusiveConnection' = IF exclusiveConnection = "open" THEN "asked" ELSE exclusiveConnection

(***************************************************************************)
(* CreateConnection, and what its callers do next: the new connection      *)
(* becomes the observer of the one below, if that is there still, and is   *)
(* attached to its own observer, which is asked to close at once when      *)
(* others wait.                                                            *)
(***************************************************************************)
CreateConnection(claimer) ==
    /\ exclusiveConnection' \in {"dropped", IF ClaimsPending THEN "asked" ELSE "open"}
    /\ Resource!Move(Mutex, claimer)

\* What is done when exclusiveConnection is allocatable again
OnAllocatable == Resource!Release(Mutex)

\* The connection below is gone (its observer, asked or not, has closed it, or
\* it was lost), or was gone already when it was attached
Detaching ==
    /\ exclusiveConnection # "none"
    /\ exclusiveConnection' = "none"
    /\ OnAllocatable
    /\ UNCHANGED <<connector, offers, createdObserver, answers, crash>>

---------------------------------------------------------------------------
(* Connectors *)

\* Connect, and the constructor of the Connector
Connect(k) ==
    /\ connector[k] = "none"
    /\ connector' = [connector EXCEPT ![k] = "claim"]
    /\ RequestCloseConnection
    /\ Resource!ClaimWith(k, k, FALSE)
    /\ UNCHANGED <<offers, createdObserver, answers, crash>>

ConnectionEstablished(k) ==
    /\ connector[k] = "connection"
    /\ connector' = [connector EXCEPT ![k] = "answer"]
    /\ UNCHANGED <<claimVars, exclusiveConnection, offers, createdObserver, answers, crash>>

\* The Connector is gone, and its claim is released
Remove(k) ==
    /\ connector' = [connector EXCEPT ![k] = "none"]
    /\ Resource!Release(k)
    /\ UNCHANGED <<exclusiveConnection, offers, createdObserver, answers, crash>>

ConnectionFailed(k) == connector[k] = "connection" /\ Remove(k)

\* CancelConnect: access asserts that the client has not kept what it was given
CancelConnect(k) ==
    \/ connector[k] \in {"claim", "connection"} /\ Remove(k)
    \/ connector[k] = "answer" /\ "cancel" \in Conduct /\ Crash

\* The client calls what it was given in ConnectionEstablished, or lets it go
AnswerConnector(k) ==
    /\ connector[k] = "answer"
    /\ IF exclusiveConnection # "none"
       THEN Crash
       ELSE /\ CreateConnection(k)
            /\ connector' = [connector EXCEPT ![k] = "none"]
            /\ UNCHANGED <<offers, createdObserver, answers, crash>>

DiscardConnector(k) == connector[k] = "answer" /\ Remove(k)

---------------------------------------------------------------------------
(* The listener *)

\* The connections that were accepted before are answered
Answered == ~isQueued[Listener] /\ ~isGranted[Listener] /\ createdObserver = None

\* ConnectionAccepted: what is offered while the claim is queued is let go
ConnectionAccepted(o) ==
    /\ o \in offers
    /\ "several" \in Conduct \/ Answered
    /\ offers' = offers \ {o}
    /\ IF isQueued[Listener]
       THEN UNCHANGED <<claimVars, exclusiveConnection>>
       ELSE RequestCloseConnection /\ Resource!ClaimWith(Listener, o, FALSE)
    /\ UNCHANGED <<connector, createdObserver, answers, crash>>

\* Nothing refers to the listener any more: see access
Unreferenced(o) == answers' = answers \ {o}

AnswerListener(o) ==
    /\ o \in answers
    /\ IF exclusiveConnection # "none" \/ createdObserver = None
       THEN Crash
       ELSE /\ CreateConnection(Listener)
            /\ createdObserver' = None
            /\ Unreferenced(o)
            /\ UNCHANGED <<connector, offers, crash>>

\* The assertion in Attach
AnswerNull(o) == "null" \in Conduct /\ o \in answers /\ Crash

\* The factory lets go what it was given in ConnectionAccepted
DiscardAnswer(o) ==
    /\ Unreferenced(o)
    /\ IF answers = {o} /\ createdObserver # None
       THEN createdObserver' = None /\ Resource!Release(Listener)
       ELSE UNCHANGED <<claimVars, createdObserver>>
    /\ UNCHANGED <<exclusiveConnection, connector, offers, crash>>

DiscardListener(o) == o \in answers /\ DiscardAnswer(o)

---------------------------------------------------------------------------
(* A claim is granted: the Connector connects, or the listener offers what *)
(* it has accepted to the factory above.                                   *)

\* The claim that is granted is one of the listener
ListenerClaim(claim) == claim \in Offers

Granted ==
    /\ Resource!ReEvaluateClaim
    /\ LET claim == IF currentClaim = None /\ ClaimsPending THEN onGranted[Head(pendingClaims)] ELSE None
       IN  /\ connector' = IF claim \in Connectors
                           THEN [connector EXCEPT ![claim] = "connection"] ELSE connector
           /\ createdObserver' = IF ListenerClaim(claim) THEN claim ELSE createdObserver
           /\ answers' = IF ListenerClaim(claim) THEN answers \cup {claim} ELSE answers
    /\ UNCHANGED <<exclusiveConnection, offers, crash>>

Answer(k) == AnswerConnector(k) \/ DiscardConnector(k)
AnswerOffer(o) == AnswerListener(o) \/ AnswerNull(o) \/ DiscardListener(o)

\* A connection that was dropped is destructed before the call that made it returns
Next ==
    /\ ~crash
    /\ \/ Detaching
       \/ /\ exclusiveConnection # "dropped"
          /\ \/ Granted
             \/ \E k \in Connectors : \/ Connect(k) \/ CancelConnect(k)
                                      \/ ConnectionEstablished(k) \/ ConnectionFailed(k)
                                      \/ Answer(k)
             \/ \E o \in Offers : ConnectionAccepted(o) \/ AnswerOffer(o)

Spec == Init /\ [][Next]_vars

(***************************************************************************)
(* The event dispatcher executes what is scheduled, the factory below      *)
(* ends each attempt to connect, those above answer or let go, and an      *)
(* observer that was asked to close does so.                               *)
(***************************************************************************)
Fairness ==
    /\ WF_vars(Next /\ Granted)
    /\ WF_vars(Next /\ exclusiveConnection # "open" /\ Detaching)
    /\ \A k \in Connectors :
          /\ WF_vars(Next /\ (ConnectionEstablished(k) \/ ConnectionFailed(k)))
          /\ WF_vars(Next /\ Answer(k))
    /\ \A o \in Offers : WF_vars(Next /\ AnswerOffer(o))

FairSpec == Spec /\ Fairness

---------------------------------------------------------------------------
(* Properties *)

\* No assertion fails: in particular, no connection is made while another exists.
NeverCrashes == ~crash

\* A connection exists only while the mutex holds the claim for it.
HoldsClaim == exclusiveConnection # "none" => currentClaim = Mutex

\* While others wait, the connection that they wait for has been asked to close,
\* in whichever order the connection was made and the others came.
AskedToClose == exclusiveConnection = "open" => ~ClaimsPending

\* Nothing is lost for the listener below: an offer that was granted is with the
\* factory above, or has been answered.
OfferAnswered == createdObserver # None => createdObserver \in answers

\* Every attempt to connect ends, however many others there are.
ConnectsEnd == \A k \in Connectors : connector[k] # "none" ~> connector[k] = "none"
===========================================================================
