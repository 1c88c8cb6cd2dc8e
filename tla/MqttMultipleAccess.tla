------------------------ MODULE MqttMultipleAccess ------------------------
(***************************************************************************)
(* services/network/MqttMultipleAccess.cpp: several users share one MQTT   *)
(* client.  The master is the observer of the client and a resource; each  *)
(* access claims it to publish or subscribe, and the module is composed    *)
(* with ClaimableResource for that.  The client below, which may be lost   *)
(* and replaced at any time, does one operation at a time (MqttClient).    *)
(***************************************************************************)
EXTENDS Integers, Sequences

CONSTANTS
    Accesses,       \* the objects of class MqttMultipleAccess
    None,
    Conduct         \* what may happen to claims that are outstanding

AccessesAssumption == None \notin Accesses /\ "dangling" \notin Accesses

(***************************************************************************)
(* "lostActive": the client is lost while an operation is in progress      *)
(* "lostQueued": the client is lost while accesses wait for their turn     *)
(* "destroy":    an access is destroyed during its operation               *)
(* "abandon":    an access is destroyed after it has subscribed            *)
(***************************************************************************)
ConductAssumption == Conduct \subseteq {"lostActive", "lostQueued", "destroy", "abandon"}

Assumptions == AccessesAssumption /\ ConductAssumption

VARIABLES
    pendingClaims, currentClaim, reEvaluateClaimScheduled, isGranted, isQueued,
    onGranted, arrived, urgent,     \* the claims, see ClaimableResource
    accesses,       \* the accesses that exist: those of which this is the list
    attached,       \* the master is attached to a client
    active,         \* the access whose operation is in progress
    busy,           \* the operation that the client does
    wants,          \* what each access's observer has asked, and was not told to be done
    subscribed,     \* whose topics the broker sends notifications of
    notified,       \* the access that received the current notification
    crash           \* an assertion failed, or an object that is gone was used

claimVars == <<pendingClaims, currentClaim, reEvaluateClaimScheduled, isGranted,
               isQueued, onGranted, arrived, urgent>>
vars == <<claimVars, accesses, attached, active, busy, wants, subscribed, notified, crash>>

Operations == {"Publish", "Subscribe"}

Resource == INSTANCE ClaimableResource
                WITH Claimers <- Accesses, Claims <- Accesses \X Operations

TypeOK ==
    /\ Resource!TypeOK
    /\ accesses \subseteq Accesses
    /\ attached \in BOOLEAN
    /\ active \in Accesses \cup {None, "dangling"}
    /\ busy \in Operations \cup {None}
    /\ wants \in [Accesses -> Operations \cup {None}]
    /\ subscribed \subseteq Accesses
    /\ notified \in Accesses \cup {None}
    /\ crash \in BOOLEAN

Init ==
    /\ Resource!Init
    /\ accesses = {}
    /\ attached = FALSE
    /\ active = None
    /\ busy = None
    /\ wants = [a \in Accesses |-> None]
    /\ subscribed = {}
    /\ notified = None
    /\ crash = FALSE

Crash == crash' = TRUE /\ UNCHANGED <<claimVars, accesses, attached, active, busy, wants, subscribed, notified>>

---------------------------------------------------------------------------
(* The accesses. Their observers act only when they are attached. *)

IsAttached(a) == a \in accesses /\ attached

Construct(a) ==
    /\ a \notin accesses
    /\ accesses' = accesses \cup {a}
    /\ UNCHANGED <<claimVars, attached, active, busy, wants, subscribed, notified, crash>>

MayDestroy(a) ==
    /\ a \in accesses
    /\ notified # a
    /\ isGranted[a] => "destroy" \in Conduct
    /\ a \in subscribed => "abandon" \in Conduct

(***************************************************************************)
(* The destructor, which detaches the observer, and the destructor of the  *)
(* claimer, which gives up its claims.  The master's active is left alone. *)
(***************************************************************************)
Destroy(a) ==
    /\ MayDestroy(a)
    /\ accesses' = accesses \ {a}
    /\ wants' = [wants EXCEPT ![a] = None]
    /\ active' = IF active = a THEN "dangling" ELSE active
    /\ Resource!Destroy(a) \/ (~isGranted[a] /\ ~isQueued[a] /\ UNCHANGED claimVars)
    /\ UNCHANGED <<attached, busy, subscribed, notified, crash>>

(***************************************************************************)
(* Publish and Subscribe.  Claim asserts that the previous claim is not    *)
(* waiting any more.                                                       *)
(***************************************************************************)
Request(a, operation) ==
    /\ IsAttached(a)
    /\ wants[a] = None
    /\ IF onGranted[a] # None
       THEN Crash
       ELSE /\ Resource!ClaimWith(a, <<a, operation>>, FALSE)
            /\ wants' = [wants EXCEPT ![a] = operation]
            /\ UNCHANGED <<accesses, attached, active, busy, subscribed, notified, crash>>

Publish(a) == Request(a, "Publish")
Subscribe(a) == Request(a, "Subscribe")

\* Whose turn it is
OldestClaim == Head(pendingClaims)

(***************************************************************************)
(* The claim's turn: MqttMultipleAccessMaster::Publish and Subscribe       *)
(* assert that no other access is active, and use the client.              *)
(***************************************************************************)
Granted ==
    IF reEvaluateClaimScheduled /\ currentClaim = None /\ pendingClaims # <<>>
    THEN IF active # None \/ ~attached
         THEN Crash
         ELSE /\ Resource!ReEvaluateClaim
              /\ active' = OldestClaim
              /\ busy' = onGranted[Head(pendingClaims)][2]
              /\ UNCHANGED <<accesses, attached, wants, subscribed, notified, crash>>
    ELSE /\ Resource!ReEvaluateClaim
         /\ UNCHANGED <<accesses, attached, active, busy, wants, subscribed, notified, crash>>

NotificationDone(a) ==
    /\ IsAttached(a)
    /\ notified = a
    /\ notified' = None
    /\ UNCHANGED <<claimVars, accesses, attached, active, busy, wants, subscribed, crash>>

---------------------------------------------------------------------------
(* The master, as the observer of the client *)

\* ReleaseActive, and the release of the claim
ReleaseActive ==
    /\ active' = None
    /\ Resource!Release(active)

\* PublishDone and SubscribeDone: passed on to the access that is active
Done ==
    /\ busy # None
    /\ IF active \notin accesses
       THEN Crash
       ELSE /\ ReleaseActive
            /\ busy' = None
            /\ wants' = [wants EXCEPT ![active] = None]
            /\ subscribed' = IF busy = "Subscribe" THEN subscribed \cup {active} ELSE subscribed
            /\ UNCHANGED <<accesses, attached, notified, crash>>

(***************************************************************************)
(* ReceivedNotification: the access that knows the topic takes it; abort   *)
(* when there is none.                                                     *)
(***************************************************************************)
ReceivedNotification(a) ==
    /\ attached
    /\ a \in subscribed
    /\ notified = None
    /\ IF a \notin accesses
       THEN Crash
       ELSE /\ notified' = a
            /\ UNCHANGED <<claimVars, accesses, attached, active, busy, wants, subscribed, crash>>

\* The master is attached to a (new) client, and with it all accesses
Attached ==
    /\ ~attached
    /\ attached' = TRUE
    /\ UNCHANGED <<claimVars, accesses, active, busy, wants, subscribed, notified, crash>>

MayLose ==
    \/ currentClaim = None /\ pendingClaims = <<>>
    \/ "lostActive" \in Conduct /\ pendingClaims = <<>>
    \/ "lostQueued" \in Conduct /\ pendingClaims # <<>>

\* After Detaching, no observer waits for an operation
Forgotten == [a \in Accesses |-> None]

\* The client is lost, or an access disconnects it; all observers are detached
Detaching ==
    /\ attached
    /\ MayLose
    /\ attached' = FALSE
    /\ busy' = None
    /\ wants' = Forgotten
    /\ subscribed' = {}
    /\ notified' = None
    /\ UNCHANGED <<claimVars, accesses, active, crash>>

---------------------------------------------------------------------------
Next ==
    /\ ~crash
    /\ \/ \E a \in Accesses : \/ Construct(a) \/ Destroy(a)
                              \/ Publish(a) \/ Subscribe(a)
                              \/ ReceivedNotification(a) \/ NotificationDone(a)
       \/ Granted
       \/ Done
       \/ Attached
       \/ Detaching

Spec == Init /\ [][Next]_vars

\* The event dispatcher executes what is scheduled, and the client finishes
\* each operation or is lost (MqttClientImpl has a timeout for each).
FairSpec == Spec /\ WF_vars(~crash /\ Granted) /\ WF_vars(~crash /\ Done)

---------------------------------------------------------------------------
(* Properties *)

(***************************************************************************)
(* While the client works for an access, that access waits for exactly     *)
(* that operation: it is told of the end of its own operation.             *)
(***************************************************************************)
DoneToOwner == busy # None => active \in accesses /\ wants[active] = busy

\* Nobody else holds the claim while the client works for an access, also when
\* clients are lost or accesses destroyed.
OneAtATime == busy # None /\ active \in accesses => active = currentClaim

\* No assertion fails, the client is used only when it is there, and active
\* never refers to an access that was destroyed.
NeverCrashes == ~crash

\* What an access asks for is done in the end, or its observer is detached.
OperationsEnd == \A a \in Accesses : wants[a] # None ~> wants[a] = None
===========================================================================
