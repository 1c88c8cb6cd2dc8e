---- MODULE ClaimableResource ----
(***************************************************************************)
(* infra/event/ClaimableResource.cpp: claimers queue for a resource that   *)
(* one of them holds at a time. It is handed over by an action on the      *)
(* event dispatcher, so claims, releases, moves and destructions happen    *)
(* between a hand-over being scheduled and it taking place.                *)
(*                                                                         *)
(* All of it runs on the dispatching thread: each call is one step. A call *)
(* made from inside onGranted is a step after ReEvaluateClaim, which does  *)
(* nothing after it has called onGranted.                                  *)
(***************************************************************************)
EXTENDS Integers, Sequences, FiniteSets

CONSTANTS Claimers,  \* the objects
          Claims,    \* identities of calls of Claim: the onGranted given to it
          None       \* no claimer, or no onGranted

ASSUME NoneAssumption == None \notin Claimers /\ None \notin Claims

VARIABLES
    pendingClaims,             \* claimers, in the order in which they will be granted
    currentClaim,              \* the claimer that holds the resource, or None
    reEvaluateClaimScheduled,  \* ReEvaluateClaim is on the event dispatcher
    isGranted, isQueued,       \* what each claimer believes
    onGranted,                 \* each claimer's callback
    arrived,                   \* history: claims that are neither granted nor released, oldest first
    urgent                     \* history: those of them that were made by ClaimUrgent

vars == <<pendingClaims, currentClaim, reEvaluateClaimScheduled, isGranted, isQueued, onGranted, arrived, urgent>>

TypeOK ==
    /\ pendingClaims \in Seq(Claimers)
    /\ currentClaim \in Claimers \cup {None}
    /\ reEvaluateClaimScheduled \in BOOLEAN
    /\ isGranted \in [Claimers -> BOOLEAN]
    /\ isQueued \in [Claimers -> BOOLEAN]
    /\ onGranted \in [Claimers -> Claims \cup {None}]
    /\ arrived \in Seq(Claims)
    /\ urgent \subseteq Claims

Init ==
    /\ pendingClaims = <<>>
    /\ currentClaim = None
    /\ reEvaluateClaimScheduled = FALSE
    /\ isGranted = [c \in Claimers |-> FALSE]
    /\ isQueued = [c \in Claimers |-> FALSE]
    /\ onGranted = [c \in Claimers |-> None]
    /\ arrived = <<>>
    /\ urgent = {}

----------------------------------------------------------------------------
InSeq(x, s) == \E i \in 1 .. Len(s) : s[i] = x
IndexOf(x, s) == CHOOSE i \in 1 .. Len(s) : s[i] = x

\* IntrusiveList::erase: nothing happens for an element that is not in the list
Erase(s, x) == IF InSeq(x, s)
               THEN [i \in 1 .. Len(s) - 1 |-> IF i < IndexOf(x, s) THEN s[i] ELSE s[i + 1]]
               ELSE s

\* The claim is no longer outstanding
Forget(k) == /\ arrived' = Erase(arrived, k)
             /\ urgent' = urgent \ {k}

----------------------------------------------------------------------------
(* ClaimableResource *)

\* A variant with a mistake: urgent claims queue like the others
AddClaimAtBack(c, isUrgent) ==
    /\ pendingClaims' = Append(pendingClaims, c)
    /\ reEvaluateClaimScheduled' = (reEvaluateClaimScheduled \/ currentClaim = None)
    /\ UNCHANGED currentClaim

\* AddClaim: the hand-over is scheduled when nobody holds the resource
AddClaim(c, isUrgent) ==
    /\ pendingClaims' = IF isUrgent THEN <<c>> \o pendingClaims ELSE Append(pendingClaims, c)
    /\ reEvaluateClaimScheduled' = (reEvaluateClaimScheduled \/ currentClaim = None)
    /\ UNCHANGED currentClaim

\* A variant with a mistake: the resource is not handed over
RemoveClaimOnly(c, r) ==
    IF r.current = c THEN [r EXCEPT !.current = None] ELSE [r EXCEPT !.pending = Erase(r.pending, c)]

\* The resource's state after RemoveClaim(c), given the state before it
RemoveClaim(c, r) ==
    IF r.current = c THEN [r EXCEPT !.current = None, !.scheduled = TRUE]
                     ELSE [r EXCEPT !.pending = Erase(r.pending, c)]

\* A variant with a mistake: only the current claim is updated, not the queue
ReplaceClaimCurrent(old, new, r) == [r EXCEPT !.current = IF @ = old THEN new ELSE @]

ReplaceClaim(old, new, r) ==
    [pending |-> [i \in 1 .. Len(r.pending) |-> IF r.pending[i] = old THEN new ELSE r.pending[i]],
     current |-> IF r.current = old THEN new ELSE r.current,
     scheduled |-> r.scheduled]

Resource == [pending |-> pendingClaims, current |-> currentClaim, scheduled |-> reEvaluateClaimScheduled]

ResourceBecomes(r) == /\ pendingClaims' = r.pending
                      /\ currentClaim' = r.current
                      /\ reEvaluateClaimScheduled' = r.scheduled

\* The scheduled action: grant to the first in the queue, and call its onGranted,
\* which is reset before it is called
ReEvaluateClaim ==
    /\ reEvaluateClaimScheduled
    /\ reEvaluateClaimScheduled' = FALSE
    /\ IF currentClaim = None /\ pendingClaims # <<>>
       THEN LET c == Head(pendingClaims)
            IN  /\ currentClaim' = c
                /\ pendingClaims' = Tail(pendingClaims)
                /\ isQueued' = [isQueued EXCEPT ![c] = FALSE]
                /\ isGranted' = [isGranted EXCEPT ![c] = TRUE]
                /\ onGranted' = [onGranted EXCEPT ![c] = None]
                /\ Forget(onGranted[c])
       ELSE UNCHANGED <<currentClaim, pendingClaims, isQueued, isGranted, onGranted, arrived, urgent>>

----------------------------------------------------------------------------
(* Claimer *)

\* Claim and ClaimUrgent; really_assert: the previous onGranted is not pending
ClaimWith(c, k, isUrgent) ==
    /\ onGranted[c] = None
    /\ k \notin {onGranted[d] : d \in Claimers}
    /\ onGranted' = [onGranted EXCEPT ![c] = k]
    /\ isQueued' = [isQueued EXCEPT ![c] = TRUE]
    /\ AddClaim(c, isUrgent)
    /\ arrived' = Append(arrived, k)
    /\ urgent' = IF isUrgent THEN urgent \cup {k} ELSE urgent
    /\ UNCHANGED isGranted

Claim(c) == \E k \in Claims : ClaimWith(c, k, FALSE)
ClaimUrgent(c) == \E k \in Claims : ClaimWith(c, k, TRUE)

\* Releases what is granted, or else withdraws what is queued
Release(c) ==
    /\ isQueued' = [isQueued EXCEPT ![c] = isQueued[c] /\ isGranted[c]]
    /\ isGranted' = [isGranted EXCEPT ![c] = FALSE]
    /\ ResourceBecomes(RemoveClaim(c, Resource))
    /\ IF isGranted[c] THEN UNCHANGED <<onGranted, arrived, urgent>>
       ELSE /\ onGranted' = [onGranted EXCEPT ![c] = None]
            /\ Forget(onGranted[c])

\* ReleaseAllClaims: the resource after releasing what is granted and then
\* withdrawing what is queued
AllReleased(c, r) ==
    LET released == IF isGranted[c] THEN RemoveClaim(c, r) ELSE r
    IN  IF isQueued[c] THEN RemoveClaim(c, released) ELSE released

\* The destructor. The name c may then be used for a new claimer.
Destroy(c) ==
    /\ isGranted[c] \/ isQueued[c]
    /\ ResourceBecomes(AllReleased(c, Resource))
    /\ isGranted' = [isGranted EXCEPT ![c] = FALSE]
    /\ isQueued' = [isQueued EXCEPT ![c] = FALSE]
    /\ onGranted' = [onGranted EXCEPT ![c] = None]
    /\ Forget(onGranted[c])

\* operator=(Claimer&& from), and the move constructor when c has no claims
Move(c, from) ==
    /\ c # from
    /\ LET released == AllReleased(c, Resource)
       IN  ResourceBecomes(IF isQueued[from] \/ isGranted[from]
                           THEN ReplaceClaim(from, c, released) ELSE released)
    /\ isGranted' = [isGranted EXCEPT ![c] = isGranted[from], ![from] = FALSE]
    /\ isQueued' = [isQueued EXCEPT ![c] = isQueued[from], ![from] = FALSE]
    /\ onGranted' = [onGranted EXCEPT ![c] = onGranted[from], ![from] = None]
    /\ Forget(onGranted[c])

----------------------------------------------------------------------------
Next ==
    \/ ReEvaluateClaim
    \/ \E c \in Claimers : Claim(c) \/ ClaimUrgent(c) \/ Release(c) \/ Destroy(c)
    \/ \E c, from \in Claimers : Move(c, from)

\* The dispatcher executes what is scheduled, and whoever holds the resource
\* releases it in the end, under whichever name its claimer was moved to.
ReleaseGranted == \E c \in Claimers : isGranted[c] /\ Release(c)
Fairness == WF_vars(ReEvaluateClaim) /\ WF_vars(ReleaseGranted)

Spec == Init /\ [][Next]_vars
FairSpec == Spec /\ Fairness

----------------------------------------------------------------------------
(* Properties *)

\* A claimer believes that it holds the resource exactly when it does: at most
\* one does, through releases, moves and destructions.
GrantInv == \A c \in Claimers : isGranted[c] <=> currentClaim = c

\* A claimer is in the queue, once, exactly when it believes it is, and that is
\* when its onGranted is pending: after a Release, Claim never meets a stale callback.
QueuedInv ==
    /\ \A c \in Claimers : isQueued[c] <=> InSeq(c, pendingClaims)
    /\ \A i, j \in 1 .. Len(pendingClaims) : pendingClaims[i] = pendingClaims[j] => i = j
    /\ \A c \in Claimers : isQueued[c] <=> onGranted[c] # None

\* A free resource with claimers waiting for it is about to be handed over.
HandOverInv == currentClaim = None /\ pendingClaims # <<>> => reEvaluateClaimScheduled

\* Whoever looks at a claim sees the same: claimer, queue and resource agree, and
\* nobody waits for a free resource that is not about to be handed over.
ClaimsInv == TypeOK /\ GrantInv /\ QueuedInv /\ HandOverInv

\* Claims are granted in the order in which they were made, except that urgent
\* ones come before all others, the last one first; moving a claimer keeps its place.
\* The queue holds exactly the claims that are outstanding, each once.
Precedes(x, y, s) == \E i, j \in 1 .. Len(s) : i < j /\ s[i] = x /\ s[j] = y
GrantedBefore(k, l) == IF l \in urgent THEN k \in urgent /\ Precedes(l, k, arrived)
                                       ELSE k \in urgent \/ Precedes(k, l, arrived)
OrderInv ==
    /\ \A i, j \in 1 .. Len(arrived) : arrived[i] = arrived[j] => i = j
    /\ \A k \in Claims : InSeq(k, arrived) <=> \E c \in Claimers : isQueued[c] /\ onGranted[c] = k
    /\ \A c, d \in Claimers : Precedes(c, d, pendingClaims) => GrantedBefore(onGranted[c], onGranted[d])

\* Every claim is granted or withdrawn in the end, unless urgent claims keep coming.
EventuallyGranted ==
    <>[][\A c \in Claimers : ~ClaimUrgent(c)]_vars
        => \A k \in Claims : InSeq(k, arrived) ~> ~InSeq(k, arrived)
====
