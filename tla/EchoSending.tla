---- MODULE EchoSending ----
(***************************************************************************)
(* The sending side of protobuf/echo/EchoOnStreams.cpp, on Sesame:         *)
(* service proxies queue for a stream, one of them at a time asks Sesame   *)
(* for streams until its whole message is written. The peer may initialize *)
(* the connection again at any moment, and proxies are destroyed while     *)
(* they wait.                                                              *)
(*                                                                         *)
(* Sesame keeps a request over an initialization, and answers it once. A   *)
(* proxy that asks again from inside its onGranted does so in a step of    *)
(* its own: nothing in EchoOnStreams depends on the difference.            *)
(***************************************************************************)
EXTENDS Integers, Sequences

CONSTANTS Proxies, None,
          MaxParts,             \* the most streams a message takes
          MaxInitialized,       \* bound: initializations between two resets
          MaxResets,            \* bound: resets
          DestroyWhileSending   \* whether a proxy may be destroyed while its message is partly sent

Assumptions ==
    /\ None \notin Proxies
    /\ MaxParts \in Nat \ {0} /\ MaxInitialized \in Nat /\ MaxResets \in Nat
    /\ DestroyWhileSending \in BOOLEAN

VARIABLES
    sendRequesters,    \* the queue of proxies
    sendingProxy,      \* the proxy that asked for the current stream, or None
    methodSerializer,  \* the proxy whose message is being serialized, or None
    sendingProxySize,  \* streams that its message still needs
    partlySent, skipNextStream,
    writer,            \* countingSentWriter: a stream is being written to
    initialized, delayed,   \* EchoOnSesame: the connection is up; a request waits for that (requestedSize)
    requested,         \* Sesame owes a stream
    onGranted,         \* proxies that wait to be granted
    alive,             \* proxies that are not destroyed
    initializations, resets

streamVars == <<delayed, requested>>
boundVars == <<initializations, resets>>
vars == <<sendRequesters, sendingProxy, methodSerializer, sendingProxySize, partlySent, skipNextStream, writer,
          initialized, streamVars, onGranted, alive, boundVars>>

TypeOK ==
    /\ sendRequesters \in Seq(Proxies)
    /\ sendingProxy \in Proxies \cup {None} /\ methodSerializer \in Proxies \cup {None}
    /\ sendingProxySize \in 0 .. MaxParts
    /\ partlySent \in BOOLEAN /\ skipNextStream \in BOOLEAN /\ writer \in BOOLEAN
    /\ initialized \in BOOLEAN /\ delayed \in BOOLEAN /\ requested \in BOOLEAN
    /\ onGranted \subseteq Proxies /\ alive \subseteq Proxies
    /\ initializations \in 0 .. MaxInitialized /\ resets \in 0 .. MaxResets

Init ==
    /\ sendRequesters = <<>>
    /\ sendingProxy = None /\ methodSerializer = None /\ sendingProxySize = 0
    /\ partlySent = FALSE /\ skipNextStream = FALSE /\ writer = FALSE
    /\ initialized = FALSE /\ delayed = FALSE /\ requested = FALSE
    /\ onGranted = {} /\ alive = Proxies
    /\ initializations = 0 /\ resets = 0

----------------------------------------------------------------------------
Queued == {sendRequesters[i] : i \in 1 .. Len(sendRequesters)}
Position(s, p) == CHOOSE i \in 1 .. Len(s) : s[i] = p

\* IntrusiveList::erase, of a proxy that is in the queue
Without(s, p) == [i \in 1 .. Len(s) - 1 |-> s[IF i < Position(s, p) THEN i ELSE i + 1]]

\* EchoOnSesame::RequestSendStream; owed: whether Sesame owes a stream by then
RequestSendStream(owed) ==
    /\ requested' = (initialized \/ owed)
    /\ delayed' = (delayed \/ ~initialized)

\* TryGrantSend, with the queue, the sending proxy and skipNextStream as they are by then
TryGrantSend(queue, sending, skip, owed) ==
    IF ~skip /\ sending = None /\ queue # <<>>
      THEN sendingProxy' = Head(queue) /\ sendRequesters' = Tail(queue) /\ RequestSendStream(owed)
      ELSE sendingProxy' = sending /\ sendRequesters' = queue /\ requested' = owed /\ UNCHANGED delayed

\* ServiceProxy::RequestSend and EchoOnStreams::RequestSend. A second request of a
\* proxy before it is granted is an error of the application.
RequestSend(p) ==
    /\ p \in alive \ onGranted
    /\ onGranted' = onGranted \cup {p}
    /\ TryGrantSend(Append(sendRequesters, p), sendingProxy, skipNextStream, requested)
    /\ UNCHANGED <<methodSerializer, sendingProxySize, partlySent, skipNextStream, writer, initialized, alive, boundVars>>

\* A variant with a mistake: nobody takes the stream that was requested
CancelWithoutSkip(p) ==
    /\ sendRequesters' = IF p \in Queued THEN Without(sendRequesters, p) ELSE sendRequesters
    /\ sendingProxy' = IF sendingProxy = p /\ p \notin Queued THEN None ELSE sendingProxy
    /\ UNCHANGED skipNextStream

\* EchoOnStreams::CancelRequestSend: the stream that was requested for the proxy will still come
CancelRequestSend(p) ==
    IF p \in Queued
      THEN sendRequesters' = Without(sendRequesters, p) /\ UNCHANGED <<sendingProxy, skipNextStream>>
      ELSE sendingProxy' = None /\ skipNextStream' = TRUE /\ UNCHANGED sendRequesters

\* ServiceProxy::~ServiceProxy
Destroy(p) ==
    /\ p \in alive
    /\ sendingProxy = p /\ methodSerializer = p => DestroyWhileSending
    /\ alive' = alive \ {p}
    /\ onGranted' = onGranted \ {p}
    /\ IF p \in onGranted THEN CancelRequestSend(p) ELSE UNCHANGED <<sendRequesters, sendingProxy, skipNextStream>>
    /\ UNCHANGED <<methodSerializer, sendingProxySize, partlySent, writer, initialized, streamVars, boundVars>>

----------------------------------------------------------------------------
\* StreamWriterDone: the next part of the message, or the next proxy
StreamWriterDone(partly, serializer, owed) ==
    IF partly
      THEN methodSerializer' = serializer /\ RequestSendStream(owed) /\ UNCHANGED <<sendingProxy, sendRequesters>>
      ELSE methodSerializer' = None /\ TryGrantSend(sendRequesters, None, skipNextStream, owed)

\* SendStreamAvailable with a stream that nobody is waiting for any more
SkipStream ==
    /\ requested /\ skipNextStream
    /\ skipNextStream' = FALSE
    /\ TryGrantSend(sendRequesters, sendingProxy, FALSE, FALSE)
    /\ UNCHANGED <<methodSerializer, sendingProxySize, partlySent, writer, initialized, onGranted, alive, boundVars>>

\* SendStreamAvailable: the proxy is granted unless its message is partly sent already, and the
\* message, of this many parts, is serialized as far as it fits. A serializer may hold on to the
\* writer (keep), as that of ServiceForwarder does; otherwise the writer is done after Serialize.
SendStreamAvailable(keep, parts) ==
    LET first == methodSerializer = None
        serializer == IF first THEN sendingProxy ELSE methodSerializer
        left == (IF first THEN parts ELSE sendingProxySize) - 1
    IN  /\ requested /\ ~skipNextStream
        /\ onGranted' = IF first THEN onGranted \ {sendingProxy} ELSE onGranted
        /\ sendingProxySize' = left
        /\ partlySent' = (left > 0)
        /\ writer' = keep
        /\ IF keep
             THEN methodSerializer' = serializer /\ requested' = FALSE /\ UNCHANGED <<sendingProxy, sendRequesters, delayed>>
             ELSE StreamWriterDone(left > 0, serializer, FALSE)
        /\ UNCHANGED <<skipNextStream, initialized, alive, boundVars>>

\* The serializer releases the writer
ReleaseWriter ==
    /\ writer
    /\ writer' = FALSE
    /\ StreamWriterDone(partlySent, methodSerializer, requested)
    /\ UNCHANGED <<sendingProxySize, partlySent, skipNextStream, initialized, onGranted, alive, boundVars>>

----------------------------------------------------------------------------
\* EchoOnSesame::Initialized and EchoOnStreams::Initialized: the rest of a message that is
\* partly sent is dropped, together with the stream that was requested for it
Initialized ==
    /\ initializations < MaxInitialized
    /\ initializations' = initializations + 1
    /\ sendingProxy' = IF partlySent THEN None ELSE sendingProxy
    /\ methodSerializer' = IF partlySent THEN None ELSE methodSerializer
    /\ skipNextStream' = (skipNextStream \/ partlySent)
    /\ initialized' = TRUE /\ delayed' = FALSE
    /\ requested' = (requested \/ delayed)
    /\ UNCHANGED <<sendRequesters, sendingProxySize, partlySent, writer, onGranted, alive, resets>>

\* EchoOnSesame::Reset, EchoOnStreams::Reset and what Sesame forgets at its Reset. A stream that
\* is being written to is an error of the application: really_assert(countingSentWriter.Allocatable()).
Reset ==
    /\ resets < MaxResets /\ ~writer
    /\ resets' = resets + 1 /\ initializations' = 0
    /\ onGranted' = onGranted \ (Queued \cup {sendingProxy})
    /\ sendRequesters' = <<>> /\ sendingProxy' = None /\ methodSerializer' = None /\ sendingProxySize' = 0
    /\ partlySent' = FALSE /\ skipNextStream' = FALSE
    /\ initialized' = FALSE /\ delayed' = FALSE /\ requested' = FALSE
    /\ UNCHANGED <<writer, alive>>

Next ==
    \/ \E p \in Proxies : RequestSend(p) \/ Destroy(p)
    \/ SkipStream
    \/ \E keep \in BOOLEAN, parts \in 1 .. MaxParts : SendStreamAvailable(keep, parts)
    \/ ReleaseWriter
    \/ Initialized
    \/ Reset

\* Sesame keeps delivering the streams it owes (SesameWindowed, MessageEventuallySent), serializers
\* release their writers, and a connection that is not initialized is going to be.
Fairness ==
    /\ WF_vars(SkipStream)
    /\ WF_vars(\E keep \in BOOLEAN, parts \in 1 .. MaxParts : SendStreamAvailable(keep, parts))
    /\ WF_vars(ReleaseWriter)
    /\ WF_vars(~initialized /\ Initialized)

Spec == Init /\ [][Next]_vars /\ Fairness

----------------------------------------------------------------------------
(* Properties *)

\* A proxy waits exactly as long as EchoOnStreams knows about it: in the queue, or as the proxy whose
\* stream was requested. So nobody is forgotten, nobody is granted twice, and the really_assert in
\* CancelRequestSend (line 88) never fails.
WaitersKnown ==
    /\ onGranted = Queued \cup (IF methodSerializer = None THEN {sendingProxy} \ {None} ELSE {})
    /\ \A i, j \in 1 .. Len(sendRequesters) : sendRequesters[i] = sendRequesters[j] => i = j

\* A stream is only waited for while one is going to come, and one that comes is taken by the proxy it was
\* requested for or is skipped: SendStreamAvailable dereferences sendingProxy without a check (line 180).
StreamHasOwner ==
    LET coming == requested \/ delayed \/ (writer /\ partlySent)
    IN  /\ coming => skipNextStream \/ sendingProxy # None
        /\ skipNextStream => coming
        /\ sendingProxy # None => coming \/ writer
        /\ methodSerializer # None => sendingProxy = methodSerializer

\* Reset calls CancelRequestSend on the sending proxy, which must not be destroyed by then
SendingProxyAlive == sendingProxy # None /\ ~writer => sendingProxy \in alive

\* ECHO knows every proxy that waits to send, once, and a stream that arrives is taken by the proxy that
\* it was requested for, which still exists, or skipped.
RequestsKept == WaitersKnown /\ StreamHasOwner /\ SendingProxyAlive

\* A proxy that requests to send is granted, unless it is destroyed or the connection is reset
EventuallyGranted == \A p \in Proxies : p \in onGranted ~> p \notin onGranted
====
