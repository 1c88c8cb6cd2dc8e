---- MODULE EchoSendingProofs ----
(***************************************************************************)
(* Proofs about EchoSending, for any number of proxies.                    *)
(***************************************************************************)
EXTENDS EchoSending, SequenceTheorems, TLAPS

(***************************************************************************)
(* Initialized (EchoOnStreams.cpp:124) leaves partlySent as it is, so that *)
(* an initialization after one that dropped a message drops the request of *)
(* another proxy. The proofs are about what happens before that: between   *)
(* two resets the peer initializes at most twice.                          *)
(***************************************************************************)
Load == Assumptions /\ MaxInitialized <= 2

----------------------------------------------------------------------------
(* The inductive invariant *)

\* A stream comes only when the connection is up, and a request is delayed only until it is.
ConnectionInv ==
    /\ initialized <=> initializations > 0
    /\ requested => initialized
    /\ delayed => ~initialized
    /\ writer => initialized

\* Where a message is: partly sent as long as it needs streams, unless it was dropped
MessageInv ==
    /\ partlySent <=> sendingProxySize > 0
    /\ partlySent => initialized
    /\ partlySent /\ methodSerializer = None => initializations >= 2
    /\ methodSerializer # None /\ ~writer => partlySent

\* Who is waiting for the stream that was requested, or writes to the one that came
StreamInv ==
    /\ writer => ~requested /\ ~delayed
    /\ writer /\ methodSerializer = None => skipNextStream /\ partlySent
    /\ skipNextStream => sendingProxy = None
    /\ methodSerializer = None => sendingProxy \notin Queued

\* Proxies that wait exist, and so does the one whose message is sent.
AliveInv ==
    /\ onGranted \subseteq alive
    /\ ~DestroyWhileSending /\ sendingProxy # None => sendingProxy \in alive

IInv == TypeOK /\ WaitersKnown /\ StreamHasOwner /\ ConnectionInv /\ MessageInv /\ StreamInv /\ AliveInv

----------------------------------------------------------------------------
(* Lemmas about the queue *)

\* No proxy is in the queue twice.
Once(s) == \A i, j \in 1 .. Len(s) : s[i] = s[j] => i = j
Members(s) == {s[i] : i \in 1 .. Len(s)}

\* Proxies are in a queue.
LEMMA MembersType ==
    ASSUME NEW s \in Seq(Proxies)
    PROVE  Members(s) \subseteq Proxies
  BY DEF Members

\* What a queue is after a proxy was appended to it.
LEMMA AppendedQueue ==
    ASSUME NEW s \in Seq(Proxies), NEW p \in Proxies, Once(s), p \notin Members(s)
    PROVE  /\ Append(s, p) \in Seq(Proxies) /\ Append(s, p) # <<>>
           /\ Once(Append(s, p)) /\ Members(Append(s, p)) = Members(s) \cup {p}
<1> DEFINE a == Append(s, p)
<1>1. /\ a \in Seq(Proxies) /\ Len(s) \in Nat /\ Len(a) = Len(s) + 1
      /\ \A i \in 1 .. Len(s) : a[i] = s[i]
      /\ a[Len(s) + 1] = p
  OBVIOUS
<1> HIDE DEF a
<1>2. Once(a)
  BY <1>1 DEF Once, Members
<1>3. Members(a) = Members(s) \cup {p}
  <2>1. ASSUME NEW i \in 1 .. Len(a) PROVE a[i] \in Members(s) \cup {p}
    BY <1>1 DEF Members
  <2>2. ASSUME NEW i \in 1 .. Len(s) PROVE s[i] \in Members(a)
    BY <1>1 DEF Members
  <2>3. p \in Members(a)
    <3>1. Len(s) + 1 \in 1 .. Len(a)
      BY <1>1
    <3> QED
      BY <1>1, <3>1 DEF Members
  <2> QED
    BY <2>1, <2>2, <2>3 DEF Members
<1>4. a # <<>>
  BY <1>1
<1> QED
  BY <1>1, <1>2, <1>3, <1>4 DEF a

\* What a queue is after the first proxy was taken from it.
LEMMA TailOfQueue ==
    ASSUME NEW s \in Seq(Proxies), Once(s), s # <<>>
    PROVE  /\ Head(s) \in Proxies /\ Tail(s) \in Seq(Proxies) /\ Once(Tail(s))
           /\ Head(s) \notin Members(Tail(s))
           /\ Members(s) = Members(Tail(s)) \cup {Head(s)}
<1> DEFINE r == Tail(s)
           h == Head(s)
<1>1. /\ r \in Seq(Proxies) /\ Len(s) \in Nat \ {0} /\ Len(r) = Len(s) - 1
      /\ \A i \in 1 .. Len(r) : r[i] = s[i + 1]
      /\ h = s[1] /\ h \in Proxies
  OBVIOUS
<1> HIDE DEF r, h
<1>2. Once(r)
  BY <1>1 DEF Once
<1>3. h \notin Members(r)
  <2>1. ASSUME NEW i \in 1 .. Len(r) PROVE r[i] # h
    <3>1. i + 1 \in 1 .. Len(s) /\ i + 1 # 1 /\ 1 \in 1 .. Len(s)
      BY <1>1
    <3> QED
      BY <1>1, <3>1 DEF Once
  <2> QED
    BY <2>1 DEF Members
<1>4. Members(s) = Members(r) \cup {h}
  <2>1. ASSUME NEW i \in 1 .. Len(s) PROVE s[i] \in Members(r) \cup {h}
    <3>1. CASE i = 1
      BY <3>1, <1>1
    <3>2. CASE i # 1
      <4>1. i - 1 \in 1 .. Len(r) /\ r[i - 1] = s[i]
        BY <3>2, <1>1
      <4> QED
        BY <4>1 DEF Members
    <3> QED
      BY <3>1, <3>2
  <2>2. ASSUME NEW i \in 1 .. Len(r) PROVE r[i] \in Members(s)
    <3>1. i + 1 \in 1 .. Len(s) /\ r[i] = s[i + 1]
      BY <1>1
    <3> QED
      BY <3>1 DEF Members
  <2>3. h \in Members(s)
    <3>1. 1 \in 1 .. Len(s)
      BY <1>1
    <3> QED
      BY <1>1, <3>1 DEF Members
  <2> QED
    BY <2>1, <2>2, <2>3 DEF Members
<1> QED
  BY <1>1, <1>2, <1>3, <1>4 DEF r, h

\* What a queue is after a proxy was erased from it.
LEMMA ErasedQueue ==
    ASSUME NEW s \in Seq(Proxies), NEW p \in Members(s), Once(s)
    PROVE  /\ Without(s, p) \in Seq(Proxies) /\ Once(Without(s, p))
           /\ Members(Without(s, p)) = Members(s) \ {p}
<1> DEFINE n == Position(s, p)
           At(i) == IF i < n THEN i ELSE i + 1
           t == Without(s, p)
<1>1. n \in 1 .. Len(s) /\ s[n] = p
  BY DEF Position, Members
<1>2. Len(s) \in Nat /\ \A i \in 1 .. Len(s) : s[i] \in Proxies
  OBVIOUS
<1>3. \A i \in 1 .. Len(s) - 1 : At(i) \in 1 .. Len(s) /\ At(i) # n
  BY <1>1, <1>2
<1>4. t = [i \in 1 .. Len(s) - 1 |-> s[At(i)]]
  BY DEF Without
<1>5. \A i, j \in 1 .. Len(s) - 1 : At(i) = At(j) => i = j
  BY <1>1, <1>2
<1>6. \A j \in 1 .. Len(s) : j # n => \E i \in 1 .. Len(s) - 1 : At(i) = j
  <2> SUFFICES ASSUME NEW j \in 1 .. Len(s), j # n PROVE \E i \in 1 .. Len(s) - 1 : At(i) = j
    OBVIOUS
  <2>1. CASE j < n
    <3>1. j \in 1 .. Len(s) - 1 /\ At(j) = j
      BY <1>1, <1>2, <2>1
    <3> QED
      BY <3>1
  <2>2. CASE j > n
    <3>1. j - 1 \in 1 .. Len(s) - 1 /\ At(j - 1) = j
      BY <1>1, <1>2, <2>2
    <3> QED
      BY <3>1
  <2> QED
    BY <2>1, <2>2, <1>1
<1> HIDE DEF n, At, t
<1>7. t \in Seq(Proxies) /\ Len(t) = Len(s) - 1
  <2>1. Len(s) - 1 \in Nat
    BY <1>1, <1>2
  <2>2. t \in [1 .. Len(s) - 1 -> Proxies]
    BY <1>2, <1>3, <1>4
  <2> QED
    BY <2>1, <2>2
<1>8. \A i \in 1 .. Len(t) : t[i] = s[At(i)]
  BY <1>4, <1>7
<1>9. Once(t)
  BY <1>3, <1>5, <1>7, <1>8 DEF Once
<1>10. \A i \in 1 .. Len(t) : t[i] \in Members(s) \ {p}
  BY <1>1, <1>3, <1>7, <1>8 DEF Once, Members
<1>11. ASSUME NEW q \in Members(s), q # p PROVE q \in Members(t)
  <2>1. PICK j \in 1 .. Len(s) : s[j] = q
    BY DEF Members
  <2>2. j # n
    BY <1>1, <1>11, <2>1
  <2>3. PICK i \in 1 .. Len(t) : At(i) = j
    BY <1>6, <1>7, <2>2
  <2> QED
    BY <1>8, <2>1, <2>3 DEF Members
<1>12. Members(t) = Members(s) \ {p}
  BY <1>10, <1>11 DEF Members
<1> QED
  BY <1>7, <1>9, <1>12 DEF t

----------------------------------------------------------------------------
(* Each step keeps the invariant *)

\* The invariant in terms of the queue, for the steps that change it.
LEMMA QueueFacts ==
    /\ Queued = Members(sendRequesters)
    /\ Queued' = Members(sendRequesters')
    /\ WaitersKnown <=> /\ onGranted = Members(sendRequesters)
                                      \cup (IF methodSerializer = None THEN {sendingProxy} \ {None} ELSE {})
                        /\ Once(sendRequesters)
    /\ WaitersKnown' <=> /\ onGranted' = Members(sendRequesters')
                                      \cup (IF methodSerializer' = None THEN {sendingProxy'} \ {None} ELSE {})
                         /\ Once(sendRequesters')
  BY DEF Queued, WaitersKnown, Members, Once

\* TryGrantSend hands the first of the queue over to the sending proxy, and requests a stream for it.
LEMMA TryGrantStep ==
    ASSUME Load, NEW queue \in Seq(Proxies), Once(queue), NEW sending \in Proxies \cup {None},
           NEW skip \in BOOLEAN, NEW owed \in BOOLEAN, delayed \in BOOLEAN, initialized \in BOOLEAN,
           TryGrantSend(queue, sending, skip, owed)
    PROVE  /\ sendRequesters' \in Seq(Proxies) /\ Once(sendRequesters')
           /\ sendingProxy' \in Proxies \cup {None} /\ requested' \in BOOLEAN /\ delayed' \in BOOLEAN
           /\ Members(sendRequesters') \cup ({sendingProxy'} \ {None}) = Members(queue) \cup ({sending} \ {None})
           /\ sending \notin Members(queue) => sendingProxy' \notin Members(sendRequesters')
           /\ \/ /\ ~skip /\ sending = None /\ sendingProxy' # None
                 /\ requested' = (initialized \/ owed) /\ delayed' = (delayed \/ ~initialized)
              \/ /\ sendingProxy' = sending /\ sendRequesters' = queue /\ requested' = owed /\ delayed' = delayed
<1>0. None \notin Proxies
  BY DEF Load, Assumptions
<1>1. CASE ~skip /\ sending = None /\ queue # <<>>
  <2>1. /\ sendingProxy' = Head(queue) /\ sendRequesters' = Tail(queue)
        /\ requested' = (initialized \/ owed) /\ delayed' = (delayed \/ ~initialized)
    BY <1>1 DEF TryGrantSend, RequestSendStream
  <2>2. /\ Head(queue) \in Proxies /\ Tail(queue) \in Seq(Proxies) /\ Once(Tail(queue))
        /\ Members(queue) = Members(Tail(queue)) \cup {Head(queue)}
        /\ Head(queue) \notin Members(Tail(queue))
    BY <1>1, TailOfQueue
  <2> QED
    BY <1>0, <1>1, <2>1, <2>2
<1>2. CASE ~(~skip /\ sending = None /\ queue # <<>>)
  <2>1. /\ sendingProxy' = sending /\ sendRequesters' = queue
        /\ requested' = owed /\ delayed' = delayed
    BY <1>2 DEF TryGrantSend
  <2> QED
    BY <2>1
<1> QED
  BY <1>1, <1>2

\* The initial state.
LEMMA InitInv == Load /\ Init => IInv
<1> SUFFICES ASSUME Load, Init PROVE IInv
  OBVIOUS
<1>1. TypeOK
  <2>1. 0 \in 0 .. MaxParts /\ 0 \in 0 .. MaxInitialized /\ 0 \in 0 .. MaxResets /\ <<>> \in Seq(Proxies)
    BY DEF Load, Assumptions
  <2> QED
    BY <2>1 DEF Init, TypeOK
<1>2. Members(<<>>) = {} /\ Once(<<>>)
  BY DEF Members, Once
<1>3. WaitersKnown
  BY <1>2, QueueFacts DEF Init
<1> QED
  BY <1>1, <1>2, <1>3, QueueFacts DEF Init, IInv, StreamHasOwner, ConnectionInv, MessageInv, StreamInv, AliveInv

\* A proxy that was not waiting is added.
LEMMA RequestSendStep ==
    ASSUME Load, IInv, NEW p \in Proxies, RequestSend(p)
    PROVE  IInv'
<1>1. TypeOK /\ WaitersKnown /\ StreamHasOwner /\ ConnectionInv /\ MessageInv /\ StreamInv /\ AliveInv
  BY DEF IInv
<1> DEFINE queue == Append(sendRequesters, p)
<1>2. /\ p \in alive /\ p \notin onGranted /\ onGranted' = onGranted \cup {p}
      /\ TryGrantSend(queue, sendingProxy, skipNextStream, requested)
      /\ UNCHANGED <<methodSerializer, sendingProxySize, partlySent, skipNextStream, writer, initialized, alive,
                     initializations, resets>>
  BY DEF RequestSend, boundVars
<1>0. None \notin Proxies
  BY DEF Load, Assumptions
<1>3. queue \in Seq(Proxies) /\ Once(queue) /\ Members(queue) = Members(sendRequesters) \cup {p}
  BY <1>1, <1>2, AppendedQueue, QueueFacts DEF TypeOK
<1> HIDE DEF queue
<1>4. /\ sendRequesters' \in Seq(Proxies) /\ Once(sendRequesters')
      /\ sendingProxy' \in Proxies \cup {None} /\ requested' \in BOOLEAN /\ delayed' \in BOOLEAN
      /\ Members(sendRequesters') \cup ({sendingProxy'} \ {None}) = Members(queue) \cup ({sendingProxy} \ {None})
      /\ sendingProxy \notin Members(queue) => sendingProxy' \notin Members(sendRequesters')
      /\ \/ /\ ~skipNextStream /\ sendingProxy = None /\ sendingProxy' # None
            /\ requested' = (initialized \/ requested) /\ delayed' = (delayed \/ ~initialized)
         \/ /\ sendingProxy' = sendingProxy /\ sendRequesters' = queue
            /\ requested' = requested /\ delayed' = delayed
  BY <1>1, <1>2, <1>3, TryGrantStep DEF TypeOK
<1>5. TypeOK'
  BY <1>1, <1>2, <1>4 DEF TypeOK
<1>6. WaitersKnown'
  <2>1. CASE methodSerializer = None
    BY <2>1, <1>1, <1>2, <1>3, <1>4, QueueFacts
  <2>2. CASE methodSerializer # None
    <3>1. sendingProxy # None
      BY <2>2, <1>1 DEF StreamHasOwner
    <3> QED
      BY <2>2, <3>1, <1>1, <1>2, <1>3, <1>4, QueueFacts
  <2> QED
    BY <2>1, <2>2
<1>7. StreamHasOwner'
  BY <1>1, <1>2, <1>4 DEF StreamHasOwner, StreamInv, MessageInv, ConnectionInv
<1>8. ConnectionInv' /\ MessageInv' /\ StreamInv'
  <2>1. methodSerializer' = None => sendingProxy' \notin Queued'
    <3>1. methodSerializer = None => sendingProxy \notin Members(queue)
      <4>1. methodSerializer = None => sendingProxy = None \/ sendingProxy \in onGranted
        BY <1>1, QueueFacts
      <4>2. None \notin Members(queue)
        BY <1>1, <1>3, <1>0, QueueFacts, MembersType DEF TypeOK
      <4> QED
        BY <4>1, <4>2, <1>1, <1>2, <1>3, QueueFacts DEF StreamInv
    <3> QED
      BY <3>1, <1>2, <1>4, QueueFacts
  <2> QED
    BY <1>1, <1>2, <1>4, <2>1 DEF StreamHasOwner, StreamInv, MessageInv, ConnectionInv
<1>9. AliveInv'
  <2>1. onGranted' \subseteq alive'
    BY <1>1, <1>2 DEF AliveInv
  <2>2. CASE sendingProxy' = sendingProxy
    BY <2>1, <2>2, <1>1, <1>2 DEF AliveInv
  <2>3. CASE sendingProxy' # sendingProxy
    <3>1. sendingProxy = None /\ sendingProxy' # None
      BY <2>3, <1>4
    <3>2. methodSerializer = None
      BY <3>1, <1>1 DEF StreamHasOwner
    <3>3. sendingProxy' \in onGranted'
      BY <3>1, <3>2, <1>2, <1>6, QueueFacts
    <3> QED
      BY <2>1, <3>3 DEF AliveInv
  <2> QED
    BY <2>2, <2>3
<1> QED
  BY <1>5, <1>6, <1>7, <1>8, <1>9 DEF IInv

\* A proxy is destroyed, and taken from the queue, or its stream is going to be skipped.
LEMMA DestroyStep ==
    ASSUME Load, IInv, NEW p \in Proxies, Destroy(p)
    PROVE  IInv'
<1>1. TypeOK /\ WaitersKnown /\ StreamHasOwner /\ ConnectionInv /\ MessageInv /\ StreamInv /\ AliveInv
  BY DEF IInv
<1>2. /\ p \in alive /\ (sendingProxy = p /\ methodSerializer = p => DestroyWhileSending)
      /\ alive' = alive \ {p} /\ onGranted' = onGranted \ {p}
      /\ UNCHANGED <<methodSerializer, sendingProxySize, partlySent, writer, initialized, delayed, requested,
                     initializations, resets>>
  BY DEF Destroy, boundVars, streamVars
<1>3. None \notin Proxies
  BY DEF Load, Assumptions
<1>4. CASE p \notin onGranted
  <2>1. UNCHANGED <<sendRequesters, sendingProxy, skipNextStream>> /\ onGranted' = onGranted
    BY <1>2, <1>4 DEF Destroy
  <2>2. TypeOK'
    BY <1>1, <1>2, <2>1 DEF TypeOK
  <2>3. WaitersKnown'
    BY <1>1, <1>2, <2>1, QueueFacts
  <2>4. StreamHasOwner' /\ ConnectionInv' /\ MessageInv' /\ StreamInv'
    BY <1>1, <1>2, <2>1, QueueFacts DEF StreamHasOwner, StreamInv, MessageInv, ConnectionInv
  <2>5. AliveInv'
    <3>1. sendingProxy = p => methodSerializer # None
      BY <1>1, <1>3, <1>4, QueueFacts
    <3>2. sendingProxy = p => methodSerializer = p
      BY <3>1, <1>1 DEF StreamHasOwner
    <3> QED
      BY <3>2, <1>1, <1>2, <1>4, <2>1 DEF AliveInv
  <2> QED
    BY <2>2, <2>3, <2>4, <2>5 DEF IInv
<1>5. CASE p \in Queued
  <2>1. p \in onGranted
    BY <1>1, <1>5, QueueFacts
  <2>2. sendRequesters' = Without(sendRequesters, p) /\ UNCHANGED <<sendingProxy, skipNextStream>>
    BY <1>5, <2>1 DEF Destroy, CancelRequestSend
  <2>3. /\ sendRequesters' \in Seq(Proxies) /\ Once(sendRequesters')
        /\ Members(sendRequesters') = Members(sendRequesters) \ {p}
    BY <1>1, <1>5, <2>2, ErasedQueue, QueueFacts DEF TypeOK
  <2>4. TypeOK'
    BY <1>1, <1>2, <2>2, <2>3 DEF TypeOK
  <2>5. methodSerializer = None => sendingProxy # p
    BY <1>1, <1>5 DEF StreamInv
  <2>6. WaitersKnown'
    BY <1>1, <1>2, <2>2, <2>3, <2>5, QueueFacts
  <2>7. StreamHasOwner' /\ ConnectionInv' /\ MessageInv' /\ StreamInv'
    BY <1>1, <1>2, <2>2, <2>3, QueueFacts DEF StreamHasOwner, StreamInv, MessageInv, ConnectionInv
  <2>8. AliveInv'
    <3>1. sendingProxy = p => methodSerializer = p
      BY <2>5, <1>1 DEF StreamHasOwner
    <3> QED
      BY <3>1, <1>1, <1>2, <2>2 DEF AliveInv
  <2> QED
    BY <2>4, <2>6, <2>7, <2>8 DEF IInv
<1>6. CASE p \in onGranted /\ p \notin Queued
  <2>1. /\ methodSerializer = None /\ sendingProxy = p
    BY <1>1, <1>6, QueueFacts
  <2>2. sendingProxy' = None /\ skipNextStream' = TRUE /\ UNCHANGED sendRequesters
    BY <1>6 DEF Destroy, CancelRequestSend
  <2>3. TypeOK'
    BY <1>1, <1>2, <2>2 DEF TypeOK
  <2>4. WaitersKnown'
    BY <1>1, <1>2, <1>3, <1>6, <2>1, <2>2, QueueFacts
  <2>5. StreamHasOwner' /\ ConnectionInv' /\ MessageInv' /\ StreamInv'
    <3>1. None \notin Queued'
      BY <1>1, <1>3, <2>2, QueueFacts, MembersType DEF TypeOK
    <3> QED
      BY <1>1, <1>2, <1>3, <2>1, <2>2, <3>1 DEF StreamHasOwner, StreamInv, MessageInv, ConnectionInv
  <2>6. AliveInv'
    BY <1>1, <1>2, <2>2 DEF AliveInv
  <2> QED
    BY <2>3, <2>4, <2>5, <2>6 DEF IInv
<1> QED
  BY <1>4, <1>5, <1>6

\* A stream that nobody waits for any more goes to the next proxy.
LEMMA SkipStreamStep ==
    ASSUME Load, IInv, SkipStream
    PROVE  IInv'
<1>1. TypeOK /\ WaitersKnown /\ StreamHasOwner /\ ConnectionInv /\ MessageInv /\ StreamInv /\ AliveInv
  BY DEF IInv
<1>2. /\ requested /\ skipNextStream /\ skipNextStream' = FALSE
      /\ TryGrantSend(sendRequesters, sendingProxy, FALSE, FALSE)
      /\ UNCHANGED <<methodSerializer, sendingProxySize, partlySent, writer, initialized, onGranted, alive,
                     initializations, resets>>
  BY DEF SkipStream, boundVars
<1>3. sendRequesters \in Seq(Proxies) /\ Once(sendRequesters) /\ sendingProxy = None
  BY <1>1, <1>2, QueueFacts DEF TypeOK, StreamInv
<1>4. methodSerializer = None /\ ~writer /\ initialized /\ ~delayed
  BY <1>1, <1>2, <1>3 DEF StreamHasOwner, StreamInv, ConnectionInv
<1>5. None \notin Members(sendRequesters)
  BY <1>3, MembersType DEF Load, Assumptions
<1>6. /\ sendRequesters' \in Seq(Proxies) /\ Once(sendRequesters')
      /\ sendingProxy' \in Proxies \cup {None} /\ requested' \in BOOLEAN /\ delayed' \in BOOLEAN
      /\ Members(sendRequesters') \cup ({sendingProxy'} \ {None}) = Members(sendRequesters)
      /\ sendingProxy' \notin Members(sendRequesters')
      /\ \/ sendingProxy' # None /\ requested' = TRUE /\ delayed' = FALSE
         \/ sendingProxy' = None /\ requested' = FALSE /\ delayed' = FALSE
  BY <1>1, <1>2, <1>3, <1>4, <1>5, TryGrantStep DEF TypeOK
<1>7. TypeOK'
  BY <1>1, <1>2, <1>6 DEF TypeOK
<1>8. WaitersKnown'
  BY <1>1, <1>2, <1>3, <1>4, <1>6, QueueFacts
<1>9. StreamHasOwner' /\ ConnectionInv' /\ MessageInv' /\ StreamInv'
  BY <1>1, <1>2, <1>4, <1>6, QueueFacts DEF StreamHasOwner, StreamInv, MessageInv, ConnectionInv
<1>10. AliveInv'
  <2>1. sendingProxy' # None => sendingProxy' \in onGranted'
    BY <1>1, <1>2, <1>3, <1>4, <1>6, QueueFacts
  <2> QED
    BY <2>1, <1>1, <1>2 DEF AliveInv
<1> QED
  BY <1>7, <1>8, <1>9, <1>10 DEF IInv

\* When a part is written, the next stream is requested, for the same message or for the next proxy.
LEMMA WriterDoneStep ==
    ASSUME Load, IInv, NEW partly \in BOOLEAN, NEW serializer \in Proxies \cup {None},
           StreamWriterDone(partly, serializer, FALSE),
           initialized, ~delayed, partly \/ ~skipNextStream
    PROVE  /\ sendRequesters' \in Seq(Proxies) /\ Once(sendRequesters')
           /\ sendingProxy' \in Proxies \cup {None} /\ requested' \in BOOLEAN /\ delayed' = FALSE
           /\ \/ /\ partly /\ methodSerializer' = serializer /\ requested' = TRUE
                 /\ sendingProxy' = sendingProxy /\ sendRequesters' = sendRequesters
              \/ /\ ~partly /\ methodSerializer' = None
                 /\ sendingProxy' # None <=> requested'
                 /\ sendingProxy' \notin Members(sendRequesters')
                 /\ Members(sendRequesters') \cup ({sendingProxy'} \ {None}) = Members(sendRequesters)
<1>1. TypeOK /\ WaitersKnown /\ StreamHasOwner /\ ConnectionInv /\ MessageInv /\ StreamInv /\ AliveInv
  BY DEF IInv
<1>2. sendRequesters \in Seq(Proxies) /\ Once(sendRequesters)
  BY <1>1, QueueFacts DEF TypeOK
<1>3. None \notin Members(sendRequesters)
  BY <1>2, MembersType DEF Load, Assumptions
<1>4. CASE partly
  BY <1>1, <1>2, <1>4 DEF StreamWriterDone, RequestSendStream, TypeOK
<1>5. CASE ~partly
  <2>1. methodSerializer' = None /\ TryGrantSend(sendRequesters, None, skipNextStream, FALSE)
    BY <1>5 DEF StreamWriterDone
  <2>2. /\ sendRequesters' \in Seq(Proxies) /\ Once(sendRequesters')
        /\ sendingProxy' \in Proxies \cup {None} /\ requested' \in BOOLEAN /\ delayed' \in BOOLEAN
        /\ Members(sendRequesters') \cup ({sendingProxy'} \ {None}) = Members(sendRequesters)
        /\ sendingProxy' \notin Members(sendRequesters')
        /\ \/ sendingProxy' # None /\ requested' = TRUE /\ delayed' = FALSE
           \/ sendingProxy' = None /\ requested' = FALSE /\ delayed' = FALSE
    <3>1. /\ None \in Proxies \cup {None} /\ skipNextStream \in BOOLEAN /\ FALSE \in BOOLEAN
          /\ delayed \in BOOLEAN /\ initialized \in BOOLEAN
      BY <1>1 DEF TypeOK
    <3>2. PICK sending \in Proxies \cup {None}, owed \in BOOLEAN : sending = None /\ owed = FALSE
      OBVIOUS
    <3>3. TryGrantSend(sendRequesters, sending, skipNextStream, owed)
      BY <2>1, <3>2
    <3>4. /\ sendRequesters' \in Seq(Proxies) /\ Once(sendRequesters')
          /\ sendingProxy' \in Proxies \cup {None} /\ requested' \in BOOLEAN /\ delayed' \in BOOLEAN
          /\ Members(sendRequesters') \cup ({sendingProxy'} \ {None})
                = Members(sendRequesters) \cup ({sending} \ {None})
          /\ sending \notin Members(sendRequesters) => sendingProxy' \notin Members(sendRequesters')
          /\ \/ /\ ~skipNextStream /\ sending = None /\ sendingProxy' # None
                /\ requested' = (initialized \/ owed) /\ delayed' = (delayed \/ ~initialized)
             \/ /\ sendingProxy' = sending /\ sendRequesters' = sendRequesters
                /\ requested' = owed /\ delayed' = delayed
      BY <1>2, <3>1, <3>3, TryGrantStep
    <3> QED
      BY <1>3, <3>1, <3>2, <3>4
  <2> QED
    BY <1>5, <2>1, <2>2
<1> QED
  BY <1>4, <1>5

\* The proxy that the stream was requested for is granted, and serializes what fits.
LEMMA SendStreamAvailableStep ==
    ASSUME Load, IInv, NEW keep \in BOOLEAN, NEW parts \in 1 .. MaxParts, SendStreamAvailable(keep, parts)
    PROVE  IInv'
<1>1. TypeOK /\ WaitersKnown /\ StreamHasOwner /\ ConnectionInv /\ MessageInv /\ StreamInv /\ AliveInv
  BY DEF IInv
<1> DEFINE first == methodSerializer = None
           serializer == IF first THEN sendingProxy ELSE methodSerializer
           left == (IF first THEN parts ELSE sendingProxySize) - 1
<1>2. /\ requested /\ ~skipNextStream
      /\ onGranted' = IF first THEN onGranted \ {sendingProxy} ELSE onGranted
      /\ sendingProxySize' = left /\ partlySent' = (left > 0) /\ writer' = keep
      /\ IF keep
           THEN methodSerializer' = serializer /\ requested' = FALSE /\ UNCHANGED <<sendingProxy, sendRequesters, delayed>>
           ELSE StreamWriterDone(left > 0, serializer, FALSE)
      /\ UNCHANGED <<skipNextStream, initialized, alive, initializations, resets>>
  BY DEF SendStreamAvailable, boundVars
<1>3. initialized /\ ~delayed /\ ~writer /\ sendingProxy # None /\ serializer = sendingProxy
  BY <1>1, <1>2 DEF StreamHasOwner, StreamInv, ConnectionInv
<1>4. left \in 0 .. MaxParts
  <2>1. MaxParts \in Nat /\ sendingProxySize \in 0 .. MaxParts
    BY <1>1 DEF Load, Assumptions, TypeOK
  <2>2. ~first => sendingProxySize > 0
    BY <1>1, <1>3 DEF MessageInv
  <2> QED
    BY <2>1, <2>2
<1>5. onGranted' = Members(sendRequesters)
  <2>1. None \notin Members(sendRequesters)
    BY <1>1, MembersType DEF Load, Assumptions, TypeOK
  <2> QED
    BY <2>1, <1>1, <1>2, <1>3, QueueFacts DEF StreamInv
<1>6. sendRequesters \in Seq(Proxies) /\ Once(sendRequesters) /\ sendingProxy \in Proxies
  BY <1>1, <1>3, QueueFacts DEF TypeOK
<1> HIDE DEF left
<1>7. ASSUME /\ sendRequesters' \in Seq(Proxies) /\ Once(sendRequesters') /\ delayed' = FALSE
             /\ \/ /\ methodSerializer' = sendingProxy /\ sendingProxy' = sendingProxy
                   /\ Members(sendRequesters') = Members(sendRequesters)
                   /\ \/ keep /\ requested' = FALSE
                      \/ ~keep /\ left > 0 /\ requested' = TRUE
                \/ /\ ~keep /\ ~(left > 0) /\ methodSerializer' = None
                   /\ sendingProxy' \in Proxies \cup {None} /\ requested' \in BOOLEAN
                   /\ sendingProxy' # None <=> requested'
                   /\ sendingProxy' \notin Members(sendRequesters')
                   /\ Members(sendRequesters') \cup ({sendingProxy'} \ {None}) = Members(sendRequesters)
      PROVE  IInv'
  <2>1. TypeOK'
    <3>1. onGranted' \subseteq Proxies /\ sendingProxySize' \in 0 .. MaxParts /\ partlySent' \in BOOLEAN
      BY <1>1, <1>2, <1>4 DEF TypeOK
    <3> QED
      BY <3>1, <1>1, <1>2, <1>6, <1>7 DEF TypeOK
  <2>2. WaitersKnown'
    BY <1>3, <1>5, <1>7, QueueFacts
  <2>3. partlySent' <=> sendingProxySize' > 0
    BY <1>2
  <2>4. StreamHasOwner' /\ ConnectionInv' /\ MessageInv' /\ StreamInv'
    BY <1>1, <1>2, <1>3, <1>7, <2>3, QueueFacts DEF StreamHasOwner, StreamInv, MessageInv, ConnectionInv
  <2>5. AliveInv'
    <3>1. onGranted' \subseteq alive'
      BY <1>1, <1>2 DEF AliveInv
    <3>2. sendingProxy' # None => sendingProxy' = sendingProxy \/ sendingProxy' \in onGranted'
      BY <1>5, <1>7
    <3> QED
      BY <3>1, <3>2, <1>1, <1>2, <1>3 DEF AliveInv
  <2> QED
    BY <2>1, <2>2, <2>4, <2>5 DEF IInv
<1>8. CASE keep
  <2>1. methodSerializer' = sendingProxy /\ requested' = FALSE /\ UNCHANGED <<sendingProxy, sendRequesters, delayed>>
    BY <1>2, <1>3, <1>8
  <2> QED
    BY <2>1, <1>3, <1>6, <1>7, <1>8, <1>1 DEF TypeOK
<1>9. CASE ~keep
  <2>1. (left > 0) \in BOOLEAN /\ StreamWriterDone(left > 0, sendingProxy, FALSE)
    <3>1. StreamWriterDone(left > 0, serializer, FALSE)
      BY <1>2, <1>9, Zenon
    <3>2. serializer = sendingProxy
      BY <1>3
    <3> HIDE DEF serializer
    <3>3. StreamWriterDone(left > 0, sendingProxy, FALSE)
      BY <3>1, <3>2, Zenon
    <3>4. (left > 0) \in BOOLEAN
      BY <1>4
    <3> QED
      BY <3>3, <3>4, Zenon
  <2>2. /\ sendRequesters' \in Seq(Proxies) /\ Once(sendRequesters')
        /\ sendingProxy' \in Proxies \cup {None} /\ requested' \in BOOLEAN /\ delayed' = FALSE
        /\ \/ /\ left > 0 /\ methodSerializer' = sendingProxy /\ requested' = TRUE
              /\ sendingProxy' = sendingProxy /\ sendRequesters' = sendRequesters
           \/ /\ ~(left > 0) /\ methodSerializer' = None
              /\ sendingProxy' # None <=> requested'
              /\ sendingProxy' \notin Members(sendRequesters')
              /\ Members(sendRequesters') \cup ({sendingProxy'} \ {None}) = Members(sendRequesters)
    BY <2>1, <1>2, <1>3, <1>6, WriterDoneStep
  <2> QED
    BY <2>2, <1>7, <1>9
<1> QED
  BY <1>8, <1>9

\* The serializer is done with the part that it wrote.
LEMMA ReleaseWriterStep ==
    ASSUME Load, IInv, ReleaseWriter
    PROVE  IInv'
<1>1. TypeOK /\ WaitersKnown /\ StreamHasOwner /\ ConnectionInv /\ MessageInv /\ StreamInv /\ AliveInv
  BY DEF IInv
<1>2. /\ writer /\ writer' = FALSE /\ StreamWriterDone(partlySent, methodSerializer, requested)
      /\ UNCHANGED <<sendingProxySize, partlySent, skipNextStream, initialized, onGranted, alive,
                     initializations, resets>>
  BY DEF ReleaseWriter, boundVars
<1>3. initialized /\ ~delayed /\ requested = FALSE /\ (partlySent \/ ~skipNextStream)
  BY <1>1, <1>2 DEF ConnectionInv, StreamInv, StreamHasOwner, TypeOK
<1>4. /\ sendRequesters \in Seq(Proxies) /\ Once(sendRequesters)
      /\ partlySent \in BOOLEAN /\ methodSerializer \in Proxies \cup {None}
  BY <1>1, QueueFacts DEF TypeOK
<1>5. StreamWriterDone(partlySent, methodSerializer, FALSE)
  BY <1>2, <1>3, Zenon
<1>6. /\ sendRequesters' \in Seq(Proxies) /\ Once(sendRequesters')
      /\ sendingProxy' \in Proxies \cup {None} /\ requested' \in BOOLEAN /\ delayed' = FALSE
      /\ \/ /\ partlySent /\ methodSerializer' = methodSerializer /\ requested' = TRUE
            /\ sendingProxy' = sendingProxy /\ sendRequesters' = sendRequesters
         \/ /\ ~partlySent /\ methodSerializer' = None
            /\ sendingProxy' # None <=> requested'
            /\ sendingProxy' \notin Members(sendRequesters')
            /\ Members(sendRequesters') \cup ({sendingProxy'} \ {None}) = Members(sendRequesters)
  BY <1>3, <1>4, <1>5, WriterDoneStep, Zenon
<1>7. TypeOK'
  BY <1>1, <1>2, <1>4, <1>6 DEF TypeOK
<1>8. ~partlySent => methodSerializer # None
  BY <1>1, <1>2 DEF StreamInv
<1>9. WaitersKnown'
  BY <1>1, <1>2, <1>6, <1>8, QueueFacts
<1>10. StreamHasOwner' /\ ConnectionInv' /\ MessageInv' /\ StreamInv'
  BY <1>1, <1>2, <1>3, <1>6, <1>8, QueueFacts DEF StreamHasOwner, StreamInv, MessageInv, ConnectionInv
<1>11. AliveInv'
  <2>1. sendingProxy' # None => sendingProxy' = sendingProxy \/ sendingProxy' \in onGranted'
    BY <1>1, <1>2, <1>6, <1>8, QueueFacts
  <2>2. onGranted' \subseteq alive'
    BY <1>1, <1>2 DEF AliveInv
  <2> QED
    BY <2>1, <2>2, <1>1, <1>2 DEF AliveInv
<1> QED
  BY <1>7, <1>9, <1>10, <1>11 DEF IInv

\* The peer initializes the connection: a message that is partly sent is dropped.
LEMMA InitializedStep ==
    ASSUME Load, IInv, Initialized
    PROVE  IInv'
<1>1. TypeOK /\ WaitersKnown /\ StreamHasOwner /\ ConnectionInv /\ MessageInv /\ StreamInv /\ AliveInv
  BY DEF IInv
<1>2. /\ initializations < MaxInitialized /\ initializations' = initializations + 1
      /\ initialized' = TRUE /\ delayed' = FALSE /\ requested' = (requested \/ delayed)
      /\ skipNextStream' = (skipNextStream \/ partlySent)
      /\ UNCHANGED <<sendRequesters, sendingProxySize, partlySent, writer, onGranted, alive, resets>>
  BY DEF Initialized
<1>3. /\ initializations \in Nat /\ MaxInitialized \in Nat /\ MaxInitialized <= 2
      /\ initializations <= MaxInitialized
  BY <1>1 DEF TypeOK, Load, Assumptions
<1>4. initializations' \in 0 .. MaxInitialized /\ initializations' > 0 /\ initializations < 2
  BY <1>2, <1>3
<1>5. CASE partlySent
  <2>1. sendingProxy' = None /\ methodSerializer' = None /\ skipNextStream' = TRUE
    BY <1>2, <1>5 DEF Initialized
  <2>2. initializations' >= 2
    BY <1>1, <1>2, <1>3, <1>5 DEF ConnectionInv, MessageInv
  <2>3. methodSerializer # None
    BY <1>1, <1>3, <1>4, <1>5 DEF MessageInv
  <2>4. None \notin Queued'
    BY <1>1, <1>2, QueueFacts, MembersType DEF TypeOK, Load, Assumptions
  <2>5. TypeOK'
    BY <1>1, <1>2, <1>4, <2>1 DEF TypeOK
  <2>6. WaitersKnown'
    BY <1>1, <1>2, <2>1, <2>3, QueueFacts
  <2>7. StreamHasOwner'
    <3>1. requested \/ delayed \/ (writer /\ partlySent)
      BY <1>1, <1>5, <2>3 DEF StreamHasOwner, TypeOK, Load, Assumptions
    <3>2. requested' \/ (writer' /\ partlySent')
      BY <3>1, <1>2
    <3> QED
      BY <3>2, <2>1 DEF StreamHasOwner
  <2>8. ConnectionInv'
    BY <1>1, <1>2, <1>4 DEF ConnectionInv
  <2>9. MessageInv'
    BY <1>1, <1>2, <2>1, <2>2 DEF MessageInv
  <2>10. StreamInv'
    <3>1. writer' => ~requested' /\ ~delayed'
      BY <1>1, <1>2 DEF StreamInv
    <3> QED
      BY <1>2, <1>5, <2>1, <2>4, <3>1 DEF StreamInv
  <2>11. AliveInv'
    BY <1>1, <1>2, <2>1 DEF AliveInv
  <2> QED
    BY <2>5, <2>6, <2>7, <2>8, <2>9, <2>10, <2>11 DEF IInv
<1>6. CASE ~partlySent
  <2>1. UNCHANGED <<sendingProxy, methodSerializer, skipNextStream>>
    <3>1. skipNextStream \in BOOLEAN
      BY <1>1 DEF TypeOK
    <3> QED
      BY <3>1, <1>2, <1>6 DEF Initialized
  <2>2. Queued' = Queued
    BY <1>2, QueueFacts
  <2>3. TypeOK'
    BY <1>1, <1>2, <1>4, <2>1 DEF TypeOK
  <2>4. WaitersKnown'
    BY <1>1, <1>2, <2>1, QueueFacts
  <2>5. StreamHasOwner'
    <3>1. requested' \/ delayed' <=> requested \/ delayed
      BY <1>2
    <3>2. UNCHANGED <<writer, partlySent>>
      BY <1>2
    <3> QED
      BY <1>1, <2>1, <3>1, <3>2 DEF StreamHasOwner
  <2>6. ConnectionInv'
    BY <1>1, <1>2, <1>4 DEF ConnectionInv
  <2>7. MessageInv'
    BY <1>1, <1>2, <1>6, <2>1 DEF MessageInv
  <2>8. StreamInv'
    <3>1. writer' => ~requested' /\ ~delayed'
      BY <1>1, <1>2 DEF StreamInv
    <3>2. UNCHANGED <<writer, partlySent>>
      BY <1>2
    <3> QED
      BY <1>1, <2>1, <2>2, <3>1, <3>2 DEF StreamInv
  <2>9. AliveInv'
    BY <1>1, <1>2, <2>1 DEF AliveInv
  <2> QED
    BY <2>3, <2>4, <2>5, <2>6, <2>7, <2>8, <2>9 DEF IInv
<1> QED
  BY <1>5, <1>6

\* Everything is forgotten.
LEMMA ResetStep ==
    ASSUME Load, IInv, Reset
    PROVE  IInv'
<1>1. TypeOK /\ WaitersKnown /\ AliveInv
  BY DEF IInv
<1>2. /\ resets < MaxResets /\ ~writer /\ resets' = resets + 1 /\ initializations' = 0
      /\ onGranted' = onGranted \ (Queued \cup {sendingProxy})
      /\ sendRequesters' = <<>> /\ sendingProxy' = None /\ methodSerializer' = None /\ sendingProxySize' = 0
      /\ partlySent' = FALSE /\ skipNextStream' = FALSE
      /\ initialized' = FALSE /\ delayed' = FALSE /\ requested' = FALSE
      /\ writer' = writer /\ alive' = alive
  BY DEF Reset
<1>3. resets' \in 0 .. MaxResets /\ 0 \in 0 .. MaxParts /\ 0 \in 0 .. MaxInitialized /\ <<>> \in Seq(Proxies)
  BY <1>1, <1>2 DEF TypeOK, Load, Assumptions
<1>4. onGranted' = {}
  BY <1>1, <1>2, QueueFacts
<1>5. Queued' = {} /\ Members(<<>>) = {} /\ Once(<<>>)
  BY <1>2, QueueFacts DEF Members, Once
<1>6. TypeOK'
  BY <1>1, <1>2, <1>3, <1>4 DEF TypeOK
<1>7. WaitersKnown'
  BY <1>2, <1>4, <1>5, QueueFacts
<1>8. StreamHasOwner' /\ ConnectionInv' /\ MessageInv' /\ StreamInv' /\ AliveInv'
  BY <1>2, <1>4, <1>5 DEF StreamHasOwner, ConnectionInv, MessageInv, StreamInv, AliveInv
<1> QED
  BY <1>6, <1>7, <1>8 DEF IInv

\* Nothing changes.
LEMMA StutterStep ==
    ASSUME IInv, UNCHANGED vars
    PROVE  IInv'
  BY QueueFacts DEF IInv, vars, streamVars, boundVars, TypeOK, StreamHasOwner, ConnectionInv, MessageInv, StreamInv, AliveInv

----------------------------------------------------------------------------
(* Theorems *)

\* The invariant holds in every state.
THEOREM Invariant == ASSUME Load PROVE Spec => []IInv
<1>1. Init => IInv
  BY InitInv
<1>2. IInv /\ [Next]_vars => IInv'
  <2> SUFFICES ASSUME IInv, [Next]_vars PROVE IInv'
    OBVIOUS
  <2>1. ASSUME NEW p \in Proxies, RequestSend(p) PROVE IInv'
    BY <2>1, RequestSendStep
  <2>2. ASSUME NEW p \in Proxies, Destroy(p) PROVE IInv'
    BY <2>2, DestroyStep
  <2>3. CASE SkipStream
    BY <2>3, SkipStreamStep
  <2>4. ASSUME NEW keep \in BOOLEAN, NEW parts \in 1 .. MaxParts, SendStreamAvailable(keep, parts) PROVE IInv'
    BY <2>4, SendStreamAvailableStep
  <2>5. CASE ReleaseWriter
    BY <2>5, ReleaseWriterStep
  <2>6. CASE Initialized
    BY <2>6, InitializedStep
  <2>7. CASE Reset
    BY <2>7, ResetStep
  <2>8. CASE UNCHANGED vars
    BY <2>8, StutterStep
  <2> QED
    BY <2>1, <2>2, <2>3, <2>4, <2>5, <2>6, <2>7, <2>8 DEF Next
<1> QED
  BY <1>1, <1>2, PTL DEF Spec

\* Nobody who asks EchoOnStreams for a stream is forgotten or granted twice, and a stream that comes has an
\* owner or is skipped, also when proxies are destroyed in the middle of their messages.
THEOREM WaitersAreKnown == ASSUME Load PROVE Spec => [](TypeOK /\ WaitersKnown /\ StreamHasOwner)
<1>1. IInv => TypeOK /\ WaitersKnown /\ StreamHasOwner
  BY DEF IInv
<1> QED
  BY <1>1, Invariant, PTL

\* In addition the proxy that a stream is for exists when EchoOnStreams::SendStreamAvailable uses it, as long as
\* no proxy is destroyed in the middle of its message.
THEOREM RequestsAreKept == ASSUME Load, ~DestroyWhileSending PROVE Spec => []RequestsKept
<1>1. IInv => RequestsKept
  BY DEF IInv, RequestsKept, AliveInv, SendingProxyAlive
<1> QED
  BY <1>1, Invariant, PTL
====
