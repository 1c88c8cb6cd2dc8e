---- MODULE SesameWindowed ----
(***************************************************************************)
(* services/util/SesameWindowed.cpp: two peers on a serial line, each of   *)
(* which sends only as much as fits in the window that the other one       *)
(* advertised. The peers initialize each other, exchange messages, release *)
(* window, and may be restarted at any moment.                             *)
(*                                                                         *)
(* The line (hal::SerialCommunication and SesameCobs) delivers packets in  *)
(* order; what is in flight when a peer restarts may be lost. A packet     *)
(* is its operation, its window parameter and its encoded size, which      *)
(* both ends compute alike.                                                *)
(***************************************************************************)
EXTENDS Integers, Sequences, FiniteSets

CONSTANTS
    Peers,          \* the two ends
    Initiators,     \* peers that have just been constructed; the others were up before
    Delayers,       \* peers whose SesameInitializer grants an initialization later
    BufferSize,     \* ownBufferSize
    ReleaseSize,    \* releaseWindowSize: encoded size of ReleaseWindow, and of InitResponse
    SplitBuffers,
    MessageSizes,   \* encoded sizes of messages
    Restarters,     \* peers that may restart
    MaxRestarts     \* bound on the number of restarts

Word == 65536              \* uint16_t counts modulo this
Uint16 == 0 .. Word - 1

PeersAssumption == \E p, q \in Peers : p # q /\ Peers = {p, q}
SizesAssumption ==
    /\ BufferSize \in 1 .. Word - 1
    /\ ReleaseSize \in 1 .. BufferSize
    /\ SplitBuffers \in Nat /\ SplitBuffers >= 2
    /\ MessageSizes \subseteq 1 .. BufferSize
    /\ MaxRestarts \in Nat

Assumptions == PeersAssumption /\ SizesAssumption

Other(p) == CHOOSE q \in Peers : q # p

VARIABLES
    peer,      \* peer[p]: the members of SesameWindowed at p
    line,      \* line[p]: packets on their way to p
    restarts   \* number of restarts so far

vars == <<peer, line, restarts>>

NoSize == 0  \* no requested message, no packet being sent, no initialization to be granted

Operations == {"init", "initResponse", "releaseWindow", "message"}
States == {"sendingInit", "sendingInitResponse", "operational", "sendingMessage", "sendingReleaseWindow"}
Packets == [operation : Operations, window : Uint16, size : 0 .. BufferSize]

TypeOK ==
    /\ peer \in [Peers ->
            [initialized : BOOLEAN, sentInitResponse : BOOLEAN, requestingInitialization : BOOLEAN,
             sendInitResponse : BOOLEAN, sending : BOOLEAN,
             otherAvailableWindow : Uint16, releasedWindow : Uint16,
             maxUsableBufferSize : 0 .. BufferSize,
             requestedSendMessageSize : MessageSizes \cup {NoSize}, requestedSize : MessageSizes \cup {NoSize},
             state : States, encodedSize : 0 .. BufferSize,
             received : Seq(MessageSizes), reading : BOOLEAN, granting : 0 .. BufferSize]]
    /\ line \in [Peers -> Seq(Packets)]
    /\ restarts \in 0 .. MaxRestarts

\* The members after construction: an init message is being sent
Constructed == [initialized |-> FALSE, sentInitResponse |-> FALSE, requestingInitialization |-> FALSE,
                sendInitResponse |-> FALSE, sending |-> TRUE,
                otherAvailableWindow |-> 0, releasedWindow |-> 0, maxUsableBufferSize |-> 0,
                requestedSendMessageSize |-> NoSize, requestedSize |-> NoSize,
                state |-> "sendingInit", encodedSize |-> ReleaseSize,
                received |-> <<>>, reading |-> FALSE, granting |-> NoSize]

\* A peer that was up before the other one: nobody has received its init message
Waiting == [Constructed EXCEPT !.sending = FALSE, !.encodedSize = NoSize]

Packet(operation, window, size) == [operation |-> operation, window |-> window, size |-> size]
InitPacket == Packet("init", BufferSize, ReleaseSize)

Init == /\ peer = [p \in Peers |-> IF p \in Initiators THEN Constructed ELSE Waiting]
        /\ line = [p \in Peers |-> IF Other(p) \in Initiators THEN <<InitPacket>> ELSE <<>>]
        /\ restarts = 0

----------------------------------------------------------------------------
(* uint16_t arithmetic *)

Plus(a, b) == (a + b) % Word
Minus(a, b) == (a - b) % Word
Least(a, b) == IF a < b THEN a ELSE b

\* A window release is only worth its while above this
ReleaseThreshold == (BufferSize - ReleaseSize) \div SplitBuffers

\* The largest encoded message that RequestSendMessage accepts
MaxSendMessageSize(r) == (r.maxUsableBufferSize - ReleaseSize) \div SplitBuffers

----------------------------------------------------------------------------
(* The functions of SesameWindowed, on the members of one peer *)

\* Variants with a mistake: the window is not looked at; no room is kept for a release
MaySendMessageUnchecked(r) == r.requestedSendMessageSize # NoSize
MaySendMessageToTheLast(r) == /\ r.requestedSendMessageSize # NoSize
                              /\ r.requestedSendMessageSize <= r.otherAvailableWindow

\* Room for a ReleaseWindow packet is kept, so that window can always be given back
MaySendMessage(r) == /\ r.requestedSendMessageSize # NoSize
                     /\ r.requestedSendMessageSize + ReleaseSize <= r.otherAvailableWindow

MayRelease(r) == /\ r.releasedWindow >= ReleaseThreshold
                 /\ ReleaseSize <= r.otherAvailableWindow

StartSending(r, s) == [r EXCEPT !.state = s, !.sending = TRUE]

RespondInit(r) == IF r.reading THEN r
                  ELSE [StartSending(r, "sendingInitResponse") EXCEPT !.sentInitResponse = TRUE]

\* The observer gets a writer for its message at once, and may then request the next
StartMessage(r) == [StartSending(r, "sendingMessage") EXCEPT !.requestedSize = r.requestedSendMessageSize,
                                                             !.requestedSendMessageSize = NoSize]

SetNextState(r) ==
    IF r.sending \/ ~r.initialized THEN r
    ELSE IF r.sendInitResponse THEN RespondInit(r)
    ELSE IF MaySendMessage(r) THEN StartMessage(r)
    ELSE IF MayRelease(r) THEN StartSending(r, "sendingReleaseWindow")
    ELSE [r EXCEPT !.state = "operational"]

Requested(r, size) == [r EXCEPT !.requestedSendMessageSize = size]

ReceivedInitialize(r) ==
    [r EXCEPT !.maxUsableBufferSize = Least(BufferSize, r.otherAvailableWindow), !.initialized = TRUE]

\* The SesameInitializer grants the initialization that was requested
InitializationGranted(r, window) ==
    SetNextState(ReceivedInitialize([r EXCEPT !.otherAvailableWindow = window,
                                              !.sendInitResponse = TRUE,
                                              !.requestingInitialization = FALSE,
                                              !.granting = NoSize]))

\* The next message in the buffer, if any, is handed to the observer
TryForwardReceivedMessage(r) == [r EXCEPT !.reading = r.received # <<>>]

\* A variant with a mistake: a second init message is ignored
ReceivedInitOnce(p, r, packet) ==
    IF r.initialized THEN r ELSE InitializationGranted(r, packet.window)

ReceivedInit(p, r, packet) ==
    IF p \in Delayers
    THEN [r EXCEPT !.requestingInitialization = TRUE, !.granting = packet.window]
    ELSE InitializationGranted(r, packet.window)

\* A variant with a mistake: the window that the packet takes is not given back
ReceivedInitResponseUncounted(r, packet) ==
    LET s == [r EXCEPT !.otherAvailableWindow = packet.window]
    IN  IF ~r.sentInitResponse /\ ~r.requestingInitialization THEN ReceivedInitialize(s) ELSE s

ReceivedInitResponse(r, packet) ==
    LET s == [r EXCEPT !.otherAvailableWindow = packet.window, !.releasedWindow = packet.size]
    IN  IF ~r.sentInitResponse /\ ~r.requestingInitialization THEN ReceivedInitialize(s) ELSE s

ReceivedReleaseWindow(r, packet) ==
    IF r.initialized THEN [r EXCEPT !.releasedWindow = Plus(@, packet.size),
                                    !.otherAvailableWindow = Plus(@, packet.window)]
                     ELSE r

SaveReceivedMessage(r, packet) ==
    IF r.initialized THEN TryForwardReceivedMessage([r EXCEPT !.received = Append(@, packet.size)]) ELSE r

\* ReceivedMessage: what p becomes on the reception of a packet
Received(p, r, packet) ==
    SetNextState(CASE packet.operation = "init"          -> ReceivedInit(p, r, packet)
                   [] packet.operation = "initResponse"  -> ReceivedInitResponse(r, packet)
                   [] packet.operation = "releaseWindow" -> ReceivedReleaseWindow(r, packet)
                   [] packet.operation = "message"       -> SaveReceivedMessage(r, packet))

\* SendMessageStreamAvailable: SesameCobs asks for the contents of the packet as
\* soon as it is requested. Only a message is written later, by the observer.
WritesAtOnce(r) == r.sending /\ r.encodedSize = NoSize /\ r.state # "sendingMessage"

PacketOf(r) == IF r.state = "sendingInitResponse" THEN Packet("initResponse", BufferSize, ReleaseSize)
                                                  ELSE Packet("releaseWindow", r.releasedWindow, ReleaseSize)

WritePacket(r) == [r EXCEPT !.encodedSize = ReleaseSize, !.releasedWindow = 0,
                            !.sendInitResponse = @ /\ r.state # "sendingInitResponse"]

----------------------------------------------------------------------------
(* Steps *)

\* p gets members r, and leaves the packets rest of what is on its way to it
Become(p, r, rest) ==
    /\ peer' = [peer EXCEPT ![p] = IF WritesAtOnce(r) THEN WritePacket(r) ELSE r]
    /\ line' = [line EXCEPT ![p] = rest,
                            ![Other(p)] = IF WritesAtOnce(r) THEN Append(@, PacketOf(r)) ELSE @]

ReceiveMessage(p) ==
    /\ line[p] # <<>>
    /\ Become(p, Received(p, peer[p], Head(line[p])), Tail(line[p]))
    /\ UNCHANGED restarts

\* The observer calls RequestSendMessage, once at a time
RequestSendMessage(p, size) ==
    LET r == peer[p]
    IN  /\ r.initialized
        /\ r.requestedSendMessageSize = NoSize
        /\ size <= MaxSendMessageSize(r)
        /\ Become(p, IF r.state = "operational" THEN SetNextState(Requested(r, size)) ELSE Requested(r, size), line[p])
        /\ UNCHANGED restarts

\* The observer has written its message, which may be shorter than requested
SendMessage(p, size) ==
    LET r == peer[p]
    IN  /\ r.state = "sendingMessage" /\ r.encodedSize = NoSize
        /\ size <= r.requestedSize
        /\ peer' = [peer EXCEPT ![p].encodedSize = size, ![p].requestedSize = NoSize]
        /\ line' = [line EXCEPT ![Other(p)] = Append(@, Packet("message", 0, size))]
        /\ UNCHANGED restarts

\* The line reports that the packet has been sent; it may have been received, and
\* answered, before that. Init messages do not count against the window.
MessageSent(p) ==
    LET r == peer[p]
        sent == [r EXCEPT !.sending = FALSE, !.encodedSize = NoSize]
    IN  /\ r.encodedSize # NoSize
        /\ Become(p, SetNextState(IF r.state = "sendingInit" THEN sent
                                  ELSE [sent EXCEPT !.otherAvailableWindow = Minus(@, r.encodedSize)]), line[p])
        /\ UNCHANGED restarts

\* The observer is done with the message that it was given
ReleaseReader(p) ==
    LET r == peer[p]
        released == [r EXCEPT !.releasedWindow = Plus(@, Head(r.received)), !.received = Tail(@)]
    IN  /\ r.reading
        /\ Become(p, SetNextState(TryForwardReceivedMessage(released)), line[p])
        /\ UNCHANGED restarts

GrantInitialization(p) ==
    /\ peer[p].granting # NoSize
    /\ Become(p, InitializationGranted(peer[p], peer[p].granting), line[p])
    /\ UNCHANGED restarts

\* Power fails, or a watchdog resets: the peer is constructed again. It misses
\* some of what was on its way to it, and cuts off the packet that it was sending.
Restart(p, missed, cut) ==
    LET sent == line[Other(p)]
    IN  /\ p \in Restarters /\ restarts < MaxRestarts
        /\ restarts' = restarts + 1
        /\ cut => peer[p].encodedSize # NoSize /\ sent # <<>>
        /\ peer' = [peer EXCEPT ![p] = Constructed]
        /\ line' = [line EXCEPT ![p] = SubSeq(@, missed + 1, Len(@)),
                                ![Other(p)] = Append(IF cut THEN SubSeq(@, 1, Len(@) - 1) ELSE @, InitPacket)]

----------------------------------------------------------------------------
Next == \E p \in Peers :
    \/ ReceiveMessage(p)
    \/ \E size \in MessageSizes : RequestSendMessage(p, size)
    \/ \E size \in MessageSizes : SendMessage(p, size)
    \/ MessageSent(p)
    \/ ReleaseReader(p)
    \/ GrantInitialization(p)
    \/ \E missed \in 0 .. Len(line[p]), cut \in BOOLEAN : Restart(p, missed, cut)

\* The line transports what it is given, observers write and finish reading, and
\* initializers grant in the end.
Fairness == \A p \in Peers :
    /\ WF_vars(ReceiveMessage(p))
    /\ WF_vars(\E size \in MessageSizes : SendMessage(p, size))
    /\ WF_vars(MessageSent(p))
    /\ WF_vars(ReleaseReader(p))
    /\ WF_vars(GrantInitialization(p))

Spec == Init /\ [][Next]_vars
FairSpec == Spec /\ Fairness

----------------------------------------------------------------------------
(* Properties *)

\* What packets or messages of these sizes take together, as the number of their bytes
Bytes(sizes) == UNION {{i} \X (1 .. sizes[i]) : i \in DOMAIN sizes}
Total(sizes) == Cardinality(Bytes(sizes))

\* What packets take of a window, and what they give back of one
Sizes(packets) == [i \in DOMAIN packets |-> IF packets[i].operation = "init" THEN 0 ELSE packets[i].size]
Windows(packets) == [i \in DOMAIN packets |-> IF packets[i].operation = "releaseWindow" THEN packets[i].window ELSE 0]

\* What p may still send, once the packet that it is sending has been counted. Before that, the
\* other peer may have received it and given its window back, and the uint16_t may have wrapped.
Counted(r) == IF r.state = "sendingInit" THEN 0 ELSE r.encodedSize
Sendable(p) == Minus(peer[p].otherAvailableWindow, Counted(peer[p]))

\* What p has sent that has not reached the other peer
Underway(p) == Total(Sizes(line[Other(p)]))

\* The window of the other peer that is not available to p: occupied by messages,
\* freed but not yet announced, and announced by packets on their way to p
Occupied(p) == Total(peer[Other(p)].received) + peer[Other(p)].releasedWindow + Total(Windows(line[p]))

InitUnderway == \E p \in Peers :
    \/ peer[p].state \in {"sendingInit", "sendingInitResponse"} \/ peer[p].sendInitResponse \/ peer[p].granting # NoSize
    \/ \E i \in 1 .. Len(line[p]) : line[p][i].operation \in {"init", "initResponse"}

\* A peer is never sent more than fits in its receive buffer: the messages that it
\* saved and has not handled stay within the window that it advertised, so that
\* SaveReceivedMessage never overflows the deque that it writes to.
BufferNotOverrun == \A p \in Peers : Total(peer[p].received) <= BufferSize

\* No window is lost and none is invented: once the handshake is over, every byte
\* of a peer's buffer is available to the other peer, underway to the buffer,
\* occupied in it, or on its way back in a ReleaseWindow packet. This ties the
\* counters of both peers (MessageSent, the reader's release, ReceivedMessage) to
\* what is on the line in both directions.
WindowConserved ==
    \A p \in Peers : ~InitUnderway /\ peer[p].initialized => Sendable(p) + Underway(p) + Occupied(p) = BufferSize

\* A message that was accepted is sent in the end: the peers never both wait for the
\* other one to release window, although each releases only above a threshold and
\* needs window of the other one to do so.
MessageEventuallySent ==
    \A p \in Peers : peer[p].initialized /\ peer[p].requestedSendMessageSize # NoSize ~> peer[p].requestedSendMessageSize = NoSize

\* However often the peers restart, and whatever the restarts cut off, once they stop
\* doing so both end up initialized, with no init or init response left to be sent.
HandshakeEnds == <>[](~InitUnderway /\ \A p \in Peers : peer[p].initialized)
====
