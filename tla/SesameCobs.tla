---- MODULE SesameCobs ----
(***************************************************************************)
(* services/util/SesameCobs.cpp: a sender that divides the bytes of a      *)
(* serial connection into delimited messages, and the receiver of its      *)
(* peer. The sender is reset and stopped at any moment; what it has handed *)
(* to the serial driver by then is still sent.                             *)
(*                                                                         *)
(* Contents are sequences of bytes, of which only 0 matters. The serial    *)
(* driver takes a chunk at a time and reports that it is sent later.       *)
(***************************************************************************)
EXTENDS Integers, Sequences

CONSTANTS None,
          MaxFrameSize,     \* 254 in the code
          MaxSize,          \* bound: the size of a message
          MaxMessages, MaxResets   \* bounds: messages, resets

Assumptions ==
    MaxFrameSize \in Nat \ {0} /\ MaxSize \in Nat \ {0} /\ MaxMessages \in Nat /\ MaxResets \in Nat

VARIABLES
    sendReqestedSize,    \* the message that was requested to be sent, or None
    sendStream,          \* the message that is written to the stream, or None
    onAllocatable,       \* what happens when the stream is released: "fill", "clear" or "nothing"
    sendingUserData, sendingFirstPacket, resetting,
    dataToSend,          \* what is left of the message
    frameSize,           \* of the last frame
    sendSizeEncoded,
    serial,              \* a chunk is being sent
    onStopDone,          \* "no", "requested" or "done"
    wire,                \* bytes that are under way
    nextOverhead, overheadPositionIsPseudo, receivedMessage, receiveSizeEncoded,   \* the receiver
    sent,                \* history: messages that were started, how large they were on the wire, and whether completely
    received,            \* history: messages that were received, and how large they were on the wire
    resets

senderVars == <<sendReqestedSize, sendStream, onAllocatable, sendingUserData, sendingFirstPacket, resetting,
                dataToSend, frameSize, sendSizeEncoded, serial, onStopDone>>
receiverVars == <<nextOverhead, overheadPositionIsPseudo, receivedMessage, receiveSizeEncoded, received>>
vars == <<senderVars, receiverVars, wire, sent, resets>>

Byte == {0, 1}
Message == UNION {[1 .. n -> Byte] : n \in 1 .. MaxSize}
MaxEncoded == 3 * (MaxSize + 2)

TypeOK ==
    /\ sendReqestedSize \in Message \cup {None} /\ sendStream \in Message \cup {None}
    /\ onAllocatable \in {"fill", "clear", "nothing"}
    /\ sendingUserData \in BOOLEAN /\ sendingFirstPacket \in BOOLEAN /\ resetting \in BOOLEAN /\ serial \in BOOLEAN
    /\ Len(dataToSend) <= MaxSize /\ frameSize \in 0 .. MaxFrameSize /\ sendSizeEncoded \in 0 .. MaxEncoded
    /\ onStopDone \in {"no", "requested", "done"}
    /\ \A i \in 1 .. Len(wire) : wire[i] \in 0 .. MaxFrameSize + 1
    /\ nextOverhead \in 1 .. MaxFrameSize + 1 /\ overheadPositionIsPseudo \in BOOLEAN
    /\ Len(receivedMessage) <= MaxSize /\ receiveSizeEncoded \in 0 .. 2 * MaxEncoded

Init ==
    /\ sendReqestedSize = None /\ sendStream = None /\ onAllocatable = "fill"
    /\ sendingUserData = FALSE /\ sendingFirstPacket = TRUE /\ resetting = FALSE
    /\ dataToSend = <<>> /\ frameSize = 0 /\ sendSizeEncoded = 0 /\ serial = FALSE
    /\ onStopDone = "no"
    /\ wire = <<>>
    /\ nextOverhead = 1 /\ overheadPositionIsPseudo = TRUE /\ receivedMessage = <<>> /\ receiveSizeEncoded = 0
    /\ sent = <<>> /\ received = <<>> /\ resets = 0

----------------------------------------------------------------------------
(* Sizes *)

RECURSIVE FullFrames(_, _)
FullFrames(m, nonZero) ==
    IF m = <<>> THEN 0
    ELSE IF Head(m) = 0 THEN FullFrames(Tail(m), 0)
    ELSE IF nonZero + 1 = MaxFrameSize THEN 1 + FullFrames(Tail(m), 0) ELSE FullFrames(Tail(m), nonZero + 1)

MessageSize(m) == 2 + Len(m) + FullFrames(m, 0)
WorstCaseEncodedMessageSize(size) == size + size \div MaxFrameSize + 2

----------------------------------------------------------------------------
(* Sending *)

FindDelimiter(data) ==
    LET stops == {n \in 0 .. Len(data) : n = Len(data) \/ n = MaxFrameSize \/ data[n + 1] = 0}
    IN  CHOOSE n \in stops : \A k \in stops : n <= k

\* SendChunk: frames, up to and including one that is full, or the end of the message
RECURSIVE FillChunk(_)
FillChunk(data) ==
    LET n == FindDelimiter(data)
        rest == SubSeq(data, n + 1, Len(data))
        frame == <<n + 1>> \o SubSeq(data, 1, n)
    IN  IF n = MaxFrameSize THEN [bytes |-> frame, rest |-> rest, frame |-> n]
        ELSE IF rest = <<>> THEN [bytes |-> frame \o <<0>>, rest |-> <<>>, frame |-> n]
        ELSE LET more == FillChunk(Tail(rest)) IN [more EXCEPT !.bytes = frame \o @]

SendSerialData(bytes, size) ==
    /\ serial' = TRUE
    /\ wire' = wire \o bytes
    /\ sendSizeEncoded' = size + Len(bytes)

\* CheckReadyToSendUserData, with the request and sendingUserData as they are by then
CheckReadyToSendUserData(request, sending) ==
    IF ~sending /\ request # None
      THEN sendStream' = request /\ sendReqestedSize' = None
      ELSE UNCHANGED sendStream /\ sendReqestedSize' = request

\* Requests of the layer above: one at a time, and none before it has released the stream it had
RequestSendMessage(m) ==
    /\ Len(sent) < MaxMessages /\ onStopDone = "no"
    /\ sendReqestedSize = None /\ sendStream = None
    /\ CheckReadyToSendUserData(m, sendingUserData)
    /\ UNCHANGED <<onAllocatable, sendingUserData, sendingFirstPacket, resetting, dataToSend, frameSize,
                   sendSizeEncoded, serial, onStopDone, receiverVars, wire, sent, resets>>

\* The layer above releases the stream: SendStreamFilled. What was written before a Reset is dropped.
ReleaseStream ==
    /\ sendStream # None
    /\ sendStream' = None
    /\ IF onAllocatable = "fill"
         THEN /\ sendingUserData' = TRUE /\ sendingFirstPacket' = FALSE
              /\ sent' = Append(sent, [message |-> sendStream, size |-> 0, complete |-> FALSE])
              /\ IF sendingFirstPacket
                   THEN /\ SendSerialData(<<0>>, sendSizeEncoded)
                        /\ dataToSend' = sendStream /\ frameSize' = 0
                   ELSE LET chunk == FillChunk(sendStream)
                        IN  /\ SendSerialData(chunk.bytes, sendSizeEncoded)
                            /\ dataToSend' = chunk.rest /\ frameSize' = chunk.frame
              /\ UNCHANGED onAllocatable
         ELSE /\ onAllocatable' = IF onAllocatable = "clear" THEN "fill" ELSE onAllocatable
              /\ UNCHANGED <<sendingUserData, sendingFirstPacket, dataToSend, frameSize, sendSizeEncoded, serial, wire, sent>>
    /\ UNCHANGED <<sendReqestedSize, resetting, onStopDone, receiverVars, resets>>

\* FinishChunk: MessageSent
FinishChunk ==
    /\ sendingUserData' = FALSE /\ serial' = FALSE
    /\ sent' = [sent EXCEPT ![Len(sent)].size = sendSizeEncoded, ![Len(sent)].complete = TRUE]
    /\ sendSizeEncoded' = 0
    /\ CheckReadyToSendUserData(sendReqestedSize, FALSE)
    /\ UNCHANGED <<resetting, dataToSend, frameSize, wire>>

FinishReset(request) ==
    /\ resetting' = FALSE /\ sendingUserData' = FALSE /\ sendSizeEncoded' = 0
    /\ CheckReadyToSendUserData(request, FALSE)

\* SendOrDone. The delimiter is sent first, before anything of the message is.
SendOrDone ==
    IF resetting THEN FinishReset(sendReqestedSize) /\ serial' = FALSE /\ UNCHANGED <<dataToSend, frameSize, wire, sent>>
    ELSE IF dataToSend = <<>> /\ frameSize < MaxFrameSize THEN FinishChunk
    ELSE LET chunk == FillChunk(dataToSend)
         IN  /\ SendSerialData(chunk.bytes, sendSizeEncoded)
             /\ dataToSend' = chunk.rest /\ frameSize' = chunk.frame
             /\ UNCHANGED <<sendingUserData, resetting, sendReqestedSize, sendStream, sent>>

\* A variant with a mistake: nobody is told that it has stopped
SendDataDoneWithoutStop ==
    /\ serial
    /\ SendOrDone /\ UNCHANGED onStopDone
    /\ UNCHANGED <<onAllocatable, sendingFirstPacket, receiverVars, resets>>

\* The serial driver has sent a chunk
SendDataDone ==
    /\ serial
    /\ IF onStopDone = "requested"
         THEN /\ onStopDone' = "done" /\ serial' = FALSE
              /\ UNCHANGED <<sendReqestedSize, sendStream, sendingUserData, resetting, dataToSend, frameSize,
                             sendSizeEncoded, wire, sent>>
         ELSE SendOrDone /\ UNCHANGED onStopDone
    /\ UNCHANGED <<onAllocatable, sendingFirstPacket, receiverVars, resets>>

----------------------------------------------------------------------------
(* Reset and Stop of the sender *)

\* Reset, as far as the sender goes. The receiver of the same object starts afresh likewise.
Reset ==
    /\ resets < MaxResets /\ onStopDone = "no"
    /\ resets' = resets + 1
    /\ onAllocatable' = IF sendStream # None THEN "clear" ELSE onAllocatable
    /\ sendingFirstPacket' = TRUE
    /\ IF sendingUserData THEN resetting' = TRUE /\ sendReqestedSize' = None /\ UNCHANGED <<sendingUserData, sendSizeEncoded, sendStream>>
                          ELSE FinishReset(None)
    /\ UNCHANGED <<dataToSend, frameSize, serial, onStopDone, receiverVars, wire, sent>>

Stop ==
    /\ onStopDone = "no"
    /\ onAllocatable' = "nothing"
    /\ onStopDone' = IF sendingUserData \/ resetting THEN "requested" ELSE "done"
    /\ UNCHANGED <<sendReqestedSize, sendStream, sendingUserData, sendingFirstPacket, resetting, dataToSend, frameSize,
                   sendSizeEncoded, serial, receiverVars, wire, sent, resets>>

----------------------------------------------------------------------------
(* Receiving *)

\* FinishMessage: nothing is received between two delimiters that follow each other
FinishMessage ==
    /\ received' = IF receivedMessage = <<>> THEN received
                   ELSE Append(received, [message |-> receivedMessage, size |-> receiveSizeEncoded + 1])
    /\ receiveSizeEncoded' = IF receivedMessage = <<>> THEN receiveSizeEncoded + 1 ELSE 0
    /\ receivedMessage' = <<>>

MessageBoundary ==
    /\ FinishMessage
    /\ nextOverhead' = 1 /\ overheadPositionIsPseudo' = TRUE

ExtractOverhead(b) ==
    /\ nextOverhead' = b
    /\ receiveSizeEncoded' = receiveSizeEncoded + 1
    /\ receivedMessage' = IF overheadPositionIsPseudo THEN receivedMessage ELSE Append(receivedMessage, 0)
    /\ overheadPositionIsPseudo' = (b = MaxFrameSize + 1)
    /\ UNCHANGED received

ExtractData(b) ==
    /\ receivedMessage' = Append(receivedMessage, b)
    /\ receiveSizeEncoded' = receiveSizeEncoded + 1
    /\ nextOverhead' = nextOverhead - 1
    /\ UNCHANGED <<overheadPositionIsPseudo, received>>

\* DataReceived, one byte at a time: data may be cut anywhere
DataReceived ==
    /\ wire # <<>>
    /\ wire' = Tail(wire)
    /\ IF Head(wire) = 0 THEN MessageBoundary
       ELSE IF nextOverhead = 1 THEN ExtractOverhead(Head(wire))
       ELSE ExtractData(Head(wire))
    /\ UNCHANGED <<senderVars, sent, resets>>

Next ==
    \/ \E m \in Message : RequestSendMessage(m)
    \/ ReleaseStream \/ SendDataDone
    \/ Reset \/ Stop
    \/ DataReceived

SafeSpec == Init /\ [][Next]_vars

\* Streams are released, and the driver reports what it has sent
Spec == SafeSpec /\ WF_vars(ReleaseStream) /\ WF_vars(SendDataDone)

----------------------------------------------------------------------------
(* Properties *)

\* Messages arrive as they were sent, and both sides count the same number of bytes for each: that is what
\* the windows of SesameWindowed are about. After the first delimiter, that number is MessageSize.
ReceivedAsSent ==
    resets = 0 =>
        /\ Len(received) <= Len(sent)
        /\ \A i \in 1 .. Len(received) :
             /\ received[i].message = sent[i].message
             /\ sent[i].complete => received[i].size = sent[i].size
             /\ received[i].size = MessageSize(sent[i].message) + (IF i = 1 THEN 1 ELSE 0)
             /\ MessageSize(sent[i].message) <= WorstCaseEncodedMessageSize(Len(sent[i].message))

\* A reset in the middle of a message garbles no message that is sent after it
LastIntact ==
    LET n == Len(sent)
    IN  n > 0 /\ sent[n].complete /\ wire = <<>> =>
            received # <<>> /\ received[Len(received)].message = sent[n].message

\* The driver is given one chunk at a time, and a chunk's memory is not written to by a new message while it is
\* sent; once Stop is done, no callback is pending.
OneChunk ==
    /\ serial <=> sendingUserData /\ onStopDone # "done"
    /\ sendStream # None => ~serial
    /\ onStopDone = "done" => ~serial

\* A message that is requested is sent, dropped by Reset, or given up by Stop
EventuallySent == sendReqestedSize # None ~> sendReqestedSize = None \/ onStopDone # "no"

\* Stop gets its answer
EventuallyStopped == onStopDone = "requested" ~> onStopDone = "done"
====
