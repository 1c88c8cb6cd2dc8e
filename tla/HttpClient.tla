------------------------------ MODULE HttpClient ------------------------------
(****************************************************************************)
(* services/network/HttpClientImpl.cpp, with the HttpHeaderParser of        *)
(* Http.cpp: an HTTP client on a connection that it keeps open.  The client *)
(* writes a request, with a body that the observer writes piece by piece    *)
(* (chunked, or of a size that is known beforehand), and then reads the     *)
(* response, which arrives cut in arbitrary pieces, and of which the        *)
(* observer gets readers of the body.  Bytes stand for themselves where     *)
(* they are counted; of a response a line is two units, so that it can be   *)
(* cut in the middle, and what it says is in the second.                    *)
(*                                                                          *)
(* BodyReceived is a loop with a callback in it, so that one iteration is   *)
(* one step: no event of the event loop happens while loop # "no".          *)
(****************************************************************************)
EXTENDS Integers, Sequences, FiniteSets, SequencesExt

CONSTANTS
    MaxRequests,        \* the requests that are made
    HeadSize,           \* the bytes of a request without its body
    MaxBody,            \* the largest body of a request
    MaxSendStreamSize,  \* of the connection
    MaxChunks, MaxChunkSize,    \* of a chunked response
    Conduct             \* what server and observer do: a subset of AllConduct

AllConduct == {"splitStatus",   \* a packet may end in the middle of a status line
               "splitEnd",      \* or between the last chunk's size and the end of the response
               "reuse",         \* a request may follow a chunked response
               "keepChunk",     \* the observer may keep the reader of a chunk
               "readEarly",     \* or read, in a reader it kept, what DataReceived has yet to report
               "close"}         \* the observer may close the connection in BodyAvailable

Assumptions ==
    /\ {MaxRequests, HeadSize, MaxBody, MaxSendStreamSize, MaxChunks, MaxChunkSize} \subseteq Nat
    /\ MaxSendStreamSize > 8
    /\ Conduct \subseteq AllConduct

VARIABLES
    request, asked,         \* bytes of the request to be sent, whether a stream is asked for
    sendingState, nextState,
    writer,                 \* the limit of the writer that the observer has, or None
    written, wire,          \* what the observer wrote, and what the connection sent
    expecting, statusParsed, statusCode,    \* response, and its HttpHeaderParser
    headerParsingDone, headerParsingError, contentLength, chunkedEncoding, firstChunk,
    bodyReader,             \* the observer has a reader of the body
    loop,                   \* "no", or where BodyReceived is
    attached,               \* "yes", "closed" by the observer or "aborted"
    coming, buffer, notify, \* what the network has, what the connection has received
    expected, got,          \* the data of the response, and what the observer read of it
    requests                \* requests made

sending == <<request, asked, sendingState, nextState, writer, written, wire>>
parser == <<statusParsed, statusCode, headerParsingDone, headerParsingError>>
body == <<contentLength, chunkedEncoding, firstChunk>>
network == <<coming, buffer, notify>>
vars == <<sending, expecting, parser, body, bodyReader, loop, attached, network,
          expected, got, requests>>

None == -1

\* The overhead that ChunkWriter keeps room for.
ChunkOverhead == 8

Least(a, b) == IF a < b THEN a ELSE b

Drop(s, n) == SubSeq(s, n + 1, Len(s))

(****************************************************************************)
(* What is on the wire.                                                     *)
(****************************************************************************)
Unit(t, n) == [t |-> t, n |-> n]

Line(t, n) == <<Unit("part", IF t = "status" THEN 1 ELSE 0), Unit(t, n)>>

EmptyLine == <<Unit("cr", 0), Unit("lf", 0)>>

Data(from, n) == [i \in 1 .. n |-> Unit("data", from + i)]

Total(sizes) == FoldSeq(LAMBDA n, total : n + total, 0, sizes)

\* The chunks of a chunked body: after the first, each size is preceded by the end of the
\* chunk before it.
Chunks(sizes) ==
    FlattenSeq([i \in DOMAIN sizes |->
        (IF i = 1 THEN <<>> ELSE EmptyLine) \o Line("size", sizes[i])
            \o Data(Total(SubSeq(sizes, 1, i - 1)), sizes[i])])

Bodies == UNION {[1 .. n -> 1 .. MaxChunkSize] : n \in 0 .. MaxChunks}

Bodyless == Line("status", 204) \o Line("header", 0) \o EmptyLine
Defined(n) == Line("status", 200) \o Line("length", n) \o EmptyLine \o Data(0, n)
Chunked(sizes) == Line("status", 200) \o Line("chunked", 0) \o EmptyLine
                    \o Chunks(Append(sizes, 0)) \o EmptyLine

(****************************************************************************)
(* Sending a request.                                                       *)
(****************************************************************************)
SendingStateRequest == [kind |-> "request", contentSize |-> 0, first |-> TRUE]
SendingStateForwardSendStream == [SendingStateRequest EXCEPT !.kind = "chunked"]
SendingStateForwardDefinedSizeStream(size) ==
    [SendingStateRequest EXCEPT !.kind = "defined", !.contentSize = size]

Idle == loop = "no" /\ attached = "yes"

\* The client is between two requests; a chunked response leaves its end behind.
Ready ==
    /\ Idle /\ request = 0 /\ asked = 0 /\ writer = None /\ ~ expecting
    /\ sendingState = SendingStateRequest /\ nextState = SendingStateRequest
    /\ "reuse" \in Conduct \/ (coming = <<>> /\ buffer = <<>>)

ExecuteRequestWithContent ==
    /\ Ready /\ requests < MaxRequests
    /\ requests' = requests + 1
    /\ request' = HeadSize
    /\ nextState' \in {SendingStateRequest, SendingStateForwardSendStream}
                        \cup {SendingStateForwardDefinedSizeStream(n) : n \in 0 .. MaxBody}
    /\ asked' = Least(request', MaxSendStreamSize)
    /\ written' = 0 /\ wire' = <<>> /\ expected' = 0 /\ got' = <<>>
    /\ UNCHANGED <<sendingState, writer, expecting, parser, body, bodyReader, loop, attached,
                   network>>

\* NextState when the state that becomes current is s: Activate asks for a stream, expects
\* the response, or, when there is nothing to forward, goes on to the next state.
NextState(s) ==
    LET nothing == s.kind = "defined" /\ s.contentSize = 0
    IN  /\ sendingState' = IF nothing THEN SendingStateRequest ELSE s
        /\ nextState' = SendingStateRequest
        /\ expecting' = (sendingState'.kind = "request")
        /\ asked' = CASE sendingState'.kind = "request" -> 0
                      [] sendingState'.kind = "chunked" -> MaxSendStreamSize
                      [] sendingState'.kind = "defined" -> Least(s.contentSize, MaxSendStreamSize)

SendRequest ==
    /\ Idle /\ asked > 0 /\ sendingState.kind = "request"
    /\ request' = request - asked
    /\ wire' = wire \o [i \in 1 .. asked |-> Unit("head", 0)]
    /\ IF request' = 0
       THEN NextState(nextState)
       ELSE /\ asked' = Least(request', MaxSendStreamSize)
            /\ UNCHANGED <<sendingState, nextState, expecting>>
    /\ UNCHANGED <<writer, written, parser, body, bodyReader, loop, attached, network, expected,
                   got, requests>>

\* SendStreamAvailable of the forwarding states.
ForwardSendStream ==
    /\ Idle /\ asked > 0 /\ sendingState.kind # "request"
    /\ asked' = 0
    /\ writer' = IF sendingState.kind = "chunked"
                 THEN asked - ChunkOverhead
                 ELSE Least(asked, sendingState.contentSize)
    /\ UNCHANGED <<request, sendingState, nextState, written, wire, expecting, parser, body,
                   bodyReader, loop, attached, network, expected, got, requests>>

\* A variant with a mistake: every chunk is written as if it was the first.
EndOfChunkForgotten == <<>>

\* The end of the chunk before, which ChunkWriter writes before a size.
EndOfChunk == IF sendingState.first THEN <<>> ELSE EmptyLine

\* The destructor of ChunkWriter.
ChunkWriter(n) ==
    /\ wire' = wire \o EndOfChunk \o Line("size", n)
                    \o Data(written, n) \o (IF n = 0 THEN EmptyLine ELSE <<>>)
    /\ IF n = 0
       THEN NextState(nextState)
       ELSE /\ sendingState' = [sendingState EXCEPT !.first = FALSE]
            /\ asked' = MaxSendStreamSize
            /\ UNCHANGED <<nextState, expecting>>

\* The destructor of SizeTrackingWriter.
SizeTrackingWriter(n) ==
    LET left == sendingState.contentSize - n
    IN  /\ wire' = wire \o Data(written, n)
        /\ IF left = 0
           THEN NextState(nextState)
           ELSE /\ sendingState' = [sendingState EXCEPT !.contentSize = left]
                /\ asked' = Least(left, MaxSendStreamSize)
                /\ UNCHANGED <<nextState, expecting>>

\* The observer has written n bytes and releases the writer; MaxBody bounds what it writes.
ReleaseWriter ==
    /\ Idle /\ writer # None
    /\ \E n \in 0 .. Least(writer, MaxBody - written) :
        /\ written' = written + n
        /\ IF sendingState.kind = "chunked"
           THEN ChunkWriter(n)
           ELSE n > 0 /\ SizeTrackingWriter(n)
    /\ writer' = None
    /\ UNCHANGED <<request, parser, body, bodyReader, loop, attached, network, expected, got,
                   requests>>

(****************************************************************************)
(* The server and the connection (external).                                *)
(****************************************************************************)
\* The body that is on the wire after the head, and whether it is complete.
IsRequest ==
    LET sent == Drop(wire, HeadSize)
        data == SelectSeq(sent, LAMBDA u : u.t = "data")
        sizes == SelectSeq(sent, LAMBDA u : u.t = "size")
    IN  /\ data = Data(0, written)
        /\ \/ sent = data
           \/ sent = Chunks([i \in DOMAIN sizes |-> sizes[i].n]) \o EmptyLine

Respond ==
    /\ Idle /\ expecting /\ wire # <<>>
    /\ wire' = <<>>
    /\ \/ coming' = coming \o Bodyless /\ expected' = 0
       \/ \E sizes \in Bodies :
            /\ expected' = Total(sizes)
            /\ coming' \in {coming \o Defined(expected'), coming \o Chunked(sizes)}
    /\ UNCHANGED <<request, asked, sendingState, nextState, writer, written, expecting, parser,
                   body, bodyReader, loop, attached, buffer, notify, got, requests>>

\* A packet is not cut here.
Uncut(n) ==
    \/ /\ "splitStatus" \notin Conduct
       /\ coming[n] = Unit("part", 1)
    \/ /\ "splitEnd" \notin Conduct /\ n < Len(coming)
       /\ \E i \in 1 .. n : n - i \in 0 .. 1 /\ coming[i] = Unit("size", 0)

Arrive ==
    /\ Idle
    /\ \E n \in DOMAIN coming :
        /\ ~ Uncut(n)
        /\ buffer' = buffer \o SubSeq(coming, 1, n)
        /\ coming' = Drop(coming, n)
    /\ notify' = TRUE
    /\ UNCHANGED <<sending, expecting, parser, body, bodyReader, loop, attached, expected, got,
                   requests>>

(****************************************************************************)
(* The head of a response.                                                  *)
(****************************************************************************)
LineEnds(s) == {i \in DOMAIN s : s[i].t \in {"status", "header", "length", "chunked", "size", "lf"}}

FirstEnd(s) == CHOOSE i \in LineEnds(s) : \A j \in LineEnds(s) : i <= j

\* ParseStatusLine: what is left, whether a line was found, and its status, None when it is
\* not a status line.  Without the end of a line, what there is has been read nevertheless.
ParseStatusLine(s) ==
    IF LineEnds(s) = {}
    THEN [left |-> <<>>, parsed |-> FALSE, code |-> None]
    ELSE LET end == FirstEnd(s)
         IN  [left |-> Drop(s, end), parsed |-> TRUE,
              code |-> IF end = 2 /\ s[1] = Unit("part", 1) THEN s[2].n ELSE None]

\* ParseHeaders: lines up to the empty one, or to the last that is complete.
ParseHeaders(s) ==
    LET ends == LineEnds(s)
        empty == {i \in ends : s[i].t = "lf"}
        last == CASE empty # {} -> CHOOSE i \in empty : \A j \in empty : i <= j
                  [] empty = {} /\ ends # {} -> CHOOSE i \in ends : \A j \in ends : j <= i
                  [] ends = {} -> 0
    IN  [left |-> Drop(s, last), lines |-> SubSeq(s, 1, last), done |-> empty # {}]

\* HeaderAvailable, for each of the lines.
HeadersAvailable(lines) ==
    LET lengths == SelectSeq(lines, LAMBDA u : u.t \in {"length", "chunked"})
    IN  /\ contentLength' = IF lengths = <<>> THEN contentLength ELSE Last(lengths).n
        /\ chunkedEncoding' = (chunkedEncoding \/ \E i \in DOMAIN lines : lines[i].t = "chunked")

\* The status codes that have no body.
IsBodyless(code) == code = 204

Abort == attached' = "aborted" /\ loop' = "no"

\* HandleData while the head of the response is not complete.
HandleHead ==
    LET status == IF statusParsed
                  THEN [left |-> buffer, parsed |-> TRUE, code |-> statusCode]
                  ELSE ParseStatusLine(buffer)
        error == status.parsed /\ status.code = None
        headers == IF error
                   THEN [left |-> status.left, lines |-> <<>>, done |-> TRUE]
                   ELSE ParseHeaders(status.left)
        known == \/ \E i \in DOMAIN headers.lines : headers.lines[i].t \in {"length", "chunked"}
                 \/ contentLength # None
    IN  /\ statusParsed' = status.parsed /\ statusCode' = status.code
        /\ headerParsingDone' = headers.done /\ headerParsingError' = error
        /\ buffer' = headers.left
        /\ IF headers.done /\ ~ known /\ IsBodyless(status.code)
           THEN contentLength' = 0 /\ UNCHANGED chunkedEncoding
           ELSE HeadersAvailable(headers.lines)
        /\ CASE headers.done /\ (error \/ contentLength' = None) -> Abort
             [] headers.done /\ ~ error /\ contentLength' # None ->
                    loop' = "run" /\ UNCHANGED attached
             [] ~ headers.done -> UNCHANGED <<loop, attached>>

\* DataReceived.  With a reader, BodyAvailable gives the observer the reader it has.
DataReceived ==
    /\ Idle /\ notify
    /\ notify' = FALSE
    /\ CASE bodyReader -> UNCHANGED <<parser, contentLength, chunkedEncoding, loop, attached, buffer>>
         [] ~ bodyReader /\ ~ expecting ->
                Abort /\ UNCHANGED <<parser, contentLength, chunkedEncoding, buffer>>
         [] ~ bodyReader /\ expecting /\ ~ headerParsingDone -> HandleHead
         [] ~ bodyReader /\ expecting /\ headerParsingDone ->
                loop' = "run" /\ UNCHANGED <<parser, contentLength, chunkedEncoding, attached, buffer>>
    /\ UNCHANGED <<sending, expecting, firstChunk, bodyReader, coming, expected, got, requests>>

(****************************************************************************)
(* The body of a response.                                                  *)
(****************************************************************************)
\* BodyComplete, with Reset.
BodyComplete ==
    /\ contentLength' = None /\ firstChunk' = TRUE
    /\ headerParsingDone' = FALSE /\ headerParsingError' = FALSE
    /\ expecting' = FALSE /\ statusParsed' = FALSE /\ statusCode' = None

BodyCompletes ==
    /\ loop = "run" /\ contentLength = 0 /\ ~ chunkedEncoding
    /\ BodyComplete
    /\ loop' = "no"
    /\ UNCHANGED <<sending, chunkedEncoding, bodyReader, attached, network, expected, got, requests>>

\* The units that ReadChunkLength reads: the end of the chunk before, and a size.
ChunkHead == (IF firstChunk THEN <<>> ELSE <<"cr", "lf">>) \o <<"part", "size">>

\* What has been received starts with the units that ReadChunkLength expects.
Matches(units) == \A i \in 1 .. Least(Len(units), Len(buffer)) : buffer[i].t = units[i]

\* Nothing is acknowledged, and so nothing is lost, unless all of the size has been received.
ReadChunkLength ==
    /\ loop = "run" /\ contentLength = 0 /\ chunkedEncoding
    /\ CASE ~ Matches(ChunkHead) ->
                Abort /\ UNCHANGED <<contentLength, chunkedEncoding, firstChunk, buffer>>
         [] Matches(ChunkHead) /\ Len(buffer) < Len(ChunkHead) ->
                loop' = "no" /\ UNCHANGED <<contentLength, chunkedEncoding, firstChunk, buffer, attached>>
         [] Matches(ChunkHead) /\ Len(buffer) >= Len(ChunkHead) ->
                /\ contentLength' = buffer[Len(ChunkHead)].n
                /\ chunkedEncoding' = (contentLength' # 0)
                /\ firstChunk' = FALSE
                /\ buffer' = Drop(buffer, Len(ChunkHead))
                /\ UNCHANGED <<loop, attached>>
    /\ UNCHANGED <<sending, expecting, parser, bodyReader, coming, notify, expected, got, requests>>

\* BodyReceived gives the observer a reader of what is left of the body or of the chunk.
BodyReaderAvailable ==
    /\ loop = "run" /\ contentLength > 0
    /\ bodyReader' = TRUE
    /\ loop' = "observer"
    /\ UNCHANGED <<sending, expecting, parser, body, attached, network, expected, got, requests>>

\* What a reader can read, limited by the length of the body or of the chunk.
Readable == Least(contentLength, Len(buffer))

\* The observer reads what there is and releases the reader.
BodyReaderDestroyed ==
    /\ got' = got \o SubSeq(buffer, 1, Readable)
    /\ buffer' = Drop(buffer, Readable)
    /\ bodyReader' = FALSE
    /\ IF contentLength = Readable /\ ~ chunkedEncoding
       THEN BodyComplete
       ELSE /\ contentLength' = contentLength - Readable
            /\ UNCHANGED <<expecting, parser, firstChunk>>
    /\ UNCHANGED chunkedEncoding

\* ... in BodyAvailable, and may then close the connection.
ReadInBodyAvailable ==
    /\ loop = "observer"
    /\ BodyReaderDestroyed
    /\ \/ UNCHANGED attached
       \/ "close" \in Conduct /\ attached' = "closed"
    /\ loop' = "repeat"
    /\ UNCHANGED <<sending, coming, notify, expected, requests>>

\* ... or keeps it, and BodyReceived ends, since contentLength is not zero.
KeepReader ==
    /\ loop = "observer"
    /\ "keepChunk" \in Conduct \/ ~ chunkedEncoding
    /\ loop' = "no"
    /\ UNCHANGED <<sending, expecting, parser, body, bodyReader, attached, network, expected, got,
                   requests>>

ReleaseReader ==
    /\ Idle /\ bodyReader
    /\ "readEarly" \in Conduct \/ ~ notify
    /\ BodyReaderDestroyed
    /\ UNCHANGED <<sending, loop, attached, coming, notify, expected, requests>>

\* Whether BodyReceived goes on after the observer has had the reader.
Repeat == chunkedEncoding /\ contentLength = 0

RepeatBodyReceived ==
    /\ loop = "repeat"
    /\ loop' = IF Repeat THEN "run" ELSE "no"
    /\ UNCHANGED <<sending, expecting, parser, body, bodyReader, attached, network, expected, got,
                   requests>>

(****************************************************************************)
Init ==
    /\ request = 0 /\ asked = 0 /\ sendingState = SendingStateRequest
    /\ nextState = SendingStateRequest /\ writer = None /\ written = 0 /\ wire = <<>>
    /\ expecting = FALSE /\ statusParsed = FALSE /\ statusCode = None
    /\ headerParsingDone = FALSE /\ headerParsingError = FALSE
    /\ contentLength = None /\ chunkedEncoding = FALSE /\ firstChunk = TRUE
    /\ bodyReader = FALSE /\ loop = "no" /\ attached = "yes"
    /\ coming = <<>> /\ buffer = <<>> /\ notify = FALSE
    /\ expected = 0 /\ got = <<>> /\ requests = 0

Progress ==
    \/ SendRequest \/ ForwardSendStream \/ ReleaseWriter
    \/ Respond \/ Arrive \/ DataReceived
    \/ BodyCompletes \/ ReadChunkLength \/ BodyReaderAvailable
    \/ ReadInBodyAvailable \/ KeepReader \/ ReleaseReader \/ RepeatBodyReceived

Next == ExecuteRequestWithContent \/ Progress

\* The connection sends and delivers, the event loop runs, and the observer writes its body
\* and releases its readers.
Spec == Init /\ [][Next]_vars /\ WF_vars(Progress)

(****************************************************************************)
(* Properties.                                                              *)
(****************************************************************************)
States == [kind : {"request", "chunked", "defined"}, contentSize : 0 .. MaxBody, first : BOOLEAN]

\* The values of the variables: in particular contentLength, of which the length of what has
\* been read is subtracted, does not become negative, and nothing is received that no
\* response contains.
TypeOK ==
    /\ request \in 0 .. HeadSize /\ asked \in 0 .. MaxSendStreamSize
    /\ sendingState \in States /\ nextState \in States
    /\ writer \in {None} \cup 1 .. MaxSendStreamSize /\ written \in 0 .. MaxBody
    /\ contentLength \in {None} \cup 0 .. MaxChunks * MaxChunkSize
    /\ loop \in {"no", "run", "observer", "repeat"}
    /\ attached \in {"yes", "closed", "aborted"}
    /\ requests \in 0 .. MaxRequests /\ Len(got) <= MaxChunks * MaxChunkSize
    /\ {expecting, statusParsed, headerParsingDone, headerParsingError, chunkedEncoding,
        firstChunk, bodyReader, notify} \subseteq BOOLEAN

\* The last request has been answered.
Complete ==
    /\ requests > 0 /\ ~ expecting
    /\ asked = 0 /\ writer = None /\ loop = "no"

\* A request that the client has finished is what the observer has written, as a body of the
\* size that was announced or as well-formed chunks, whatever pieces it was written in
\* (ChunkWriter, SizeTrackingWriter).
RequestIntact == expecting /\ wire # <<>> => IsRequest

\* The observer reads the body of the response, all of it when BodyComplete is called, and
\* nothing else: no part of the head, of the size of a chunk, or of another response.
BodyIntact ==
    /\ IsPrefix(got, Data(0, expected))
    /\ Complete /\ attached = "yes" => Len(got) = expected

\* A response that is well-formed is never taken for an error, wherever the network cuts it
\* (ParseStatusLine, ParseHeaders, ReadChunkLength).
NeverAborts == attached # "aborted"

\* Once the observer has closed the connection, and with it destroyed the client, BodyReceived
\* does not go on with the next chunk.
NotUsedAfterClose == loop = "run" => attached = "yes"

\* Every request is answered: BodyComplete is called once the response has been received and
\* the observer has released its readers.
EventuallyComplete == asked > 0 ~> Complete \/ attached = "closed"
=============================================================================
