----------------------- MODULE ConnectionLwIpReceiving -----------------------
(***************************************************************************)
(* How ConnectionLwIp of lwip/lwip_cpp/ConnectionLwIp.cpp receives: the    *)
(* chain of pbufs in which lwIP delivers the data, the scheduled           *)
(* DataReceived, and the reader, which walks over the chain while lwIP     *)
(* adds to it and AckReceived frees what has been read.                    *)
(*                                                                         *)
(* A pbuf is its length.  The bytes are numbered in the order in which the *)
(* peer sent them, so that what a reader reads is where it stands.         *)
(***************************************************************************)
EXTENDS Integers, Sequences, FiniteSets, FiniteSetsExt

CONSTANTS
    MaxBytes,       \* bound: the number of bytes that the peer sends
    MaxPbuf,        \* bound: the number of bytes in one pbuf
    MaxMarkers,     \* bound: markers that a reader is rewound to
    Conduct         \* {"later"}: the observer may read outside DataReceived

BoundsAssumption == {MaxBytes, MaxPbuf} \subseteq Nat \ {0}
ConductAssumption == Conduct \subseteq {"later"}

Assumptions == BoundsAssumption /\ ConductAssumption

VARIABLES
    pbufs,          \* receivedData: the lengths of the chain
    consumed,       \* the bytes of the first pbuf that have been acknowledged
    scheduled,      \* dataReceivedScheduled
    attached,       \* IsAttached()
    busy,           \* the observer is within DataReceived
    reader,         \* the reader, or NoReader
    received,       \* the number of bytes that have been received
    acked,          \* the number of bytes given to tcp_recved
    reported,       \* bytes received when DataReceived was called last
    empty           \* DataReceived was called without data

vars == <<pbufs, consumed, scheduled, attached, busy, reader, received,
          acked, reported, empty>>

NoReader == [offset |-> -1, pbuf |-> 0, at |-> 0, markers |-> {}]

(***************************************************************************)
(* The number of bytes in the first i pbufs of a chain.                    *)
(***************************************************************************)
Before(chain, i) ==
    LET sum[j \in 0 .. Len(chain)] == IF j = 0 THEN 0 ELSE sum[j - 1] + chain[j]
    IN  sum[i]

Unread == Before(pbufs, Len(pbufs)) - consumed

Init ==
    /\ pbufs = <<>> /\ consumed = 0
    /\ scheduled = FALSE /\ attached = FALSE /\ busy = FALSE
    /\ reader = NoReader
    /\ received = 0 /\ acked = 0 /\ reported = 0 /\ empty = FALSE

Open == reader # NoReader

Available == Unread - reader.offset

(***************************************************************************)
(* A reader stands in a pbuf, at a byte of it; 0 is nullptr.               *)
(***************************************************************************)
First(chain) == IF chain = <<>> THEN 0 ELSE 1

Following(chain, i) == IF i < Len(chain) THEN i + 1 ELSE 0

(***************************************************************************)
(* Going count bytes on, pbuf by pbuf: the loop of Rewind and of           *)
(* PeekContiguousRange.                                                    *)
(***************************************************************************)
\* A variant with a mistake: the end of a pbuf is not noticed.
StepWithin(chain, place) ==
    LET delta == Min({place.left, chain[place.pbuf] - place.at})
    IN  [pbuf |-> IF delta = 0 THEN Following(chain, place.pbuf) ELSE place.pbuf,
         at   |-> IF delta = 0 THEN 0 ELSE place.at + delta,
         left |-> place.left - delta]

Step(chain, place) ==
    LET delta == Min({place.left, chain[place.pbuf] - place.at})
        end == place.at + delta = chain[place.pbuf]
    IN  [pbuf |-> IF end THEN Following(chain, place.pbuf) ELSE place.pbuf,
         at   |-> IF end THEN 0 ELSE place.at + delta,
         left |-> place.left - delta]

Walk(chain, pbuf, at, count) ==
    LET steps[i \in 0 .. Len(chain) + 1] ==
            IF i = 0 THEN [pbuf |-> pbuf, at |-> at, left |-> count]
            ELSE LET place == steps[i - 1] IN
                 IF place.left = 0 \/ place.pbuf = 0 THEN place
                 ELSE Step(chain, place)
    IN  steps[Len(chain) + 1]

(***************************************************************************)
(* PeekContiguousRange(start): the place of the range, and its length.     *)
(***************************************************************************)
Peek(start) == Walk(pbufs, reader.pbuf, reader.at, start)

PeekLength(place) == IF place.pbuf = 0 THEN 0 ELSE pbufs[place.pbuf] - place.at

-----------------------------------------------------------------------------
(***************************************************************************)
(* The observer is in DataReceived, or may read at any other time.         *)
(***************************************************************************)
MayRead == busy \/ ("later" \in Conduct /\ attached)

(***************************************************************************)
(* lwIP delivers a pbuf.  DataReceived is scheduled, if it is not yet.     *)
(***************************************************************************)
Schedules == IF attached THEN TRUE ELSE scheduled

Recv ==
    /\ ~busy
    /\ \E len \in 1 .. MaxPbuf:
        /\ received + len <= MaxBytes
        /\ received' = received + len
        /\ pbufs' = Append(pbufs, len)
    /\ scheduled' = Schedules
    /\ UNCHANGED <<consumed, attached, busy, reader, acked, reported, empty>>

CallDataReceived ==
    /\ busy' = TRUE
    /\ reported' = received
    /\ empty' = (empty \/ Unread = 0)

(***************************************************************************)
(* The scheduled call, and the one of Attach for data that came before.    *)
(***************************************************************************)
DataReceived ==
    /\ ~busy /\ scheduled
    /\ scheduled' = FALSE
    /\ CallDataReceived
    /\ UNCHANGED <<pbufs, consumed, attached, reader, received, acked>>

Attach ==
    /\ ~attached
    /\ attached' = TRUE
    /\ IF pbufs # <<>>
       THEN CallDataReceived
       ELSE UNCHANGED <<busy, reported, empty>>
    /\ UNCHANGED <<pbufs, consumed, scheduled, reader, received, acked>>

(***************************************************************************)
(* The observer returns from DataReceived, and has released its reader     *)
(* unless it reads later.                                                  *)
(***************************************************************************)
Return ==
    /\ busy
    /\ Open => "later" \in Conduct
    /\ busy' = FALSE
    /\ UNCHANGED <<pbufs, consumed, scheduled, attached, reader, received,
                   acked, reported, empty>>

ReceiveStream ==
    /\ MayRead /\ ~Open
    /\ reader' = [offset |-> 0, pbuf |-> First(pbufs), at |-> consumed,
                  markers |-> {}]
    /\ UNCHANGED <<pbufs, consumed, scheduled, attached, busy, received,
                   acked, reported, empty>>

ReleaseReader ==
    /\ MayRead /\ Open
    /\ reader' = NoReader
    /\ UNCHANGED <<pbufs, consumed, scheduled, attached, busy, received,
                   acked, reported, empty>>

ExtractContiguousRange(max) ==
    LET chunk == Min({max, PeekLength(Peek(0))})
        at == reader.at + chunk
        end == reader.pbuf # 0 /\ at = pbufs[reader.pbuf]
    IN  /\ MayRead /\ Open
        /\ reader' = [reader EXCEPT
                !.offset = @ + chunk,
                !.pbuf = IF end THEN Following(pbufs, @) ELSE @,
                !.at = IF end THEN 0 ELSE at]
        /\ UNCHANGED <<pbufs, consumed, scheduled, attached, busy, received,
                       acked, reported, empty>>

ConstructSaveMarker ==
    /\ MayRead /\ Open
    /\ Cardinality(reader.markers \cup {reader.offset}) <= MaxMarkers
    /\ reader' = [reader EXCEPT !.markers = @ \cup {reader.offset}]
    /\ UNCHANGED <<pbufs, consumed, scheduled, attached, busy, received,
                   acked, reported, empty>>

Rewind(marker) ==
    LET place == Walk(pbufs, First(pbufs), consumed, marker) IN
    /\ MayRead /\ Open
    /\ reader' = [reader EXCEPT !.offset = marker, !.pbuf = place.pbuf,
                                !.at = place.at]
    /\ UNCHANGED <<pbufs, consumed, scheduled, attached, busy, received,
                   acked, reported, empty>>

(***************************************************************************)
(* AckReceived: ConsumeRead frees the pbufs that have been read, and the   *)
(* reader starts anew at the first byte that has not been.                 *)
(***************************************************************************)
Freed(chain, count) ==
    Max({i \in 0 .. Len(chain): count > 0 /\ Before(chain, i) <= count} \cup {0})

AckReceived ==
    LET count == reader.offset + consumed
        freed == Freed(pbufs, count)
        rest == count - Before(pbufs, freed)
        chain == SubSeq(pbufs, freed + 1, Len(pbufs))
    IN  /\ MayRead /\ Open
        /\ acked' = acked + reader.offset
        /\ pbufs' = chain
        /\ consumed' = rest
        /\ reader' = [offset |-> 0, pbuf |-> First(chain), at |-> rest,
                      markers |-> {}]
        /\ UNCHANGED <<scheduled, attached, busy, received, reported, empty>>

Next ==
    \/ Recv \/ DataReceived \/ Attach \/ Return
    \/ ReceiveStream \/ ReleaseReader \/ AckReceived \/ ConstructSaveMarker
    \/ \E max \in 1 .. MaxPbuf: ExtractContiguousRange(max)
    \/ \E marker \in reader.markers: Rewind(marker)

Spec == Init /\ [][Next]_vars

-----------------------------------------------------------------------------
TypeOK ==
    /\ pbufs \in Seq(1 .. MaxPbuf)
    /\ consumed \in Nat
    /\ {scheduled, attached, busy, empty} \subseteq BOOLEAN
    /\ reader.offset \in -1 .. MaxBytes /\ reader.pbuf \in 0 .. Len(pbufs)
    /\ {received, acked, reported} \subseteq 0 .. MaxBytes

(***************************************************************************)
(* The chain holds the bytes that have not been acknowledged, and none     *)
(* else: a pbuf is freed when its last byte is, and the window that is     *)
(* given back to the peer is what has been read.                           *)
(***************************************************************************)
ChainConserved ==
    /\ received - acked = Unread
    /\ consumed < IF pbufs = <<>> THEN 1 ELSE Head(pbufs)

(***************************************************************************)
(* The reader stands at the byte that follows the ones it has read since   *)
(* the last AckReceived, after any order of reading, rewinding and         *)
(* acknowledging, and while the chain grows; and it looks ahead from       *)
(* there.                                                                  *)
(***************************************************************************)
ReaderInPlace ==
    Open /\ reader.pbuf # 0 =>
        \A start \in 0 .. Available - 1:
            LET place == Peek(start) IN
            /\ PeekLength(place) > 0
            /\ Before(pbufs, place.pbuf - 1) + place.at
                    = consumed + reader.offset + start

(***************************************************************************)
(* Data of which the observer has not been told leads to DataReceived.     *)
(***************************************************************************)
DataReported == attached /\ received > reported => scheduled

(***************************************************************************)
(* When DataReceived is called there is data to be received.               *)
(***************************************************************************)
NeverEmpty == ~empty

(***************************************************************************)
(* A reader that is not Empty() has something to extract.                  *)
(***************************************************************************)
ReaderSeesAvailable ==
    Open /\ Available > 0 => PeekLength(Peek(0)) > 0
=============================================================================
