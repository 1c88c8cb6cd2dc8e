---- MODULE SesameSecured ----
(***************************************************************************)
(* services/util/SesameSecured.cpp: two peers that encrypt their messages  *)
(* with a counter (the IV) that both sides advance per message and reset   *)
(* when the connection is initialized. It is composed with the             *)
(* initialization of SesameWindowed, which decides when that happens on    *)
(* either side; windows are left out, they have their own module.          *)
(*                                                                         *)
(* A message is its IV: it is decrypted if it arrives intact and the       *)
(* receiver has come to the same IV. The keys are the initial ones.        *)
(***************************************************************************)
EXTENDS Integers, Sequences

CONSTANTS IvSize,               \* of an IV, in bits: 96 in the code
          Initiators,           \* peers that start now; the others were up before, their Init went unheard
          Restarters,           \* peers that may restart
          Writers,              \* peers whose layer above keeps a writer for a while
          MaxMessages, MaxRestarts, MaxDamages   \* bounds

Assumptions ==
    /\ IvSize \in Nat \ {0} /\ Writers \subseteq {1, 2} /\ Initiators \subseteq {1, 2} /\ Restarters \subseteq {1, 2}
    /\ MaxMessages \in Nat /\ MaxRestarts \in Nat /\ MaxDamages \in Nat

VARIABLES peer,      \* the members of the objects of each peer
          line,      \* packets on their way to each peer
          sent,      \* history: IVs of the messages that a peer sent since it was initialized
          messages, restarts, damages

vars == <<peer, line, sent, messages, restarts, damages>>

Sides == {1, 2}
Other(p) == 3 - p

Iv == [1 .. IvSize -> {0, 1}]
Packet == [operation : {"init", "initResponse", "message"}, iv : Iv, intact : BOOLEAN]

TypeOK ==
    /\ peer \in [Sides -> [initialized : BOOLEAN, sentInitResponse : BOOLEAN, sendInitResponse : BOOLEAN,
                           writer : BOOLEAN, sendIv : Iv, receiveIv : Iv,
                           integrityCheckFailed : BOOLEAN, timer : BOOLEAN, reported : BOOLEAN]]
    /\ line \in [Sides -> Seq(Packet)]
    /\ sent \in [Sides -> Seq(Iv)]
    /\ messages \in 0 .. MaxMessages /\ restarts \in 0 .. MaxRestarts /\ damages \in 0 .. MaxDamages

----------------------------------------------------------------------------
(* The IV: a big endian number *)

InitialIv == [i \in 1 .. IvSize |-> 1]

\* The last digit that is not at its maximum is increased, the ones after it wrap around
IncreaseIv(iv) ==
    LET carries(i) == \A j \in i + 1 .. IvSize : iv[j] = 1
    IN  [i \in 1 .. IvSize |-> IF carries(i) THEN 1 - iv[i] ELSE iv[i]]

----------------------------------------------------------------------------
(* Packets of SesameWindowed *)

Control(operation) == [operation |-> operation, iv |-> InitialIv, intact |-> TRUE]

Constructed == [initialized |-> FALSE, sentInitResponse |-> FALSE, sendInitResponse |-> FALSE, writer |-> FALSE,
                sendIv |-> InitialIv, receiveIv |-> InitialIv,
                integrityCheckFailed |-> FALSE, timer |-> FALSE, reported |-> FALSE]

\* A peer sends an init message when it is constructed
Init ==
    /\ peer = [p \in Sides |-> Constructed]
    /\ line = [p \in Sides |-> IF Other(p) \in Initiators THEN <<Control("init")>> ELSE <<>>]
    /\ sent = [p \in Sides |-> <<>>]
    /\ messages = 0 /\ restarts = 0 /\ damages = 0

\* SetNextState: an init response is sent once no message is being written
SetNextState(r) ==
    IF r.initialized /\ r.sendInitResponse /\ ~r.writer
      THEN [r EXCEPT !.sendInitResponse = FALSE, !.sentInitResponse = TRUE] ELSE r

\* p becomes r, and sends packets first
Become(p, r, packets, rest) ==
    LET responds == SetNextState(r) # r
    IN  /\ peer' = [peer EXCEPT ![p] = SetNextState(r)]
        /\ line' = [line EXCEPT ![p] = rest,
                                ![Other(p)] = @ \o packets \o IF responds THEN <<Control("initResponse")>> ELSE <<>>]

----------------------------------------------------------------------------
(* SesameSecured *)

\* A variant with a mistake: the IVs go on where they were
InitializedKeepingIv(r) == [r EXCEPT !.initialized = TRUE, !.integrityCheckFailed = FALSE, !.timer = FALSE, !.sendIv = InitialIv]
\* Initialized, called by ReceivedInitialize of SesameWindowed
Initialized(r) ==
    [r EXCEPT !.initialized = TRUE, !.integrityCheckFailed = FALSE, !.timer = FALSE,
              !.sendIv = InitialIv, !.receiveIv = InitialIv]

ReportIntegrityCheckFailed(r) == [r EXCEPT !.reported = TRUE]

\* ReceivedMessage. A message that follows one that failed shows that that was not cut off by a restart.
ReceivedMessage(r, packet) ==
    IF r.integrityCheckFailed THEN ReportIntegrityCheckFailed(r)
    ELSE IF packet.intact /\ packet.iv = r.receiveIv THEN [r EXCEPT !.receiveIv = IncreaseIv(@)]
    ELSE [r EXCEPT !.integrityCheckFailed = TRUE, !.timer = TRUE]

\* ReceivedMessage of SesameWindowed
Received(r, packet) ==
    CASE packet.operation = "init" -> Initialized([r EXCEPT !.sendInitResponse = TRUE])
      [] packet.operation = "initResponse" -> IF r.sentInitResponse THEN r ELSE Initialized(r)
      [] packet.operation = "message" -> IF r.initialized THEN ReceivedMessage(r, packet) ELSE r

----------------------------------------------------------------------------
(* Steps *)

\* The history starts again whenever the peer is initialized
Since(p, r) == IF r.sendIv = InitialIv /\ peer[p].sendIv # InitialIv THEN <<>> ELSE sent[p]

Receive(p) ==
    /\ line[p] # <<>>
    /\ LET r == Received(peer[p], Head(line[p]))
       IN  Become(p, r, <<>>, Tail(line[p])) /\ sent' = [sent EXCEPT ![p] = Since(p, r)]
    /\ UNCHANGED <<messages, restarts, damages>>

\* SendMessageStreamAvailable: the layer above gets a writer
SendMessageStreamAvailable(p) ==
    /\ p \in Writers /\ messages < MaxMessages
    /\ peer[p].initialized /\ ~peer[p].writer
    /\ peer' = [peer EXCEPT ![p].writer = TRUE]
    /\ messages' = messages + 1
    /\ UNCHANGED <<line, sent, restarts, damages>>

\* SendMessageStreamReleased: the message is encrypted with the IV of by now
SendMessageStreamReleased(p) ==
    LET r == peer[p]
        message == [operation |-> "message", iv |-> r.sendIv, intact |-> TRUE]
    IN  /\ Become(p, [r EXCEPT !.writer = FALSE, !.sendIv = IncreaseIv(@)], <<message>>, line[p])
        /\ sent' = [sent EXCEPT ![p] = Append(@, r.sendIv)]
        /\ UNCHANGED <<restarts, damages>>

ReleaseWriter(p) == peer[p].writer /\ SendMessageStreamReleased(p) /\ UNCHANGED messages

\* The layer above writes and releases at once
SendMessage(p) ==
    /\ p \notin Writers /\ messages < MaxMessages
    /\ peer[p].initialized
    /\ messages' = messages + 1
    /\ SendMessageStreamReleased(p)

\* integrityCheckFailedTimer: the Init of a peer that has restarted arrives within a second
IntegrityCheckFailedTimer(p) ==
    /\ peer[p].timer
    /\ \A i \in 1 .. Len(line[p]) : line[p][i].operation # "init"
    /\ peer' = [peer EXCEPT ![p] = [ReportIntegrityCheckFailed(@) EXCEPT !.timer = FALSE]]
    /\ UNCHANGED <<line, sent, messages, restarts, damages>>

\* A peer restarts, and misses some of the packets on their way to it. The packet that it is sending is cut off: it
\* arrives damaged, or not at all.
Restart(p, missed, cut) ==
    LET q == Other(p)
        last == Len(line[q])
    IN  /\ p \in Restarters /\ restarts < MaxRestarts
        /\ restarts' = restarts + 1
        /\ cut # "no" => last > 0
        /\ peer' = [peer EXCEPT ![p] = [Constructed EXCEPT !.reported = peer[p].reported]]
        /\ line' = [line EXCEPT ![p] = SubSeq(@, missed + 1, Len(@)),
                                ![q] = Append(CASE cut = "no" -> @
                                                [] cut = "lost" -> SubSeq(@, 1, last - 1)
                                                [] cut = "damaged" -> [@ EXCEPT ![last].intact = FALSE],
                                              Control("init"))]
        /\ sent' = [sent EXCEPT ![p] = <<>>]
        /\ UNCHANGED <<messages, damages>>

\* A message is damaged on its way
Damage(p) ==
    /\ damages < MaxDamages
    /\ \E i \in 1 .. Len(line[p]) : /\ line[p][i].operation = "message"
                                    /\ line' = [line EXCEPT ![p][i].intact = FALSE]
    /\ damages' = damages + 1
    /\ UNCHANGED <<peer, sent, messages, restarts>>

Next == \E p \in Sides :
    \/ Receive(p)
    \/ SendMessageStreamAvailable(p) \/ ReleaseWriter(p) \/ SendMessage(p)
    \/ IntegrityCheckFailedTimer(p)
    \/ \E missed \in 0 .. Len(line[p]), cut \in {"no", "lost", "damaged"} : Restart(p, missed, cut)
    \/ Damage(p)

Spec == Init /\ [][Next]_vars

----------------------------------------------------------------------------
(* Properties *)

\* Nobody reports a failed integrity check because a peer restarted: only for a message that was damaged
NoFalseAlarm == damages = 0 => \A p \in Sides : ~peer[p].reported

\* When everything has arrived undamaged, the receiver expects the IV that the sender will use next
InSync ==
    \A p \in Sides :
        /\ \A q \in Sides : line[q] = <<>> /\ peer[q].initialized /\ ~peer[q].writer /\ ~peer[q].integrityCheckFailed
        /\ damages = 0
        => peer[p].receiveIv = peer[Other(p)].sendIv

\* No IV is used twice between two initializations
IvUsedOnce == \A p \in Sides : \A i, j \in 1 .. Len(sent[p]) : sent[p][i] = sent[p][j] => i = j
====
