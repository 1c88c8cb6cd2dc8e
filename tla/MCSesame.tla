------------------------------ MODULE MCSesame ------------------------------
(* The layers of Sesame, for TLC: SesameWindowed, and SesameCobs and            *)
(* SesameSecured below and above it. In its module, each layer is given the     *)
(* most general behaviour of the layers around it, so they are examined one by  *)
(* one: each behaviour is one scenario, in which one layer is used and the      *)
(* others stay as they were initially.                                          *)
EXTENDS SesameWindowed

CONSTANT Nobody     \* None of SesameCobs

VARIABLES
    scenario,
    sendReqestedSize, sendStream, onAllocatable, sendingUserData, sendingFirstPacket, resetting,
    dataToSend, frameSize, sendSizeEncoded, serial, onStopDone, wire, nextOverhead,
    overheadPositionIsPseudo, receivedMessage, receiveSizeEncoded, sent, received, cobsResets,
    securedPeer, securedLine, sentIvs, messages, securedRestarts, damages

cobsVars == <<sendReqestedSize, sendStream, onAllocatable, sendingUserData, sendingFirstPacket, resetting,
              dataToSend, frameSize, sendSizeEncoded, serial, onStopDone, wire, nextOverhead,
              overheadPositionIsPseudo, receivedMessage, receiveSizeEncoded, sent, received, cobsResets>>
securedVars == <<securedPeer, securedLine, sentIvs, messages, securedRestarts, damages>>
mcVars == <<scenario, vars, cobsVars, securedVars>>

\* Messages of up to one frame and a half.
Cobs == INSTANCE SesameCobs WITH
    None <- Nobody, MaxFrameSize <- 2, MaxSize <- 3, MaxMessages <- 2, MaxResets <- 1, resets <- cobsResets

\* One peer may restart, and one message may be damaged.
Secured == INSTANCE SesameSecured WITH
    IvSize <- 2, Initiators <- {1}, Restarters <- {2}, Writers <- {}, MaxMessages <- 4,
    MaxRestarts <- 1, MaxDamages <- 1, peer <- securedPeer, line <- securedLine, sent <- sentIvs,
    restarts <- securedRestarts

\* Both start at the same time, while they are writing.
Crossing == INSTANCE SesameSecured WITH
    IvSize <- 2, Initiators <- {1, 2}, Restarters <- {}, Writers <- {1, 2}, MaxMessages <- 4,
    MaxRestarts <- 0, MaxDamages <- 0, peer <- securedPeer, line <- securedLine, sent <- sentIvs,
    restarts <- securedRestarts

ASSUME Assumptions /\ Cobs!Assumptions /\ Secured!Assumptions /\ Crossing!Assumptions

MCInit ==
    /\ scenario \in {"flow", "cobs", "secured", "crossing"}
    /\ Init
    /\ Cobs!Init
    /\ IF scenario = "crossing" THEN Crossing!Init ELSE Secured!Init

OnlyWindowed(step) == scenario = "flow" /\ step /\ UNCHANGED <<scenario, cobsVars, securedVars>>
OnlyCobs(step) == scenario = "cobs" /\ step /\ UNCHANGED <<scenario, vars, securedVars>>
OnlySecured(name, step) == scenario = name /\ step /\ UNCHANGED <<scenario, vars, cobsVars>>

MCNext ==
    \/ OnlyWindowed(Next)
    \/ OnlyCobs(Cobs!Next)
    \/ OnlySecured("secured", Secured!Next)
    \/ OnlySecured("crossing", Crossing!Next)

MCSpec == MCInit /\ [][MCNext]_mcVars

-----------------------------------------------------------------------------
(* Properties of the other layers; those of SesameWindowed are its own. *)

\* SesameCobs: messages arrive unchanged, with the size that both sides count, and a reset garbles no
\* message after it. Peers of SesameSecured stay in step when one restarts or both start at once: nobody
\* reports a failed integrity check for a message that was not damaged, and no IV is used twice.
DeliveredAsSent ==
    /\ TypeOK
    /\ scenario = "cobs" => Cobs!TypeOK /\ Cobs!ReceivedAsSent /\ Cobs!LastIntact /\ Cobs!OneChunk
    /\ scenario = "secured" => Secured!TypeOK /\ Secured!NoFalseAlarm /\ Secured!InSync /\ Secured!IvUsedOnce
    /\ scenario = "crossing" => Crossing!TypeOK /\ Crossing!NoFalseAlarm /\ Crossing!InSync /\ Crossing!IvUsedOnce
=============================================================================
