------------------------------- MODULE MCEcho -------------------------------
(* ECHO, which sends and receives method calls, for TLC, and what the layers    *)
(* below it promise to happen in the end. In its module, each side and each     *)
(* layer is given the most general behaviour of what is around it, so they are  *)
(* examined one by one: each behaviour is one scenario, in which one of them is *)
(* used and the others stay as they were initially.                             *)
EXTENDS EchoSending

CONSTANTS A, B

VARIABLES
    scenario,
    echo, todo, restarts,
    peer, line, peerRestarts,
    sendReqestedSize, sendStream, onAllocatable, sendingUserData, sendingFirstPacket, resetting,
    dataToSend, frameSize, sendSizeEncoded, serial, onStopDone, wire, nextOverhead,
    overheadPositionIsPseudo, receivedMessage, receiveSizeEncoded, sent, received, cobsResets

receivingVars == <<echo, todo, restarts>>
windowedVars == <<peer, line, peerRestarts>>
cobsVars == <<sendReqestedSize, sendStream, onAllocatable, sendingUserData, sendingFirstPacket, resetting,
              dataToSend, frameSize, sendSizeEncoded, serial, onStopDone, wire, nextOverhead,
              overheadPositionIsPseudo, receivedMessage, receiveSizeEncoded, sent, received, cobsResets>>
mcVars == <<scenario, vars, receivingVars, windowedVars, cobsVars>>

\* Packets end anywhere, also in the middle of a header.
Receiving == INSTANCE EchoReceiving WITH
    Kinds <- {"now", "later", "unknown", "forward"}, NumMessages <- 3, MaxContents <- 1, MaxPacket <- 4,
    MaxRestarts <- 0, SplitHeaders <- TRUE, ServicesReset <- FALSE

\* The peer restarts in the middle of messages.
Restarting == INSTANCE EchoReceiving WITH
    Kinds <- {"now", "later", "unknown"}, NumMessages <- 3, MaxContents <- 2, MaxPacket <- 4,
    MaxRestarts <- 2, SplitHeaders <- FALSE, ServicesReset <- TRUE

\* Two peers that send the largest messages, so that both windows are used up again and again.
Windowed == INSTANCE SesameWindowed WITH
    Peers <- {A, B}, Initiators <- {A}, Delayers <- {B}, BufferSize <- 5, ReleaseSize <- 1,
    SplitBuffers <- 2, MessageSizes <- {2}, Restarters <- {}, MaxRestarts <- 0, restarts <- peerRestarts

\* Both start at the same time, and either may restart.
Handshake == INSTANCE SesameWindowed WITH
    Peers <- {A, B}, Initiators <- {A, B}, Delayers <- {B}, BufferSize <- 5, ReleaseSize <- 1,
    SplitBuffers <- 2, MessageSizes <- {}, Restarters <- {A, B}, MaxRestarts <- 2, restarts <- peerRestarts

\* Frames and messages as small as there are.
Cobs == INSTANCE SesameCobs WITH
    MaxFrameSize <- 1, MaxSize <- 2, MaxMessages <- 1, MaxResets <- 1, resets <- cobsResets

ASSUME /\ Assumptions /\ Receiving!Assumptions /\ Restarting!Assumptions
       /\ Windowed!Assumptions /\ Handshake!Assumptions /\ Cobs!Assumptions

MCInit ==
    /\ scenario \in {"sending", "receiving", "restarting", "windowed", "handshake", "cobs"}
    /\ Init
    /\ CASE scenario = "receiving" -> Receiving!Init
         [] scenario = "restarting" -> Restarting!Init
         [] OTHER -> echo = Receiving!Fresh /\ todo = <<>> /\ restarts = 0
    /\ IF scenario = "handshake" THEN Handshake!Init ELSE Windowed!Init
    /\ Cobs!Init

OnlySending(step) == scenario = "sending" /\ step /\ UNCHANGED <<scenario, receivingVars, windowedVars, cobsVars>>
OnlyReceiving(name, step) == scenario = name /\ step /\ UNCHANGED <<scenario, vars, windowedVars, cobsVars>>
OnlyWindowed(name, step) == scenario = name /\ step /\ UNCHANGED <<scenario, vars, receivingVars, cobsVars>>
OnlyCobs(step) == scenario = "cobs" /\ step /\ UNCHANGED <<scenario, vars, receivingVars, windowedVars>>

MCNext ==
    \/ OnlySending(Next)
    \/ OnlyReceiving("receiving", Receiving!Next)
    \/ OnlyReceiving("restarting", Restarting!Next)
    \/ OnlyWindowed("windowed", Windowed!Next)
    \/ OnlyWindowed("handshake", Handshake!Next)
    \/ OnlyCobs(Cobs!Next)

\* What the modules assume of the driver, of the observers and of the layer below.
MCFairness ==
    /\ WF_mcVars(OnlySending(SkipStream))
    /\ WF_mcVars(OnlySending(\E keep \in BOOLEAN, parts \in 1 .. MaxParts : SendStreamAvailable(keep, parts)))
    /\ WF_mcVars(OnlySending(ReleaseWriter))
    /\ WF_mcVars(OnlySending(~initialized /\ Initialized))
    /\ \A p \in {A, B} :
          /\ WF_mcVars(OnlyWindowed("windowed", Windowed!ReceiveMessage(p)))
          /\ WF_mcVars(OnlyWindowed("windowed", Windowed!SendMessage(p, 2)))
          /\ WF_mcVars(OnlyWindowed("windowed", Windowed!MessageSent(p)))
          /\ WF_mcVars(OnlyWindowed("windowed", Windowed!ReleaseReader(p)))
          /\ WF_mcVars(OnlyWindowed("windowed", Windowed!GrantInitialization(p)))
          /\ WF_mcVars(OnlyWindowed("handshake", Handshake!ReceiveMessage(p)))
          /\ WF_mcVars(OnlyWindowed("handshake", Handshake!MessageSent(p)))
          /\ WF_mcVars(OnlyWindowed("handshake", Handshake!ReleaseReader(p)))
          /\ WF_mcVars(OnlyWindowed("handshake", Handshake!GrantInitialization(p)))
    /\ WF_mcVars(OnlyCobs(Cobs!ReleaseStream))
    /\ WF_mcVars(OnlyCobs(Cobs!SendDataDone))

MCSpec == MCInit /\ [][MCNext]_mcVars /\ MCFairness

-----------------------------------------------------------------------------
(* Properties; RequestsKept is that of EchoSending. *)

\* What is read as a header is one, contents go to their own method, methods are executed in order, one at a
\* time and all of them, and no assertion fails.
MethodsExecuted ==
    /\ TypeOK
    /\ scenario = "receiving" => /\ Receiving!TypeOK /\ Receiving!NeverFails
                                 /\ Receiving!MessagesIntact /\ Receiving!ExecutedInOrder
                                 /\ Receiving!NothingHeldBack /\ Receiving!KeptReaderExists
                                 /\ Receiving!AllExecuted
    /\ scenario = "restarting" => /\ Restarting!TypeOK /\ Restarting!NeverFails
                                  /\ Restarting!MessagesIntact /\ Restarting!ExecutedInOrder
                                  /\ Restarting!NothingHeldBack

\* A message that SesameWindowed accepts is sent in the end: the peers never both wait for window.
MessageEventuallySent == scenario = "windowed" => Windowed!MessageEventuallySent

\* SesameCobs sends what is requested unless it is reset or stopped, and Stop ends; and every proxy of
\* ECHO is granted.
RequestsServed ==
    /\ scenario = "cobs" => Cobs!EventuallySent /\ Cobs!EventuallyStopped
    /\ scenario = "sending" => EventuallyGranted

\* However often the peers restart, once they stop doing so both end up initialized.
HandshakeEnds == scenario = "handshake" => Handshake!HandshakeEnds
=============================================================================
