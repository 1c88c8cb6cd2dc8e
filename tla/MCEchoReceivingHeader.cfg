SPECIFICATION Spec
CONSTANTS
    Kinds = {"now"}
    NumMessages = 3
    MaxContents = 1
    MaxPacket = 4
    MaxRestarts = 1
    SplitHeaders = TRUE
    ServicesReset = FALSE
    None = None
INVARIANT MessagesIntact
CHECK_DEADLOCK FALSE
